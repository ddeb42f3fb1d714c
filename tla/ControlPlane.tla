----------------------------- MODULE ControlPlane -----------------------------
(***************************************************************************)
(* The kcp server under test (envtest): Environment.Start tries to start   *)
(* the control plane up to MaxTries times, each try makes the shard a new  *)
(* process.State around a new kcp process on the same port, waits for its  *)
(* health check, for its exit or for a timeout, and Stop terminates the    *)
(* process of the last State and removes a temporary root directory.  An   *)
(* Environment that uses an existing kcp only loads its Config.            *)
(*                                                                         *)
(* Attempts to launch kcp are numbered; attempt a has process a, the       *)
(* goroutine that waits for its exit, and the poller of its health check.  *)
(***************************************************************************)
EXTENDS Integers, FiniteSets

CONSTANTS
  MaxTries,     \* maxRetries of startControlPlane, 5 in the code
  MaxAttempts,  \* bound: processes launched
  MaxStarts,    \* bound: calls of Environment.Start
  MaxFaults     \* bound: failing calls and crashes

ASSUME TriesAssumption == MaxTries \in Nat \ {0}
ASSUME BoundsAssumption == {MaxAttempts, MaxStarts, MaxFaults} \subseteq Nat

Attempts == 1..MaxAttempts

VARIABLES
  pc,         \* where the test's goroutine is
  tries,      \* numTries of startControlPlane
  calls,      \* calls of Environment.Start so far
  faults,     \* things that went wrong so far
  launched,   \* attempts 1..launched were made
  proc,       \* the kcp process of each attempt
  signalled,  \* attempts whose process got SIGTERM
  killed,     \* attempts whose process got SIGKILL
  waited,     \* attempts whose Cmd.Wait returned: exited is set, waitDone closed
  poller,     \* the goroutine pollURLUntilOK of each attempt
  state,      \* Shard.processState
  rootDir,    \* Shard.RootDir, 0 when unset
  made,       \* temporary directories 1..made were created
  dirs,       \* directories that exist
  certs,      \* directories that hold an apiserver.crt
  ca,         \* SecureServing.CA is set
  authn,      \* SecureServing.Authn is set
  retried,    \* a try of startControlPlane has failed (history)
  existing,   \* useExistingKcp
  config      \* Environment.Config: none, or its host is "base" or "scoped"

procVars == <<launched, proc, signalled, killed, waited, poller>>
dirVars == <<rootDir, made, dirs, certs, ca, authn>>
envVars == <<existing, config>>
vars == <<pc, tries, calls, faults, procVars, state, dirVars, retried, envVars>>

\* process.State: its attempt (0 while Cmd is nil), Dir, DirNeedsCleaning.
NoState == [attempt |-> 0, dir |-> 0, cleaning |-> FALSE]

Alive(a) == proc[a] \in {"booting", "serving"}
Current == state.attempt

Fault ==
  /\ faults < MaxFaults
  /\ faults' = faults + 1

-----------------------------------------------------------------------------
(* Faulty variants of actions below.  No specification uses them: each is  *)
(* a plausible mistake that one of the properties has to detect.           *)

\* A process that did not become ready is left alone.
StartTimesOutQuietly ==
  /\ pc = "select"
  /\ poller' = [poller EXCEPT ![Current] =
                  IF @ = "polling" THEN "stopping" ELSE @]
  /\ tries' = tries + 1
  /\ retried' = TRUE
  /\ pc' = IF tries + 1 < MaxTries THEN "prepare" ELSE "down"
  /\ UNCHANGED <<calls, faults, launched, proc, signalled, killed, waited,
                 state, dirVars, envVars>>

\* Stop waits for the process without a timeout.
StopTimesOutNever == pc = "never" /\ UNCHANGED vars

\* A temporary directory is not marked for its removal.
NewStateNotCleaning ==
  LET fresh == rootDir = 0
      dir == IF fresh THEN made + 1 ELSE rootDir
  IN  /\ made' = IF fresh THEN made + 1 ELSE made
      /\ dirs' = IF fresh THEN dirs \union {dir} ELSE dirs
      /\ state' = [attempt |-> 0, dir |-> dir, cleaning |-> FALSE]

\* The temporary root directory is removed and not forgotten.
StopShardKeepsRootDir(next) ==
  /\ state # NoState
  /\ pc' = next
  /\ UNCHANGED <<tries, calls, faults, procVars, state, dirVars, retried,
                 envVars>>

-----------------------------------------------------------------------------
Init ==
  /\ pc = "down" /\ tries = 0 /\ calls = 0 /\ faults = 0
  /\ launched = 0
  /\ proc = [a \in Attempts |-> "none"]
  /\ signalled = {} /\ killed = {} /\ waited = {}
  /\ poller = [a \in Attempts |-> "none"]
  /\ state = NoState
  /\ rootDir = 0 /\ made = 0 /\ dirs = {} /\ certs = {}
  /\ ca = FALSE /\ authn = FALSE
  /\ retried = FALSE
  /\ existing \in BOOLEAN /\ config = "none"

-----------------------------------------------------------------------------
(* Environment.Start, Kcp.Start, Shard.Start.                              *)

\* Shard.Start failed: startControlPlane tries again or gives up.
TryFailed ==
  /\ tries' = tries + 1
  /\ retried' = TRUE
  /\ pc' = IF tries + 1 < MaxTries THEN "prepare" ELSE "down"

\* The test calls Environment.Start, which calls startControlPlane; bad
\* timeouts in the environment make it return at once.
CallStart ==
  /\ pc = "down" /\ ~existing
  /\ calls < MaxStarts /\ launched + MaxTries <= MaxAttempts
  /\ calls' = calls + 1
  /\ tries' = 0
  /\ pc' = "prepare"
  /\ UNCHANGED <<faults, procVars, state, dirVars, retried, envVars>>

\* Shard.prepare: a new State (so never one that is ready or exited) replaces
\* the old one, whatever its process does; Init makes a temporary directory
\* unless RootDir is set.
NewState ==
  LET fresh == rootDir = 0
      dir == IF fresh THEN made + 1 ELSE rootDir
  IN  /\ made' = IF fresh THEN made + 1 ELSE made
      /\ dirs' = IF fresh THEN dirs \union {dir} ELSE dirs
      /\ state' = [attempt |-> 0, dir |-> dir, cleaning |-> fresh]

\* RootDir is recorded, the serving certificates are made unless the directory
\* has some, and the client certificates' Authn is set up.
Certificates ==
  /\ rootDir' = state'.dir
  /\ certs' = certs \union {rootDir'}
  /\ ca' = (ca \/ rootDir' \notin certs)
  /\ authn' = TRUE

Prepare ==
  /\ pc = "prepare"
  /\ NewState
  /\ Certificates
  /\ pc' = "exec"
  /\ UNCHANGED <<tries, calls, faults, procVars, retried, envVars>>

\* Authn.Start cannot write the CA of the client certificates.
AuthnFails ==
  /\ pc = "prepare"
  /\ Fault
  /\ NewState
  /\ Certificates
  /\ TryFailed
  /\ UNCHANGED <<calls, procVars, envVars>>

\* configurePorts fails before RootDir is recorded: the directory stays.
PortsFail ==
  /\ pc = "prepare"
  /\ Fault
  /\ NewState
  /\ TryFailed
  /\ UNCHANGED <<calls, procVars, rootDir, certs, ca, authn, envVars>>

\* populateServingCerts fails after apiserver.crt is written, before CA is
\* set.
CertsFail ==
  /\ pc = "prepare"
  /\ Fault
  /\ NewState
  /\ rootDir' = state'.dir
  /\ rootDir' \notin certs
  /\ certs' = certs \union {rootDir'}
  /\ TryFailed
  /\ UNCHANGED <<calls, procVars, ca, authn, envVars>>

\* State.Start: the poller starts, then the process and its Cmd.Wait.
Exec ==
  /\ pc = "exec"
  /\ launched' = launched + 1
  /\ state' = [state EXCEPT !.attempt = launched']
  /\ proc' = [proc EXCEPT ![launched'] = "booting"]
  /\ poller' = [poller EXCEPT ![launched'] = "polling"]
  /\ pc' = "select"
  /\ UNCHANGED <<tries, calls, faults, signalled, killed, waited, dirVars,
                 retried, envVars>>

\* Cmd.Start fails: exited is set, and nobody stops the poller.
ExecFails ==
  /\ pc = "exec"
  /\ Fault
  /\ launched' = launched + 1
  /\ state' = [state EXCEPT !.attempt = launched']
  /\ proc' = [proc EXCEPT ![launched'] = "exited"]
  /\ waited' = waited \union {launched'}
  /\ poller' = [poller EXCEPT ![launched'] = "polling"]
  /\ TryFailed
  /\ UNCHANGED <<calls, signalled, killed, dirVars, envVars>>

\* case <-ready
StartReady ==
  /\ pc = "select"
  /\ poller[Current] = "sending"
  /\ poller' = [poller EXCEPT ![Current] = "gone"]
  /\ pc' = "user"
  /\ UNCHANGED <<tries, calls, faults, launched, proc, signalled, killed,
                 waited, state, dirVars, retried, envVars>>

\* case <-ps.waitDone
StartExited ==
  /\ pc = "select"
  /\ Current \in waited
  /\ poller' = [poller EXCEPT ![Current] =
                  IF @ = "polling" THEN "stopping" ELSE @]
  /\ TryFailed
  /\ UNCHANGED <<calls, faults, launched, proc, signalled, killed, waited,
                 state, dirVars, envVars>>

\* case <-timedOut: SIGTERM, and nobody waits for the process.
StartTimesOut ==
  /\ pc = "select"
  /\ poller' = [poller EXCEPT ![Current] =
                  IF @ = "polling" THEN "stopping" ELSE @]
  /\ signalled' = signalled \union {Current}
  /\ TryFailed
  /\ UNCHANGED <<calls, faults, launched, proc, killed, waited, state, dirVars,
                 envVars>>

\* Kcp.Start provisions its user; Config panics when there is no CA ("the API
\* server has not yet been started").
AddUsers ==
  /\ pc = "user"
  /\ pc' = IF ca THEN "admin" ELSE "panicked"
  /\ UNCHANGED <<tries, calls, faults, procVars, state, dirVars, retried,
                 envVars>>

\* AddUser or Kubectl fails, before Config is reached or after: the deferred
\* RootShard.Stop runs before the next try.
UserFails ==
  /\ pc = "user"
  /\ Fault
  /\ pc' = "undo"
  /\ UNCHANGED <<tries, calls, procVars, state, dirVars, retried, envVars>>

\* Environment.Start provisions its own user and sets Config.
AddAdmin ==
  /\ pc = "admin"
  /\ config' = "base"
  /\ pc' = "namespace"
  /\ UNCHANGED <<tries, calls, faults, procVars, state, dirVars, retried,
                 existing>>

\* That fails: Start returns an error and leaves kcp running for Stop.
AdminFails ==
  /\ pc = "admin"
  /\ Fault
  /\ pc' = "failed"
  /\ UNCHANGED <<tries, calls, procVars, state, dirVars, retried, envVars>>

\* An existing kcp: Config is loaded unless it is set, by the test or by a
\* Start before, even one that refused its host.
StartExisting ==
  /\ pc = "down" /\ existing
  /\ calls < MaxStarts
  /\ calls' = calls + 1
  /\ \/ /\ config = "none"
        /\ config' \in {"none", "base", "scoped"}
        /\ pc' = IF config' = "base" THEN "namespace" ELSE "down"
     \/ config # "none" /\ pc' = "namespace" /\ UNCHANGED config
  /\ UNCHANGED <<tries, faults, procVars, state, dirVars, retried, existing>>

\* waitForRootWorkspaceDefaultNamespace succeeds, or its 5 seconds are over.
WaitForNamespace ==
  /\ pc = "namespace"
  /\ \/ pc' = "up" /\ UNCHANGED faults
     \/ pc' = "failed" /\ Fault
  /\ UNCHANGED <<tries, calls, procVars, state, dirVars, retried, envVars>>

-----------------------------------------------------------------------------
(* Shard.Stop and State.Stop, for the test and for the deferred call.      *)

\* Shard.Stop forgets a temporary RootDir before it stops the process.
StopShard(next) ==
  /\ state # NoState
  /\ rootDir' = IF state.cleaning THEN 0 ELSE rootDir
  /\ pc' = next
  /\ UNCHANGED <<tries, calls, faults, procVars, state, made, dirs, certs, ca,
                 authn, retried, envVars>>

\* The test calls Stop, after a successful Start or a failed one.
CallStop == pc \in {"up", "failed", "down"} /\ ~existing /\ StopShard("stop")

\* An existing kcp is left alone.
StopExisting ==
  /\ pc \in {"up", "failed"} /\ existing
  /\ pc' = "down"
  /\ UNCHANGED <<tries, calls, faults, procVars, state, dirVars, retried,
                 envVars>>

UndoStart == pc = "undo" /\ StopShard("undoStop")

\* The deferred removal of the directory, and where Stop returns to.  After
\* State.Stop returned nil, Shard.Stop calls Stop of an Authn that may be nil.
StopReturns(err) ==
  /\ dirs' = IF state.cleaning THEN dirs \ {state.dir} ELSE dirs
  /\ certs' = IF state.cleaning THEN certs \ {state.dir} ELSE certs
  /\ IF pc \in {"undoStop", "undoWait"}
     THEN TryFailed
     ELSE /\ pc' = IF err THEN "down" ELSE IF authn THEN "stopped" ELSE "panicked"
          /\ UNCHANGED <<tries, retried>>

\* Cmd is nil or the process has exited.
NothingToStop ==
  /\ pc \in {"stop", "undoStop"}
  /\ Current = 0 \/ Current \in waited
  /\ StopReturns(FALSE)
  /\ UNCHANGED <<calls, faults, procVars, state, rootDir, made, ca, authn,
                 envVars>>

Terminate ==
  /\ pc \in {"stop", "undoStop"}
  /\ Current # 0 /\ Current \notin waited
  /\ signalled' = signalled \union {Current}
  /\ pc' = IF pc = "stop" THEN "wait" ELSE "undoWait"
  /\ UNCHANGED <<tries, calls, faults, launched, proc, killed, waited, poller,
                 state, dirVars, retried, envVars>>

\* The process has been reaped, which Exited does not show yet: Signal returns
\* an error, and so does Stop.
SignalFails ==
  /\ pc \in {"stop", "undoStop"}
  /\ Current # 0 /\ Current \notin waited /\ proc[Current] = "exited"
  /\ StopReturns(TRUE)
  /\ UNCHANGED <<calls, faults, procVars, state, rootDir, made, ca, authn,
                 envVars>>

\* case <-ps.waitDone
Terminated ==
  /\ pc \in {"wait", "undoWait"}
  /\ Current \in waited
  /\ StopReturns(FALSE)
  /\ UNCHANGED <<calls, faults, procVars, state, rootDir, made, ca, authn,
                 envVars>>

\* case <-timedOut: SIGKILL, and an error, that of Signal if it fails.
StopTimesOut ==
  /\ pc \in {"wait", "undoWait"}
  /\ killed' = killed \union {Current}
  /\ StopReturns(TRUE)
  /\ UNCHANGED <<calls, faults, launched, proc, signalled, waited, poller,
                 state, rootDir, made, ca, authn, envVars>>

\* The test goes on after Stop: it may start the environment again.
AfterStop ==
  /\ pc = "stopped"
  /\ pc' = "down"
  /\ UNCHANGED <<tries, calls, faults, procVars, state, dirVars, retried,
                 envVars>>

-----------------------------------------------------------------------------
(* kcp processes and the goroutines of State.                              *)

\* kcp listens once the port of all attempts is free, or fails to bind.
Boots(a) ==
  /\ proc[a] = "booting"
  /\ proc' = [proc EXCEPT ![a] =
                IF \E b \in Attempts : proc[b] = "serving" THEN "exited"
                ELSE "serving"]
  /\ UNCHANGED <<pc, tries, calls, faults, launched, signalled, killed, waited,
                 poller, state, dirVars, retried, envVars>>

\* A process ends because of a signal.
Ends(a) ==
  /\ Alive(a) /\ a \in signalled \union killed
  /\ proc' = [proc EXCEPT ![a] = "exited"]
  /\ UNCHANGED <<pc, tries, calls, faults, launched, signalled, killed, waited,
                 poller, state, dirVars, retried, envVars>>

\* A process ends for no reason of the test's.
Crashes(a) ==
  /\ Alive(a)
  /\ Fault
  /\ proc' = [proc EXCEPT ![a] = "exited"]
  /\ UNCHANGED <<pc, tries, calls, launched, signalled, killed, waited, poller,
                 state, dirVars, retried, envVars>>

\* Cmd.Wait returns.
WaitReturns(a) ==
  /\ proc[a] = "exited" /\ a \notin waited
  /\ waited' = waited \union {a}
  /\ UNCHANGED <<pc, tries, calls, faults, launched, proc, signalled, killed,
                 poller, state, dirVars, retried, envVars>>

\* The health check succeeds, whichever process answers on the port; the
\* poller then waits for a receiver, for ever when Start has returned.
PollOK(a) ==
  /\ poller[a] \in {"polling", "stopping"}
  /\ \E b \in Attempts : proc[b] = "serving"
  /\ poller' = [poller EXCEPT ![a] = "sending"]
  /\ UNCHANGED <<pc, tries, calls, faults, launched, proc, signalled, killed,
                 waited, state, dirVars, retried, envVars>>

\* It fails, and the poller sees that it should stop.
PollStops(a) ==
  /\ poller[a] = "stopping"
  /\ \A b \in Attempts : proc[b] # "serving"
  /\ poller' = [poller EXCEPT ![a] = "gone"]
  /\ UNCHANGED <<pc, tries, calls, faults, launched, proc, signalled, killed,
                 waited, state, dirVars, retried, envVars>>

-----------------------------------------------------------------------------
\* The steps of the test's goroutine inside Start and Stop.
InStart ==
  \/ Prepare \/ PortsFail \/ CertsFail \/ AuthnFails \/ Exec \/ ExecFails
  \/ StartReady \/ StartExited \/ StartTimesOut \/ AddUsers \/ UserFails
  \/ AddAdmin \/ AdminFails \/ WaitForNamespace

InStop ==
  \/ UndoStart \/ NothingToStop
  \/ Terminate \/ SignalFails \/ Terminated \/ StopTimesOut

Background(a) ==
  Boots(a) \/ Ends(a) \/ WaitReturns(a) \/ PollOK(a) \/ PollStops(a)

Next ==
  \/ CallStart \/ StartExisting \/ InStart
  \/ CallStop \/ StopExisting \/ InStop \/ AfterStop
  \/ \E a \in Attempts : Background(a) \/ Crashes(a)

Spec == Init /\ [][Next]_vars

\* Calls return some time, because of their timeouts; processes and the API
\* server owe nothing.
FairSpec == Spec /\ WF_vars(InStart) /\ WF_vars(InStop)

-----------------------------------------------------------------------------
(* Properties.                                                             *)

\* No kcp process is left behind untold (process.go:187-200, 246-276;
\* plane.go:48-54): a process that lives while no call of Start is waiting for
\* it or has handed it to the test was sent a signal, although every try drops
\* the State, and with it the process, of the try before.  A Start that
\* panicked in Config is exempt: its deferred function sees no error and stops
\* nothing.
NoForgottenProcess ==
  \A a \in Attempts :
    Alive(a) /\ a \notin signalled \union killed =>
      a = Current /\ pc \notin {"prepare", "exec", "down", "stopped"}

\* "reset the directory if it was randomly allocated, so that we can safely
\* restart" (shard.go:322): whenever kcp is launched or running for the test,
\* its root directory exists, after any number of failed tries and stops.
SafeRestart ==
  pc \in {"exec", "select", "user", "admin", "up", "failed"} /\ ~existing
    => state.dir \in dirs

\* Start and Stop return, or panic (process.go:183-200, 263-275;
\* server.go:262-277), also when kcp neither gets ready nor reacts to signals.
EveryCallReturns ==
  /\ pc \in {"prepare", "namespace"} ~> pc \in {"up", "down", "failed", "panicked"}
  /\ pc = "stop" ~> pc \in {"stopped", "down", "panicked"}

\* "If left unspecified, then the Start() method will create a fresh temporary
\* directory, and the Stop() method will clean it up" (shard.go:90-91): after
\* any number of starts and stops none is left when Stop has returned without
\* an error, unless a try of a Start failed: the next try takes the directory
\* for one the test has set (shard.go:182-183).
StopCleansUp == pc = "stopped" /\ ~retried => dirs = {}
=============================================================================
