---------------------------- MODULE ShardedServer ----------------------------
(***************************************************************************)
(* The sharded test server (envtest/sharded.go, sharded_unix.go): a        *)
(* Sharded runs the subprocess sharded-test-server, the leader of a        *)
(* process group of kcp shards, cache server and front proxy.  Start       *)
(* launches it and polls for the file ready-to-test in the work directory  *)
(* until the file is there, the process has exited or the time is up; Stop *)
(* escalates from SIGTERM to SIGKILL.  An earlier server may have left its *)
(* ready-to-test in the work directory.  Which error a call returns, and   *)
(* whether Stop's is that of the exit, is left out.                        *)
(***************************************************************************)
EXTENDS Integers

CONSTANTS
  NumberOfShards,  \* Sharded.NumberOfShards
  MaxServerFaults  \* bound: failing calls and crashes of the server

ASSUME ServerBoundsAssumption ==
  NumberOfShards \in Nat \ {0} /\ MaxServerFaults \in Nat

VARIABLES
  pc,          \* where the test's goroutine is in Start or Stop
  handle,      \* s.cmd.Process is not nil
  log,         \* s.logFile is open
  config,      \* s.config is set
  waitDone,    \* the Wait goroutine has closed s.waitDone
  leader,      \* the process sharded-test-server
  group,       \* the processes it launched
  signal,      \* the last signal sent to the process group
  readyFile,   \* ready-to-test exists in the work directory
  mishaps      \* faults so far

processes == <<leader, group, readyFile>>
sharded == <<handle, log, config, waitDone>>
serverVars == <<pc, sharded, processes, signal, mishaps>>

\* sharded-test-server serves requests of the front proxy.
Serving == group = "serving"

Mishap ==
  /\ mishaps < MaxServerFaults
  /\ mishaps' = mishaps + 1

\* The number of names "root", "shard-1", "shard-2", ...
ShardNames == NumberOfShards

-----------------------------------------------------------------------------
(* Faulty variants of definitions below, used by no specification.         *)

\* Stop does not wait for the process it killed.
StopKillsAndReturns ==
  /\ pc = "stopWait"
  /\ signal' = "KILL"
  /\ handle' = FALSE /\ log' = FALSE
  /\ pc' = "down"
  /\ UNCHANGED <<config, waitDone, processes, mishaps>>

\* Stop waits for the process however long it takes.
StopKillsNever == pc = "never" /\ UNCHANGED serverVars

-----------------------------------------------------------------------------
ServerInit ==
  /\ pc = "new" /\ mishaps = 0
  /\ handle = FALSE /\ log = FALSE /\ config = FALSE /\ waitDone = FALSE
  /\ leader = "none" /\ group = "none" /\ signal = "none"
  /\ readyFile \in BOOLEAN

(* Start.                                                                  *)

\* applyDefaults and resolveShardedTestServer succeed, the log file is open.
Prepare ==
  /\ pc = "new"
  /\ log' = TRUE
  /\ pc' = "launch"
  /\ UNCHANGED <<handle, config, waitDone, processes, signal,
                 mishaps>>

\* One of these fails, or cmd.Start does, which closes the log.
CannotLaunch ==
  /\ pc \in {"new", "launch"}
  /\ Mishap
  /\ log' = FALSE
  /\ pc' = "down"
  /\ UNCHANGED <<handle, config, waitDone, processes, signal>>

\* cmd.Start, in a process group of its own.
Launch ==
  /\ pc = "launch"
  /\ leader' = "running" /\ group' = "booting"
  /\ handle' = TRUE
  /\ pc' = "stat"
  /\ UNCHANGED <<log, config, waitDone, readyFile, signal,
                 mishaps>>

\* waitReady: os.Stat before anything else, whoever wrote the file.
Stat ==
  /\ pc = "stat"
  /\ pc' = IF readyFile THEN "config" ELSE "select"
  /\ UNCHANGED <<sharded, processes, signal, mishaps>>

\* case <-tick.C
Tick ==
  /\ pc = "select"
  /\ pc' = "stat"
  /\ UNCHANGED <<sharded, processes, signal, mishaps>>

\* case <-s.waitDone, case <-timeoutCtx.Done(): which of them, only the error
\* tells.  Start calls Stop.
StartGivesUp ==
  /\ pc = "select"
  /\ pc' = "stop"
  /\ UNCHANGED <<sharded, processes, signal, mishaps>>

\* os.Stat or loadAdminConfig fails.
StartErrors ==
  /\ pc \in {"stat", "config"}
  /\ Mishap
  /\ pc' = "stop"
  /\ UNCHANGED <<sharded, processes, signal>>

\* loadAdminConfig
LoadConfig ==
  /\ pc = "config"
  /\ config' = TRUE
  /\ pc' = "up"
  /\ UNCHANGED <<handle, log, waitDone, processes, signal, mishaps>>

-----------------------------------------------------------------------------
(* Stop, of the test after any Start and of Start after an error.          *)

CallStop ==
  /\ pc \in {"up", "down"}
  /\ pc' = "stop"
  /\ UNCHANGED <<sharded, processes, signal, mishaps>>

\* closeLog, and Stop returns.
Return ==
  /\ log' = FALSE
  /\ handle' = FALSE
  /\ pc' = "down"
  /\ UNCHANGED <<config, waitDone, processes, signal, mishaps>>

\* There is no process, or none any more.
StopNothing ==
  /\ pc = "stop" /\ ~handle
  /\ Return

\* The process has exited, before the signal or because of it.
StopExited ==
  /\ pc \in {"stop", "stopWait"}
  /\ handle /\ waitDone
  /\ Return

Terminate ==
  /\ pc = "stop" /\ handle /\ ~waitDone
  /\ signal' = "TERM"
  /\ pc' = "stopWait"
  /\ UNCHANGED <<sharded, processes, mishaps>>

\* case <-time.After(s.StopTimeout)
StopKills ==
  /\ pc = "stopWait"
  /\ signal' = "KILL"
  /\ pc' = "killWait"
  /\ UNCHANGED <<sharded, processes, mishaps>>

\* <-s.waitDone
StopKilled ==
  /\ pc = "killWait" /\ waitDone
  /\ Return

-----------------------------------------------------------------------------
(* The Wait goroutine and the processes.                                   *)

WaitReturns ==
  /\ handle /\ ~waitDone
  /\ leader = "ended"
  /\ waitDone' = TRUE
  /\ UNCHANGED <<pc, handle, log, config, processes, signal,
                 mishaps>>

\* sharded-test-server writes the file when all its processes are ready.
BecomesReady ==
  /\ leader = "running" /\ group = "booting"
  /\ group' = "serving" /\ readyFile' = TRUE
  /\ UNCHANGED <<pc, sharded, leader, signal, mishaps>>

\* The leader ends because of SIGTERM, with or without a handler, or of
\* SIGKILL; the file it wrote may stay.
LeaderEnds ==
  /\ leader = "running" /\ signal # "none"
  /\ leader' = "ended"
  /\ readyFile' \in {readyFile, FALSE}
  /\ UNCHANGED <<pc, sharded, group, signal, mishaps>>

\* The leader ends by itself.
LeaderCrashes ==
  /\ leader = "running" /\ signal = "none"
  /\ Mishap
  /\ leader' = "ended"
  /\ readyFile' \in {readyFile, FALSE}
  /\ UNCHANGED <<pc, sharded, group, signal>>

\* The other processes end because of a signal or after their leader.
GroupEnds ==
  /\ group \in {"booting", "serving"}
  /\ signal # "none" \/ leader = "ended"
  /\ group' = "ended"
  /\ UNCHANGED <<pc, sharded, leader, readyFile, signal, mishaps>>

-----------------------------------------------------------------------------
\* The steps inside Start and Stop; the calls are the test's.
InStart ==
  \/ Prepare \/ CannotLaunch \/ Launch
  \/ Stat \/ Tick \/ StartGivesUp \/ StartErrors \/ LoadConfig
InStop == StopNothing \/ StopExited \/ Terminate \/ StopKills \/ StopKilled

Processes == BecomesReady \/ LeaderEnds \/ LeaderCrashes \/ GroupEnds

\* A call of Start or Stop goes on, its select does not pass over a timer for
\* ever, and the kernel ends a killed process and reports its end.
ServerFairness ==
  /\ WF_serverVars(InStart) /\ SF_serverVars(StartGivesUp)
  /\ WF_serverVars(InStop) /\ WF_serverVars(WaitReturns)
  /\ WF_serverVars(signal = "KILL" /\ LeaderEnds)

-----------------------------------------------------------------------------
(* Properties.                                                             *)

\* Nothing is left behind (sharded.go:145-158, 199-246): when Start has failed
\* or Stop has returned, sharded-test-server has ended and the log is closed,
\* in whatever order readiness, exit, timeout and signals came.
NoServerLeftBehind ==
  pc = "down" => leader # "running" /\ ~log /\ ~handle

\* Start and Stop return (sharded.go:166-193, 226-245), also when the server
\* never gets ready, exits early or ignores SIGTERM.
ServerCallsReturn ==
  /\ pc = "new" ~> pc \in {"up", "down"}
  /\ pc = "stop" ~> pc = "down"
=============================================================================
