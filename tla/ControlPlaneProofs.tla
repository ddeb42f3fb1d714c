-------------------------- MODULE ControlPlaneProofs --------------------------
(***************************************************************************)
(* Proofs about ControlPlane, for any number of tries, starts, processes   *)
(* and faults.                                                             *)
(***************************************************************************)
EXTENDS ControlPlane, TLAPS

-----------------------------------------------------------------------------
(* The inductive invariant.                                                *)

Types ==
  /\ launched \in Nat /\ made \in Nat /\ rootDir \in Nat
  /\ proc \in [Attempts -> {"none", "booting", "serving", "exited"}]
  /\ state \in [attempt : Nat, dir : Nat, cleaning : BOOLEAN]
  /\ existing \in BOOLEAN /\ retried \in BOOLEAN

\* Attempts to come have no process, and Wait returns after the exit.
ProcessShape ==
  /\ Current <= launched
  /\ \A a \in Attempts :
       /\ a > launched => proc[a] = "none" /\ a \notin waited
       /\ a \in waited => proc[a] = "exited"

\* An Environment that uses an existing kcp launches nothing.
ExistingShape ==
  existing => /\ pc \in {"down", "namespace", "up", "failed"}
              /\ launched = 0 /\ dirs = {} /\ rootDir = 0

\* The process that Stop waits for was sent SIGTERM.
WaitShape == pc \in {"wait", "undoWait"} => Current \in signalled

\* A root directory the shard remembers is that of its State and exists; Stop
\* forgets a temporary one before it removes it.
RootDirShape ==
  /\ rootDir # 0 => rootDir = state.dir /\ rootDir \in dirs
  /\ pc \in {"stop", "undoStop", "wait", "undoWait"} /\ state.cleaning
       => rootDir = 0
  /\ pc \in {"exec", "select", "user", "admin", "namespace", "up", "failed"}
     /\ ~existing => state.dir \in dirs

\* As long as no try has failed there is at most the directory of the State,
\* which Stop will remove, and none before and after.
FirstTryShape ==
  ~retried =>
    /\ dirs \subseteq {state.dir}
    /\ dirs # {} => state.cleaning
    /\ pc \in {"down", "prepare", "stopped"} => dirs = {} /\ rootDir = 0

IInv ==
  /\ Types /\ ProcessShape /\ ExistingShape /\ WaitShape
  /\ NoForgottenProcess
  /\ RootDirShape /\ FirstTryShape

LEMMA InitInv == Init => IInv
<1> SUFFICES ASSUME Init PROVE IInv
  OBVIOUS
<1> USE DEF Init, NoState
<1>1. Types
  BY DEF Types
<1>2. ProcessShape /\ NoForgottenProcess
  BY DEF ProcessShape, NoForgottenProcess, Current, Alive
<1>3. ExistingShape /\ WaitShape /\ RootDirShape /\ FirstTryShape
  BY DEF ExistingShape, WaitShape, RootDirShape, FirstTryShape
<1> QED
  BY <1>1, <1>2, <1>3 DEF IInv

-----------------------------------------------------------------------------
(* Directories.                                                            *)

\* The part of the invariant about directories.
DirInv == Types /\ ExistingShape /\ RootDirShape /\ FirstTryShape

\* A try that fails, or not, after the new State.
LEMMA PrepareDirs ==
  ASSUME DirInv, pc = "prepare", NewState,
         rootDir' \in {rootDir, state'.dir},
         \/ pc' = "exec" /\ rootDir' = state'.dir /\ UNCHANGED retried
         \/ pc' \in {"prepare", "down"} /\ retried' = TRUE,
         UNCHANGED <<launched, proc, existing>>
  PROVE  DirInv'
<1> USE DEF DirInv, NewState
<1>1. ~existing
  BY DEF ExistingShape
<1>2. Types'
  <2>1. state' \in [attempt : Nat, dir : Nat, cleaning : BOOLEAN]
    BY DEF Types
  <2>2. rootDir' \in Nat /\ made' \in Nat
    BY <2>1 DEF Types
  <2>3. retried' \in BOOLEAN
    BY DEF Types
  <2> QED
    BY <2>1, <2>2, <2>3 DEF Types
<1>3. RootDirShape'
  BY <1>1 DEF Types, RootDirShape
<1>4. FirstTryShape'
  BY DEF Types, FirstTryShape
<1> QED
  BY <1>1, <1>2, <1>3, <1>4 DEF ExistingShape

\* Stop returns and removes a temporary directory.
LEMMA StopReturnsDirs ==
  ASSUME DirInv, pc \in {"stop", "undoStop", "wait", "undoWait"},
         NEW err \in BOOLEAN, StopReturns(err),
         UNCHANGED <<launched, proc, state, rootDir, made, existing>>
  PROVE  DirInv'
<1> USE DEF DirInv, StopReturns, TryFailed
<1>1. ~existing
  BY DEF ExistingShape
<1>2. Types'
  BY DEF Types
<1>3. RootDirShape'
  BY <1>1 DEF Types, RootDirShape
<1>4. FirstTryShape'
  BY DEF Types, FirstTryShape, RootDirShape
<1> QED
  BY <1>1, <1>2, <1>3, <1>4 DEF ExistingShape

\* Every step keeps the part about directories.
LEMMA DirStep == IInv /\ Next => DirInv'
<1> SUFFICES ASSUME IInv, Next PROVE DirInv'
  OBVIOUS
<1>0. DirInv
  BY DEF IInv, DirInv
<1>1. CASE Prepare \/ AuthnFails \/ PortsFail \/ CertsFail
  BY <1>0, <1>1, PrepareDirs DEF Prepare, AuthnFails, PortsFail, CertsFail,
     Certificates, TryFailed, procVars, envVars
<1>2. CASE NothingToStop \/ SignalFails \/ Terminated \/ StopTimesOut
  BY <1>0, <1>2, StopReturnsDirs DEF NothingToStop, SignalFails, Terminated,
     StopTimesOut, procVars, envVars
<1> USE DEF DirInv, Types, ExistingShape, RootDirShape, FirstTryShape,
      procVars, dirVars, envVars
<1>3. CASE CallStart
  BY <1>0, <1>3 DEF CallStart
<1>4. CASE StartExisting
  BY <1>0, <1>4 DEF StartExisting
<1>5. CASE Exec
  <2>1. /\ state' \in [attempt : Nat, dir : Nat, cleaning : BOOLEAN]
        /\ state'.dir = state.dir /\ state'.cleaning = state.cleaning
    BY <1>0, <1>5 DEF Exec
  <2>2. Types'
    BY <1>0, <1>5, <2>1 DEF Exec
  <2> QED
    BY <1>0, <1>5, <2>1, <2>2 DEF Exec
<1>6. CASE ExecFails
  <2>1. /\ state' \in [attempt : Nat, dir : Nat, cleaning : BOOLEAN]
        /\ state'.dir = state.dir /\ state'.cleaning = state.cleaning
    BY <1>0, <1>6 DEF ExecFails
  <2>2. Types'
    BY <1>0, <1>6, <2>1 DEF ExecFails, TryFailed
  <2> QED
    BY <1>0, <1>6, <2>1, <2>2 DEF ExecFails, TryFailed
<1>7. CASE StartReady
  BY <1>0, <1>7 DEF StartReady
<1>8. CASE StartExited
  BY <1>0, <1>8 DEF StartExited, TryFailed
<1>9. CASE StartTimesOut
  BY <1>0, <1>9 DEF StartTimesOut, TryFailed
<1>10. CASE AddUsers
  BY <1>0, <1>10 DEF AddUsers
<1>11. CASE UserFails
  BY <1>0, <1>11 DEF UserFails
<1>12. CASE AddAdmin
  BY <1>0, <1>12 DEF AddAdmin
<1>13. CASE AdminFails
  BY <1>0, <1>13 DEF AdminFails
<1>14. CASE WaitForNamespace
  BY <1>0, <1>14 DEF WaitForNamespace
<1>15. CASE CallStop
  BY <1>0, <1>15 DEF CallStop, StopShard
<1>16. CASE UndoStart
  BY <1>0, <1>16 DEF UndoStart, StopShard
<1>17. CASE StopExisting
  BY <1>0, <1>17 DEF StopExisting
<1>18. CASE Terminate
  BY <1>0, <1>18 DEF Terminate
<1>19. CASE AfterStop
  BY <1>0, <1>19 DEF AfterStop
<1>20. ASSUME NEW a \in Attempts, Background(a) \/ Crashes(a) PROVE DirInv'
  BY <1>0, <1>20 DEF Background, Boots, Ends, Crashes, WaitReturns, PollOK,
     PollStops
<1> QED
  BY <1>1, <1>2, <1>3, <1>4, <1>5, <1>6, <1>7, <1>8, <1>9, <1>10, <1>11, <1>12, <1>13, <1>14, <1>15, <1>16, <1>17, <1>18, <1>19, <1>20 DEF Next, InStart, InStop

-----------------------------------------------------------------------------
(* Processes.                                                              *)

ProcInv == ProcessShape /\ WaitShape /\ NoForgottenProcess

\* Every step of the test's goroutine keeps the part about processes, and so
\* does every step of a process or of the goroutines around it.
LEMMA ProcStep == IInv /\ Next => ProcInv'
<1> SUFFICES ASSUME IInv, Next PROVE ProcInv'
  OBVIOUS
<1>0. ProcInv /\ Types /\ ExistingShape
  BY DEF IInv, ProcInv
<1> USE DEF ProcInv, Types, ProcessShape, WaitShape, NoForgottenProcess,
      ExistingShape, Attempts, Current, Alive, procVars, dirVars, envVars
<1>1. CASE CallStart
  BY <1>0, <1>1 DEF CallStart
<1>2. CASE StartExisting
  BY <1>0, <1>2 DEF StartExisting
<1>3. CASE Prepare
  BY <1>0, <1>3 DEF Prepare, NewState
<1>4. CASE AuthnFails
  BY <1>0, <1>4 DEF AuthnFails, NewState, TryFailed
<1>5. CASE PortsFail
  BY <1>0, <1>5 DEF PortsFail, NewState, TryFailed
<1>6. CASE CertsFail
  BY <1>0, <1>6 DEF CertsFail, NewState, TryFailed
<1>7. CASE Exec
  BY <1>0, <1>7 DEF Exec
<1>8. CASE ExecFails
  BY <1>0, <1>8 DEF ExecFails, TryFailed
<1>9. CASE StartReady
  BY <1>0, <1>9 DEF StartReady
<1>10. CASE StartExited
  BY <1>0, <1>10 DEF StartExited, TryFailed
<1>11. CASE StartTimesOut
  BY <1>0, <1>11 DEF StartTimesOut, TryFailed
<1>12. CASE AddUsers
  BY <1>0, <1>12 DEF AddUsers
<1>13. CASE UserFails
  BY <1>0, <1>13 DEF UserFails
<1>14. CASE AddAdmin
  BY <1>0, <1>14 DEF AddAdmin
<1>15. CASE AdminFails
  BY <1>0, <1>15 DEF AdminFails
<1>16. CASE WaitForNamespace
  BY <1>0, <1>16 DEF WaitForNamespace
<1>17. CASE CallStop
  BY <1>0, <1>17 DEF CallStop, StopShard
<1>18. CASE UndoStart
  BY <1>0, <1>18 DEF UndoStart, StopShard
<1>19. CASE StopExisting
  BY <1>0, <1>19 DEF StopExisting
<1>20. CASE NothingToStop
  BY <1>0, <1>20 DEF NothingToStop, StopReturns, TryFailed
<1>21. CASE Terminate
  BY <1>0, <1>21 DEF Terminate
<1>26. CASE SignalFails
  BY <1>0, <1>26 DEF SignalFails, StopReturns, TryFailed
<1>22. CASE Terminated
  BY <1>0, <1>22 DEF Terminated, StopReturns, TryFailed
<1>23. CASE StopTimesOut
  BY <1>0, <1>23 DEF StopTimesOut, StopReturns, TryFailed
<1>24. CASE AfterStop
  BY <1>0, <1>24 DEF AfterStop
<1>25. ASSUME NEW a \in Attempts, Background(a) \/ Crashes(a) PROVE ProcInv'
  BY <1>0, <1>25 DEF Background, Boots, Ends, Crashes, WaitReturns, PollOK,
     PollStops
<1> QED
  BY <1>1, <1>2, <1>3, <1>4, <1>5, <1>6, <1>7, <1>8, <1>9, <1>10, <1>11, <1>12, <1>13, <1>14, <1>15, <1>16, <1>17, <1>18, <1>19, <1>20, <1>21, <1>22, <1>23, <1>24, <1>25, <1>26 DEF Next, InStart, InStop

-----------------------------------------------------------------------------
(* The theorems.                                                           *)

LEMMA InductiveInvariant == Spec => []IInv
<1>1. IInv /\ [Next]_vars => IInv'
  <2> SUFFICES ASSUME IInv, [Next]_vars PROVE IInv'
    OBVIOUS
  <2>1. CASE Next
    BY <2>1, DirStep, ProcStep DEF IInv, DirInv, ProcInv
  <2>2. CASE UNCHANGED vars
    BY <2>2 DEF vars, procVars, dirVars, envVars, IInv, Types, ProcessShape,
       ExistingShape, WaitShape, NoForgottenProcess, RootDirShape,
       FirstTryShape, Current, Alive
  <2> QED
    BY <2>1, <2>2
<1> QED
  BY <1>1, InitInv, PTL DEF Spec

\* No kcp process is left behind untold (process.go:187-200, 246-276;
\* plane.go:48-54), for any number of tries and starts.
THEOREM NoProcessIsForgotten == Spec => []NoForgottenProcess
<1>1. IInv => NoForgottenProcess
  BY DEF IInv
<1> QED
  BY <1>1, InductiveInvariant, PTL

\* A restart never works in a removed root directory (shard.go:322).
THEOREM RestartsAreSafe == Spec => []SafeRestart
<1>1. IInv => SafeRestart
  BY DEF IInv, RootDirShape, SafeRestart
<1> QED
  BY <1>1, InductiveInvariant, PTL

\* Without a failed try no temporary directory is left when Stop has returned
\* without an error (shard.go:90-91).
THEOREM StopsCleanUp == Spec => []StopCleansUp
<1>1. IInv => StopCleansUp
  BY DEF IInv, FirstTryShape, StopCleansUp
<1> QED
  BY <1>1, InductiveInvariant, PTL
=============================================================================
