\* Two starts of two tries each; two calls fail or processes crash.
CONSTANTS
  MaxTries = 2
  MaxAttempts = 3
  MaxStarts = 2
  MaxFaults = 2
SPECIFICATION FairSpec
INVARIANTS
  NoForgottenProcess
  SafeRestart
  StopCleansUp
PROPERTIES
  EveryCallReturns
CHECK_DEADLOCK FALSE
