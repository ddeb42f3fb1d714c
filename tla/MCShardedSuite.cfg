\* Two shards; one fixture of each kind, the second with WithShard as its last
\* option; one fault of the server.
CONSTANTS
  NumberOfShards = 2
  MaxServerFaults = 1
  Fixtures = {first, second}
  Initializing = {second}
  Named = {first}
  Located = {second}
  Preserve = FALSE
  MaxUnseen = 1
SPECIFICATION FairSpec
INVARIANTS
  NoServerLeftBehind
  WorkspacesCleanedUp
  SpreadEvenly
PROPERTIES
  CallsReturn
CHECK_DEADLOCK FALSE
