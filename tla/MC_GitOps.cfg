SPECIFICATION FairSpec
CONSTANTS
  NumStacks = 3
  Repo = {"a", "b"}
  Branch = {"main", "dev"}
  RepoOf <- MCRepoOf
  BranchOf <- MCBranchOf
  Groups <- MCGroups
  Secrets <- MCSecrets
  Concurrency = 2
  LastRevision <- MCLastRevision
  MaxFaults = 1
  NoStack = NoStack
INVARIANTS
  TypeOK
  OneRevisionPerPipeline
  StatusTellsOutcome
  ShownInFlightWithinPool
PROPERTIES
  RollsOutInOrder
  DryRunLeavesNoTrace
  EveryStackSynced
  HeadReachesSwarm
