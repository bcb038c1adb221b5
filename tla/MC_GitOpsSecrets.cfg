SPECIFICATION Spec
CONSTANTS
  NumStacks = 3
  Repo = {"a", "b"}
  Branch = {"main", "dev"}
  RepoOf <- MCRepoOf
  BranchOf <- MCBranchOf
  Groups <- MCGroups
  Secrets <- MCSecrets
  Concurrency = 2
  LastRevision <- MCLastRevision
  MaxFaults = 1
  NoStack = NoStack
INVARIANTS
  SecretsDecryptedOnce
