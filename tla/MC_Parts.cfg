SPECIFICATION MCSpec
CONSTANTS
  Service = {"web"}
  MergeGroup <- MCMergeGroup
  MaxCount = 2
  Worktree <- MCWorktree
  Task = {t, u}
  ServiceId = {"api"}
  ServiceOf <- MCServiceOf
  NameOf <- MCNameOf
  StackName <- MCStackName
  NamesIn <- MCNamesIn
  Text <- MCText
  ErrorWindow = 2
  CheckDelay = 1
  Cap = 2
  Agent = {"a"}
  AgentNode = {"n"}
  NodeOf <- MCNodeOf
  Interval = 1
  MaxAttempts = 2
  Timeout = 1
  Stale = 2
  MaxLinger = 1
  MaxRequests = 2
  MaxStall = 1
  Container <- MCContainer
  MetricName = {"", "cpu", "mem", "memory", "disk"}
  Cores = 2
  MemTotal = 20
  Env <- MCEnv
  Args <- MCArgs
  GitOpsFiles <- MCGitOpsFiles
INVARIANTS
  StackTypeOK
  OwnershipReadingsAgree
  SameFileEverywhere
  ErrorsTypeOK
  TrackerHoldsWindow
  RegistryTypeOK
  GaugesFollowRegistry
  SourcesAgree
  StartupTypeOK
  AcceptedSettingsRun
  AcceptedStacksDeploy
PROPERTIES
  EveryCountHasOneOwner
  DriftIsSomebodysDoing
  ChecksTellTheWindow
  SnapshotHasTheHeard
  LoadIsRecent
CHECK_DEADLOCK FALSE
CONSTRAINT FewSeries
SYMMETRY TasksAlike
