SPECIFICATION MCSpec
CONSTANTS
  Service = {"web"}
  MergeGroup <- MCMergeGroup
  MaxCount = 2
  Worktree <- MCWorktree
  Task = {t, u}
  ServiceId = {"api"}
  ServiceOf <- MCServiceOf
  NameOf <- MCNameOf
  StackName <- MCStackName
  NamesIn <- MCNamesIn
  Text <- MCText
  ErrorWindow = 2
  CheckDelay = 1
  Cap = 2
  Agent = {"a"}
  AgentNode = {"n"}
  NodeOf <- MCNodeOf
  Interval = 1
  MaxAttempts = 2
  Timeout = 1
  Stale = 2
  MaxLinger = 1
  MaxRequests = 2
  MaxStall = 1
  Container <- MCContainer
  MetricName = {"", "cpu", "mem", "memory", "disk"}
  Cores = 2
  MemTotal = 20
  Env <- MCEnv
  Args <- MCArgs
  GitOpsFiles <- MCGitOpsFiles
PROPERTY GaugeFollowsWindow
CHECK_DEADLOCK FALSE
