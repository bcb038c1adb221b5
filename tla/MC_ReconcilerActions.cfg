SPECIFICATION Spec
CONSTANTS
  web = web
  Service = {web}
  Replicated = {web}
  Sticky = {web}
  MaxReplicas = 2
  LabelsOf <- MCLabelsOf
  Readings <- MCReadings
  OutsideReplicas = {}
  Window <- MCWindow
  StabilizationWindow = 0
  MaxStep = 0
  HealThreshold = 1
  Rebalancing = TRUE
  DryRun = {TRUE, FALSE}
  CanRestart = TRUE
  MaxLag = 2
  Horizon = 3
INVARIANTS
  SpacedMutations
  DryRunOnlyLogs
  BlindTickOnlyScales
