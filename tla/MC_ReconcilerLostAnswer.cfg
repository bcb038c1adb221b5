SPECIFICATION Spec
CONSTANTS
  web = web
  Service = {web}
  Replicated = {web}
  Sticky = {web}
  MaxReplicas = 2
  LabelsOf <- MCLabelsOf
  Readings <- MCReadings
  OutsideReplicas = {}
  Window <- MCWindow
  StabilizationWindow = 0
  MaxStep = 0
  HealThreshold = 1
  Rebalancing = TRUE
  DryRun = {FALSE}
  CanRestart = FALSE
  MaxLag = 2
  Horizon = 3
INVARIANTS
  EveryMutationSpaced
