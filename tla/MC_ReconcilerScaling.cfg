SPECIFICATION Spec
CONSTANTS
  web = web
  Service = {web}
  Replicated = {web}
  Sticky = {}
  MaxReplicas = 2
  LabelsOf <- MCLabelsOf
  Readings <- MCReadings
  OutsideReplicas = {2}
  Window <- MCWindow
  StabilizationWindow = 1
  MaxStep = 1
  HealThreshold = 1
  Rebalancing = FALSE
  DryRun = {FALSE}
  CanRestart = TRUE
  MaxLag = 1
  Horizon = 3
INVARIANTS
  TypeOK
  SpacedMutations
  ScalesTowardBounds
  ShrinksOnlyBelowWindow
