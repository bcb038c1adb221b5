SPECIFICATION FairSpec
CONSTANTS
  web = web
  Load = 120
  Target = 38
  Min = 1
  Max = 5
  Service = {web}
  Replicated = {web}
  Sticky = {}
  MaxReplicas = 6
  LabelsOf <- MCLabelsOf
  Readings <- MCReadings
  OutsideReplicas = {}
  Window <- MCWindow
  StabilizationWindow = 2
  MaxStep = 1
  HealThreshold = 0
  Rebalancing = FALSE
  DryRun = {FALSE}
  CanRestart = FALSE
  MaxLag = 1
  Horizon = 4
PROPERTIES
  SettlesAtAdequate
  AdequateIsKept
