SPECIFICATION FairSpec
CONSTANTS
  web = web
  db = db
  Service = {web, db}
  Replicated = {web}
  Sticky = {db}
  MaxReplicas = 0
  LabelsOf <- MCLabelsOf
  Readings <- MCReadings
  OutsideReplicas = {}
  Window <- MCWindow
  StabilizationWindow = 0
  MaxStep = 0
  HealThreshold = 1
  Rebalancing = TRUE
  DryRun = {FALSE}
  CanRestart = FALSE
  MaxLag = 1
  Horizon = 2
PROPERTIES
  StuckServiceIsHealed
