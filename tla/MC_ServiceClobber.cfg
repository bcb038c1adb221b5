SPECIFICATION Spec
CONSTANTS
  Service = {"web"}
  MaxReplicas = 3
  ForceModulus = 1
  MaxRevision = 1
  Compose <- MCCompose
  Targets <- MCBothWays
  OutsideTargets <- MCNoTargets
  MaxAttempts = 3
  NoCall = NoCall
  CanFail = FALSE
PROPERTY NeverClobbers
