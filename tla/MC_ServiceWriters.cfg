SPECIFICATION FairSpec
CONSTANTS
  Service = {"web", "db"}
  MaxReplicas = 3
  ForceModulus = 2
  MaxRevision = 2
  Compose <- MCCompose
  Targets <- MCTargets
  OutsideTargets <- MCOutsideTargets
  MaxAttempts = 2
  NoCall = NoCall
  CanFail = TRUE
INVARIANTS
  TypeOK
  GivesUpOnlyWhenContended
  CarriesLiveCount
PROPERTIES
  CallsAreAtomic
  HeadIsDeployed
