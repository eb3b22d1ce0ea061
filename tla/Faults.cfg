CONSTANTS
  o1 = o1
  o2 = o2
  None = None
  Callers <- OneReplica
  TokenHolders <- OneReplica
  Names <- MCNames
  Manifests <- MCManifests
  Unreliable = TRUE
  DisksFail = TRUE
  MaxSeconds = 1
  Reviewed <- FirstSecond
  Requests <- MCRequests
  Ingresses <- MCIngresses
  UserSpecs <- MCSpecs
  PeriodicResync = TRUE
  MaxGeneration = 2
  MaxRevision = 3
  MaxVersion = 2
  MaxCrashes = 1
SPECIFICATION Spec
INVARIANTS
  PullsOnlyWhenAsked
  OperatorInv
  ForwardInv
CHECK_DEADLOCK FALSE
