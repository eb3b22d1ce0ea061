CONSTANTS
  o1 = o1
  o2 = o2
  None = None
  Callers <- OneReplica
  TokenHolders <- OneReplica
  Names <- MCNames
  Manifests <- MCManifests
  Unreliable = FALSE
  DisksFail = FALSE
  MaxSeconds = 1
  Reviewed <- MCNone
  Requests <- MCRequests
  Ingresses <- MCIngresses
  UserSpecs <- MCSpecs
  PeriodicResync = FALSE
  MaxGeneration = 1
  MaxRevision = 5
  MaxVersion = 1
  MaxCrashes = 0
SPECIFICATION Spec
INVARIANT AtMostOnePull
CHECK_DEADLOCK FALSE
