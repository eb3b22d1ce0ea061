CONSTANTS
  o1 = o1
  o2 = o2
  None = None
  Callers <- OneReplica
  TokenHolders <- MCNone
  Names <- MCNames
  Manifests <- MCManifests
  Unreliable = TRUE
  DisksFail = FALSE
  MaxSeconds = 0
  Reviewed <- MCNone
  Requests <- MCRequests
  Ingresses <- MCIngresses
  UserSpecs <- AllSpecs
  PeriodicResync = FALSE
  MaxGeneration = 2
  MaxRevision = 8
  MaxVersion = 2
  MaxCrashes = 1
SPECIFICATION FairSpec
PROPERTY SpecIsReported
PROPERTY MissingIngressRecovers
PROPERTY ConvertedRequestsComeToRest
CHECK_DEADLOCK FALSE
