CONSTANTS
  o1 = o1
  o2 = o2
  None = None
  Callers <- TwoReplicas
  TokenHolders <- TwoReplicas
  Names <- MCNames
  Manifests <- MCManifests
  Unreliable = FALSE
  DisksFail = FALSE
  MaxSeconds = 1
  Reviewed <- MCNone
  Requests <- MCRequests
  Ingresses <- MCIngresses
  UserSpecs <- MCSpecs
  PeriodicResync = FALSE
  MaxGeneration = 2
  MaxRevision = 4
  MaxVersion = 1
  MaxCrashes = 0
SYMMETRY MCSymmetry
SPECIFICATION Spec
INVARIANT TypeOK
INVARIANT ReportedPullHoldsAudit
PROPERTY StatusSpeaksForSpec
PROPERTY ReportedPullMovesForward
PROPERTY ImplementsLedger
CHECK_DEADLOCK FALSE
