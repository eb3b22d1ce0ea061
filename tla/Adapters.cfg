\* Every adapter, every value class, two providers: the only two kinds adapters tell apart.
SPECIFICATION Spec
CONSTANTS
  AnnotationMaps <- MCAnnotationMaps
  Providers = {"standard", "envoy-gateway"}
INVARIANTS
  FamilyIsReported
  ReportedAtMostOnce
  FamiliesMergeOnce
  OneSSLRedirect
  MergedFamiliesCarryEveryValue
  UntranslatableLeavesNothing
  PassthroughReachesListener
  AdapterInv
CHECK_DEADLOCK FALSE
