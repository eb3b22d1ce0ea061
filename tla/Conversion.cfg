\* Every command over one to four Ingresses, and commands one after the other.
SPECIFICATION EmissionSpec
CONSTANTS
  None = None
  IngressLists <- MCIngressLists
  OptionSets <- MCOptionSets
  Sessions <- MCSessions
  RequestPaths <- MCRequestPaths
INVARIANTS
  EmissionInv
  BundleInv
  RequestsKeepTheirBackend
  RegexHostsAreHonoured
  WeightsAddUp
  CanariesStayOnTheirHost
  SlashRedirectsFire
  RoutesHaveAGateway
  PoliciesAttach
  NoDocumentIsOverwritten
  ValidatedFeaturesAreSupported
  NoForeignCertificate
PROPERTIES
  MigrateAppliesTheSame
  DualRunLeavesLiveRoutes
CHECK_DEADLOCK FALSE
