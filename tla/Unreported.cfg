\* One Ingress with CORS on: its enable-cors annotation has no finding.
SPECIFICATION Spec
CONSTANTS
  AnnotationMaps <- MCAnnotationMaps
  Providers = {"standard"}
INVARIANT EveryAnnotationIsReported
CHECK_DEADLOCK FALSE
