\* A dual run before or after the conversion it shadows.
SPECIFICATION EmissionSpec
CONSTANTS
  None = None
  IngressLists <- MCIngressLists
  OptionSets <- MCOptionSets
  Sessions <- LiveAndShadow
  RequestPaths <- MCRequestPaths
PROPERTIES
  DualRunLeavesLiveObjects
CHECK_DEADLOCK FALSE
