\* One canary, with and without a header, beside up to two Ingresses.
SPECIFICATION Spec
CONSTANTS
  None = None
  IngressLists <- HeaderLists
  OptionSets <- PlainOptions
  RequestPaths <- MCRequestPaths
INVARIANTS
  HeaderCanaryNeedsHeader
CHECK_DEADLOCK FALSE
