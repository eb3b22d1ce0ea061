\* One path with redirects, TLS blocks and default backends.
SPECIFICATION Spec
CONSTANTS
  None = None
  IngressLists <- RedirectLists
  OptionSets <- PlainOptions
  RequestPaths <- MCRequestPaths
INVARIANTS
  NoRedirectLoop
CHECK_DEADLOCK FALSE
