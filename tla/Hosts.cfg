\* One Ingress with two paths, of one host or two.
SPECIFICATION Spec
CONSTANTS
  None = None
  IngressLists <- HostLists
  OptionSets <- PlainOptions
  RequestPaths <- MCRequestPaths
INVARIANTS
  HostsKeepTheirBackends
CHECK_DEADLOCK FALSE
