\* Up to two routes with TLS, a location each that does up to three things, two
\* upstreams; with rate limits or without.
SPECIFICATION Spec
CONSTANTS
  NotYet = NotYet  Failed = Failed
  UpstreamNames <- TwoUpstreams
  RouteNames <- TwoRoutes
  Priorities = {0, 1}
  Paths <- OnePath
  OtherActions = {"proxyPass", "return"}
  Limits = {TRUE, FALSE}
  TLSKinds = {"secret"}
  MaxUpstreams = 2
  MaxRoutes = 2
  MaxLocations = 1
INVARIANTS ReferencesResolve RoutesInOrder LocationsActAsDeclared
\* An input is generated once.
CHECK_DEADLOCK FALSE
