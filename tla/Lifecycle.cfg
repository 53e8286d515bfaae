\* A server with a route, an upstream or neither; one user operation and one
\* failed or lost write, at any moment.
SPECIFICATION Spec
CONSTANTS
  s1 = s1  s2 = s2  r1 = r1  r2 = r2  u1 = u1  sv = sv  b0 = b0  b1 = b1  v0 = v0  v1 = v1  v2 = v2
  Absent = Absent  NoBackends = NoBackends
  Servers = {s1}
  Routes = {r1}
  Upstreams = {u1}
  Services = {sv}
  Backends = {NoBackends, b0, b1}
  ServerSpecs = {v0, v1, v2}
  ValidServerSpecs = {v2}
  RouteSpecs <- AnyRouteSpec
  UpstreamSpecs <- AnyUpstreamSpec
  ServerDefaults <- LogDefaults
  RouteDefaults <- PriorityDefaults
  UpstreamDefaults <- WeightDefaults
  Starts <- Lifecycles
  Adopted = FALSE
  Kinds = {"ConfigMap", "Deployment"}
  MaxOps = 1
  MaxFaults = 1
  MaxCrashes = 0
  MaxEvents = 2
INVARIANTS ServerReadyForItsSpec ReadyForAcceptedSpecs SettledRoutesAreInLine SettledUpstreamsAreInLine
PROPERTIES ServerLifecycle RouteLifecycle UpstreamLifecycle
\* Once users have stopped, the operator may have nothing left to do.
CHECK_DEADLOCK FALSE
