\* A server is edited once.
SPECIFICATION Spec
CONSTANTS
  s1 = s1  s2 = s2  r1 = r1  r2 = r2  u1 = u1  sv = sv  b0 = b0  b1 = b1  v0 = v0  v1 = v1  v2 = v2
  Absent = Absent  NoBackends = NoBackends
  Servers = {s1}
  Routes = {}
  Upstreams = {}
  Services = {}
  Backends = {NoBackends}
  ServerSpecs = {v1, v2}
  ValidServerSpecs = {v1, v2}
  RouteSpecs <- NoSpecs
  UpstreamSpecs <- NoSpecs
  ServerDefaults <- LogDefaults
  RouteDefaults <- PriorityDefaults
  UpstreamDefaults <- WeightDefaults
  Starts <- EditedServer
  Adopted = TRUE
  Kinds = {"ConfigMap", "Deployment"}
  MaxOps = 1
  MaxFaults = 0
  MaxCrashes = 0
  MaxEvents = 2
INVARIANT ReadyMeansServing
\* Once users have stopped, the operator may have nothing left to do.
CHECK_DEADLOCK FALSE
