\* One server, one route, and no user at all.
SPECIFICATION FairSpec
CONSTANTS
  s1 = s1  s2 = s2  r1 = r1  r2 = r2  u1 = u1  sv = sv  b0 = b0  b1 = b1  v0 = v0  v1 = v1  v2 = v2
  Absent = Absent  NoBackends = NoBackends
  Servers = {s1}
  Routes = {r1}
  Upstreams = {}
  Services = {}
  Backends = {NoBackends}
  ServerSpecs = {v1}
  ValidServerSpecs = {v1}
  RouteSpecs <- OneRouteSpec
  UpstreamSpecs <- NoSpecs
  ServerDefaults <- LogDefaults
  RouteDefaults <- PriorityDefaults
  UpstreamDefaults <- WeightDefaults
  Starts <- Untouched
  Adopted = TRUE
  Kinds = {"ConfigMap", "Deployment"}
  MaxOps = 0
  MaxFaults = 0
  MaxCrashes = 0
  MaxEvents = 2
PROPERTY ComesToRest
\* Once users have stopped, the operator may have nothing left to do.
CHECK_DEADLOCK FALSE
