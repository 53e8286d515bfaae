\* An upstream that discovers its backends, and no user at all.
SPECIFICATION FairSpec
CONSTANTS
  s1 = s1  s2 = s2  r1 = r1  r2 = r2  u1 = u1  sv = sv  b0 = b0  b1 = b1  v0 = v0  v1 = v1  v2 = v2
  Absent = Absent  NoBackends = NoBackends
  Servers = {s1}
  Routes = {}
  Upstreams = {u1}
  Services = {sv}
  Backends = {NoBackends, b1}
  ServerSpecs = {v1}
  ValidServerSpecs = {v1}
  RouteSpecs <- NoSpecs
  UpstreamSpecs <- OneDiscovering
  ServerDefaults <- LogDefaults
  RouteDefaults <- PriorityDefaults
  UpstreamDefaults <- WeightDefaults
  Starts <- Discovered
  Adopted = TRUE
  Kinds = {"ConfigMap", "Deployment"}
  MaxOps = 0
  MaxFaults = 0
  MaxCrashes = 0
  MaxEvents = 2
PROPERTY DiscoveredBackendsAreServed
\* Once users have stopped, the operator may have nothing left to do.
CHECK_DEADLOCK FALSE
