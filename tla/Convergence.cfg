\* A route is edited, an upstream's Service is scaled, or their server is deleted,
\* in the middle of set-up.
SPECIFICATION FairSpec
CONSTANTS
  s1 = s1  s2 = s2  r1 = r1  r2 = r2  u1 = u1  sv = sv  b0 = b0  b1 = b1  v0 = v0  v1 = v1  v2 = v2
  Absent = Absent  NoBackends = NoBackends
  Servers = {s1}
  Routes = {r1}
  Upstreams = {u1}
  Services = {sv}
  Backends = {NoBackends, b1}
  ServerSpecs = {v1, v2}
  ValidServerSpecs = {v1}
  RouteSpecs <- ValidOrNot
  UpstreamSpecs <- GivenOrDiscovered
  ServerDefaults <- LogDefaults
  RouteDefaults <- PriorityDefaults
  UpstreamDefaults <- WeightDefaults
  Starts <- SetUps
  Adopted = TRUE
  Kinds = {"ConfigMap", "Deployment"}
  MaxOps = 1
  MaxFaults = 0
  MaxCrashes = 0
  MaxEvents = 1
INVARIANT ReadyIsServed
PROPERTIES ConfigConverges ReadyRoutesHaveServers ReadyUpstreamsAreBacked
\* Once users have stopped, the operator may have nothing left to do.
CHECK_DEADLOCK FALSE
