\* A server edited, deleted, created anew, its children deleted; a write fails,
\* the operator is restarted.
SPECIFICATION FairSpec
CONSTANTS
  s1 = s1  s2 = s2  r1 = r1  r2 = r2  u1 = u1  sv = sv  b0 = b0  b1 = b1  v0 = v0  v1 = v1  v2 = v2
  Absent = Absent  NoBackends = NoBackends
  Servers = {s1}
  Routes = {}
  Upstreams = {}
  Services = {}
  Backends = {NoBackends}
  ServerSpecs = {v1, v2}
  ValidServerSpecs = {v1, v2}
  RouteSpecs <- NoSpecs
  UpstreamSpecs <- NoSpecs
  ServerDefaults <- LogDefaults
  RouteDefaults <- PriorityDefaults
  UpstreamDefaults <- WeightDefaults
  Starts <- Ownerships
  Adopted = FALSE
  Kinds = {"ConfigMap", "Deployment", "Service"}
  MaxOps = 2
  MaxFaults = 1
  MaxCrashes = 1
  MaxEvents = 2
INVARIANTS TypeOK SettledServersAreInLine
PROPERTIES NoOrphans ConfigConverges StatusConverges PublishedHashIsDeployed
\* Once users have stopped, the operator may have nothing left to do.
CHECK_DEADLOCK FALSE
