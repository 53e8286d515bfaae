--------------------------- MODULE OperatorProofs ---------------------------
(***************************************************************************)
(* Proofs about Operator, for any number of servers, routes, upstreams,    *)
(* specs, user operations, faults and restarts.                            *)
(***************************************************************************)
EXTENDS Operator, FiniteSetTheorems, TLAPS

-----------------------------------------------------------------------------
(***************************************************************************)
(* What the API operations of Cluster do to the types of its variables.    *)
(***************************************************************************)
\* Storing a server over another leaves servers, or nothing, in the API.
LEMMA PutServerTyped ==
  ASSUME ServersTyped, NEW s \in Servers, NEW o \in Server,
         PutServer(s, o), srvC' = srvC
  PROVE  ServersTyped'
BY DEF ServersTyped, PutServer, Stored, Holders

\* The same of routes.
LEMMA PutRouteTyped ==
  ASSUME RoutesTyped, NEW r \in Routes, NEW o \in Route,
         PutRoute(r, o), rtC' = rtC
  PROVE  RoutesTyped'
BY DEF RoutesTyped, PutRoute, Stored, Holders

\* The same of upstreams.
LEMMA PutUpstreamTyped ==
  ASSUME UpstreamsTyped, NEW u \in Upstreams, NEW o \in Upstream,
         PutUpstream(u, o), upC' = upC
  PROVE  UpstreamsTyped'
BY DEF UpstreamsTyped, PutUpstream, Stored, Holders

\* The same of children, each of its own kind.
LEMMA PutChildTyped ==
  ASSUME ChildrenTyped, NEW s \in Servers, NEW k \in Kinds,
         NEW o \in Child(k) \cup {Absent}, PutChild(s, k, o), kidC' = kidC
  PROVE  ChildrenTyped'
<1>1. o \in AnyChild
  BY DEF AnyChild, Child
<1>2. kid' \in [Servers -> [Kinds -> AnyChild]]
  BY <1>1 DEF ChildrenTyped, PutChild
<1>3. \A t \in Servers, j \in Kinds : kid'[t][j] \in Child(j) \cup {Absent}
  BY DEF ChildrenTyped, PutChild
<1>4. kidFresh' \in [Servers -> SUBSET Kinds]
  BY DEF ChildrenTyped, PutChild
<1> QED
  BY <1>2, <1>3, <1>4 DEF ChildrenTyped

\* Whatever the reply, a write of a server leaves the types as they are.
LEMMA WriteServerTyped ==
  ASSUME ServersTyped, NEW s \in Servers, NEW o \in Server, NEW reply, NEW done,
         WriteServer(s, o, reply, done)
  PROVE  ServersTyped'
<1>1. CASE Applied(reply)
  BY <1>1, PutServerTyped DEF WriteServer
<1>2. CASE ~Applied(reply)
  BY <1>2 DEF WriteServer, ServersTyped
<1> QED
  BY <1>1, <1>2

\* The same of a write of a route.
LEMMA WriteRouteTyped ==
  ASSUME RoutesTyped, NEW r \in Routes, NEW o \in Route, NEW reply,
         WriteRoute(r, o, reply)
  PROVE  RoutesTyped'
<1>1. CASE Applied(reply)
  BY <1>1, PutRouteTyped DEF WriteRoute
<1>2. CASE ~Applied(reply)
  BY <1>2 DEF WriteRoute, RoutesTyped
<1> QED
  BY <1>1, <1>2

\* The same of a write of an upstream.
LEMMA WriteUpstreamTyped ==
  ASSUME UpstreamsTyped, NEW u \in Upstreams, NEW o \in Upstream, NEW reply,
         WriteUpstream(u, o, reply)
  PROVE  UpstreamsTyped'
<1>1. CASE Applied(reply)
  BY <1>1, PutUpstreamTyped DEF WriteUpstream
<1>2. CASE ~Applied(reply)
  BY <1>2 DEF WriteUpstream, UpstreamsTyped
<1> QED
  BY <1>1, <1>2

\* The same of a write of a child.
LEMMA WriteChildTyped ==
  ASSUME ChildrenTyped, NEW s \in Servers, NEW k \in Kinds,
         NEW o \in Child(k), NEW reply, WriteChild(s, k, o, reply)
  PROVE  ChildrenTyped'
<1>1. CASE Applied(reply)
  BY <1>1, PutChildTyped DEF WriteChild
<1>2. CASE ~Applied(reply)
  BY <1>2 DEF WriteChild, ChildrenTyped
<1> QED
  BY <1>1, <1>2

\* Faults are only charged while some are left.
LEMMA ChargeBounded ==
  ASSUME faults \in 0..MaxFaults, NEW current \in BOOLEAN,
         NEW effects \in SUBSET {"ok", "noop"},
         NEW reply \in Replies(current, effects), Charge(reply)
  PROVE  faults' \in 0..MaxFaults
<1>1. MaxFaults \in Nat
  BY ClusterAssumption
<1>2. CASE reply \in {"error", "lost"}
  <2>1. faults # MaxFaults
    BY <1>2 DEF Replies
  <2> QED
    BY <1>1, <1>2, <2>1 DEF Charge
<1>3. CASE reply \notin {"error", "lost"}
  BY <1>3 DEF Charge
<1> QED
  BY <1>2, <1>3

\* A reconciler is the only holder a Get adds.
LEMMA TakeCopyTyped ==
  ASSUME NEW S, NEW fresh \in [S -> SUBSET Holders], NEW o \in S
  PROVE  TakeCopy(fresh, o) \in [S -> SUBSET Holders]
BY DEF TakeCopy, Holders

\* Routes become blocks, finitely many.
LEMMA ListRoutesTyped ==
  ASSUME NEW routes \in [Routes -> Route \cup {Absent}], NEW s
  PROVE  /\ ListRoutes(s, routes) \in SUBSET Blocks
         /\ IsFiniteSet(ListRoutes(s, routes))
<1> DEFINE named == {x \in Routes : /\ Present(routes[x])
                                    /\ routes[x].spec.serverRef = s}
           block == [r \in named |-> [route |-> r, spec |-> routes[r].spec]]
<1>1. ListRoutes(s, routes) \in SUBSET Blocks
  BY DEF ListRoutes, Blocks, Route, Present
<1>2. IsFiniteSet(named)
  BY ClusterAssumption, FS_Subset
<1>3. block \in Surjection(named, ListRoutes(s, routes))
  BY DEF ListRoutes, Surjection
<1>4. IsFiniteSet(ListRoutes(s, routes))
  <2> HIDE DEF named, block
  <2> QED
    BY <1>2, <1>3, FS_Surjection
<1> QED
  BY <1>1, <1>4

\* Upstreams become blocks likewise.
LEMMA ListUpstreamsTyped ==
  ASSUME NEW upstreams \in [Upstreams -> Upstream \cup {Absent}], NEW s
  PROVE  /\ ListUpstreams(s, upstreams) \in SUBSET UpstreamBlocks
         /\ IsFiniteSet(ListUpstreams(s, upstreams))
<1> DEFINE named == {x \in Upstreams : /\ Present(upstreams[x])
                                       /\ upstreams[x].spec.serverRef = s}
           block == [u \in named |-> [upstream |-> u,
                                      backends |-> upstreams[u].spec.backends]]
<1>1. ListUpstreams(s, upstreams) \in SUBSET UpstreamBlocks
  BY ClusterAssumption
     DEF ListUpstreams, UpstreamBlocks, Upstream, UpstreamSpecType, Present
<1>2. IsFiniteSet(named)
  BY ClusterAssumption, FS_Subset
<1>3. block \in Surjection(named, ListUpstreams(s, upstreams))
  BY DEF ListUpstreams, Surjection
<1>4. IsFiniteSet(ListUpstreams(s, upstreams))
  <2> HIDE DEF named, block
  <2> QED
    BY <1>2, <1>3, FS_Surjection
<1> QED
  BY <1>1, <1>4

\* An order of finitely many things is a sequence of them.
LEMMA OrdersTyped ==
  ASSUME NEW T, NEW S \in SUBSET T, IsFiniteSet(S), NEW p \in Orders(S)
  PROVE  p \in Seq(T)
<1>1. Cardinality(S) \in Nat
  BY FS_CardinalityType
<1>2. p \in [1..Cardinality(S) -> S]
  BY DEF Orders
<1> QED
  BY <1>1, <1>2

\* A rendering of finitely many blocks is a configuration.
LEMMA RenderingsTyped ==
  ASSUME NEW spec \in ServerSpecs, NEW ups \in SUBSET UpstreamBlocks,
         NEW blocks \in SUBSET Blocks, IsFiniteSet(ups), IsFiniteSet(blocks),
         NEW c \in Renderings(spec, ups, blocks)
  PROVE  c \in Configs
<1>1. PICK p \in Orders(ups), q \in ByPriority(blocks) :
        c = [spec |-> spec, upstreams |-> p, blocks |-> q]
  BY DEF Renderings
<1>2. p \in Seq(UpstreamBlocks)
  BY OrdersTyped
<1>3. q \in Orders(blocks)
  BY DEF ByPriority
<1>4. q \in Seq(Blocks)
  BY <1>3, OrdersTyped
<1> QED
  BY <1>1, <1>2, <1>4 DEF Configs

\* An Update with defaults changes the spec of a server and whether it was seen.
LEMMA UpdatedServerTyped ==
  ASSUME NEW o \in Server
  PROVE  /\ UpdatedServer(o) \in Server
         /\ UpdatedServer(o).spec = ServerDefaults[o.spec]
         /\ UpdatedServer(o).fin = o.fin
         /\ UpdatedServer(o).deleting = o.deleting
         /\ UpdatedServer(o).uid = o.uid
         /\ UpdatedServer(o).status.hash = o.status.hash
         /\ UpdatedServer(o).status.Ready = o.status.Ready
         /\ UpdatedServer(o).status.seen =>
              o.status.seen /\ UpdatedServer(o).spec = o.spec
<1>1. o.status \in ServerStatus /\ ServerDefaults[o.spec] \in ServerSpecs
  BY DefaultsAssumption DEF Server
<1>2. o.status.seen \in BOOLEAN
  BY <1>1 DEF ServerStatus
<1>3. UpdatedServer(o) \in Server
  BY <1>1, <1>2 DEF UpdatedServer, Server, ServerStatus
<1>4. o.status.seen /\ ServerDefaults[o.spec] = o.spec
        <=> UpdatedServer(o).status.seen
  BY <1>1 DEF UpdatedServer, Server, ServerStatus
<1> QED
  BY <1>1, <1>3, <1>4 DEF UpdatedServer, Server, ServerStatus

\* The same of a route.
LEMMA UpdatedRouteTyped ==
  ASSUME NEW o \in Route
  PROVE  /\ UpdatedRoute(o) \in Route
         /\ UpdatedRoute(o).spec = RouteDefaults[o.spec]
         /\ UpdatedRoute(o).fin = o.fin
         /\ UpdatedRoute(o).deleting = o.deleting
         /\ UpdatedRoute(o).Ready = o.Ready
         /\ UpdatedRoute(o).seen => o.seen /\ UpdatedRoute(o).spec = o.spec
<1>1. RouteDefaults[o.spec] \in RouteSpecs /\ o.seen \in BOOLEAN
  BY DefaultsAssumption DEF Route
<1> QED
  BY <1>1 DEF UpdatedRoute, Route

\* The same of an upstream.
LEMMA UpdatedUpstreamTyped ==
  ASSUME NEW o \in Upstream
  PROVE  /\ UpdatedUpstream(o) \in Upstream
         /\ UpdatedUpstream(o).spec = UpstreamDefaults[o.spec]
         /\ UpdatedUpstream(o).fin = o.fin
         /\ UpdatedUpstream(o).deleting = o.deleting
         /\ UpdatedUpstream(o).Ready = o.Ready
         /\ UpdatedUpstream(o).seen => o.seen /\ UpdatedUpstream(o).spec = o.spec
<1>1. UpstreamDefaults[o.spec] \in UpstreamSpecs /\ o.seen \in BOOLEAN
  BY DefaultsAssumption DEF Upstream
<1> QED
  BY <1>1 DEF UpdatedUpstream, Upstream

-----------------------------------------------------------------------------
(***************************************************************************)
(* Types of the server controller.                                         *)
(***************************************************************************)
\* A reconcile that returns gives its key back, or nothing.
LEMMA ServerReturnTyped ==
  ASSUME ServerTypeOK, sPc # "idle", NEW requeue, ServerReturn(requeue)
  PROVE  ServerTypeOK'
BY ClusterAssumption DEF ServerTypeOK, ServerReturn, ServerSteps

\* A reconcile that has its configuration goes on with it.
LEMMA ServerContinueTyped ==
  ASSUME ServerTypeOK, sPc \in Kinds,
         NEW pc \in {"Deployment", "Service", "status"}, ServerContinue(pc)
  PROVE  ServerTypeOK'
<1>1. sPc # "idle"
  BY ClusterAssumption
<1> QED
  BY <1>1 DEF ServerTypeOK, ServerContinue, ServerSteps

\* The Get of Reconcile leaves a copy of the cached server.
LEMMA FetchServerTyped ==
  ASSUME TypeOK, NEW s \in Servers, FetchServer(s)
  PROVE  ServersTyped' /\ ServerTypeOK'
<1>1. ServersTyped /\ ServerTypeOK
  BY DEF TypeOK, ClusterTypeOK
<1>2. CASE UNCHANGED <<serverLocals, srvFresh>>
  BY <1>1, <1>2 DEF FetchServer, ServersTyped, ServerTypeOK, serverLocals
<1>3. CASE /\ Present(srvC[s])
           /\ sPc' = FirstServerStep(srvC[s])
           /\ sKey' = s /\ sObj' = srvC[s] /\ sCfg' = Absent
           /\ srvFresh' = TakeCopy(srvFresh, s)
  <2>1. srvC[s] \in Server
    BY <1>1, <1>3 DEF ServersTyped, Present
  <2>2. ServersTyped'
    BY <1>1, <1>3, TakeCopyTyped DEF FetchServer, ServersTyped
  <2>3. /\ sPc' \in ServerSteps
        /\ sPc' \notin Kinds \cup {"status"}
    BY <1>3, ClusterAssumption DEF FirstServerStep, ServerSteps
  <2>4. sQ' \subseteq Servers
    BY <1>1 DEF FetchServer, ServerTypeOK
  <2> QED
    BY <1>3, <2>1, <2>2, <2>3, <2>4 DEF ServerTypeOK
<1> QED
  BY <1>2, <1>3 DEF FetchServer

\* A copy of a server with a status of the right type is a server.
LEMMA WriteServerStatusTyped ==
  ASSUME TypeOK, sPc # "idle", NEW status \in ServerStatus,
         NEW stamped \in BOOLEAN, NEW reply,
         WriteServerStatus(status, stamped, reply)
  PROVE  ServersTyped' /\ faults' \in 0..MaxFaults
<1>1. ServersTyped /\ sKey \in Servers /\ sObj \in Server
  BY DEF TypeOK, ClusterTypeOK, ServerTypeOK
<1>2. [sObj EXCEPT !.status = status] \in Server
  BY <1>1 DEF Server
<1>3. ServersTyped'
  BY <1>1, <1>2, WriteServerTyped DEF WriteServerStatus
<1>4. ServerCurrent \in BOOLEAN
  BY DEF ServerCurrent
<1>5. faults \in 0..MaxFaults
  BY DEF TypeOK, ClusterTypeOK
<1>6. Charge(reply)
  BY DEF WriteServerStatus, WriteServer
<1>7. \E effects \in SUBSET {"ok", "noop"} :
        reply \in Replies(ServerCurrent, effects)
  BY DEF WriteServerStatus, StatusReplies
<1>8. faults' \in 0..MaxFaults
  BY <1>4, <1>5, <1>6, <1>7, ChargeBounded
<1> QED
  BY <1>3, <1>8

\* Each step of a server's reconcile keeps what it touches in its type.
LEMMA ServerStepTyped ==
  ASSUME TypeOK, ServerStep
  PROVE  /\ ServersTyped' /\ ChildrenTyped' /\ faults' \in 0..MaxFaults
         /\ ServerTypeOK' /\ UNCHANGED <<routeVars, upstreamVars, envVars>>
<1>1. /\ ServersTyped /\ ChildrenTyped /\ ServerTypeOK
      /\ faults \in 0..MaxFaults /\ rtC \in [Routes -> Route \cup {Absent}]
      /\ upC \in [Upstreams -> Upstream \cup {Absent}]
  BY DEF TypeOK, ClusterTypeOK, RoutesTyped, UpstreamsTyped
<1>2. sPc # "idle" => sKey \in Servers /\ sObj \in Server
                      /\ sObj.status \in ServerStatus
  BY <1>1 DEF ServerTypeOK, Server
<1>3. ServerCurrent \in BOOLEAN
  BY DEF ServerCurrent
<1>4. ASSUME NEW b \in BOOLEAN, sPc # "idle",
             NEW reply \in Replies(ServerCurrent, {"ok"}),
             WriteServer(sKey, UpdatedServer([sObj EXCEPT !.fin = b]), reply,
                         {"reconciler"})
      PROVE  ServersTyped' /\ faults' \in 0..MaxFaults
  <2> DEFINE o == [sObj EXCEPT !.fin = b]
  <2>0. o \in Server
    BY <1>2, <1>4 DEF Server
  <2> HIDE DEF o
  <2>1. UpdatedServer(o) \in Server
    BY <2>0, UpdatedServerTyped
  <2> USE DEF o
  <2>2. ServersTyped'
    BY <1>1, <1>2, <1>4, <2>1, WriteServerTyped
  <2>3. Charge(reply)
    BY <1>4 DEF WriteServer
  <2> QED
    BY <1>1, <1>3, <1>4, <2>2, <2>3, ChargeBounded
<1>5. CASE ServerHandleDeletion
  BY <1>1, <1>4, <1>5, ServerReturnTyped
     DEF ServerHandleDeletion, kidVars, ChildrenTyped
<1>6. CASE ServerAddFinalizer
  BY <1>1, <1>4, <1>6, ServerReturnTyped
     DEF ServerAddFinalizer, kidVars, ChildrenTyped
<1>7. CASE ServerNotValid
  <2>1. sPc # "idle" /\ UNCHANGED kidVars
    BY <1>7 DEF ServerNotValid
  <2>2. [sObj.status EXCEPT !.Ready = "False", !.seen = TRUE] \in ServerStatus
    BY <1>2, <2>1 DEF ServerStatus, Conditions
  <2> QED
    BY <1>1, <1>7, <2>1, <2>2, WriteServerStatusTyped, ServerReturnTyped
       DEF ServerNotValid, kidVars, ChildrenTyped
<1>8. CASE ServerNotGenerated
  <2>1. sPc # "idle" /\ UNCHANGED kidVars
    BY <1>8 DEF ServerNotGenerated
  <2>2. [sObj.status EXCEPT !.ConfigValid = "False"] \in ServerStatus
    BY <1>2, <2>1 DEF ServerStatus, Conditions
  <2> QED
    BY <1>1, <1>8, <2>1, <2>2, WriteServerStatusTyped, ServerReturnTyped
       DEF ServerNotGenerated, kidVars, ChildrenTyped
<1>9. CASE GenerateFullConfig
  <2>1. sPc = "list" /\ sKey \in Servers /\ sObj \in Server
        /\ UNCHANGED <<sQ, sKey, sObj, clusterVars>>
    BY <1>2, <1>9 DEF GenerateFullConfig
  <2>2. sObj.spec \in ServerSpecs
    BY <2>1 DEF Server
  <2>3. CASE sPc' = "notGenerated"
    BY <1>1, <2>1, <2>3, ClusterAssumption
       DEF ServerTypeOK, ServerSteps, clusterVars, serverVars, kidVars,
           ServersTyped, ChildrenTyped
  <2>4. CASE sPc' = "ConfigMap"
             /\ sCfg' \in Renderings(sObj.spec, ListUpstreams(sKey, upC),
                                    ListRoutes(sKey, rtC))
    <3>1. sCfg' \in Configs
      BY <1>1, <2>2, <2>4, ListRoutesTyped, ListUpstreamsTyped, RenderingsTyped
    <3> QED
      BY <1>1, <2>1, <2>4, <3>1
         DEF ServerTypeOK, ServerSteps, clusterVars, serverVars, kidVars,
             ServersTyped, ChildrenTyped
  <2> QED
    BY <1>9, <2>3, <2>4 DEF GenerateFullConfig
<1>10. ASSUME NEW k \in Kinds, ReconcileChild(k)
       PROVE  /\ ServersTyped' /\ ChildrenTyped' /\ faults' \in 0..MaxFaults
              /\ ServerTypeOK' /\ UNCHANGED <<routeVars, upstreamVars, envVars>>
  <2>1. /\ sPc = k /\ sPc # "idle" /\ sKey \in Servers
        /\ sObj \in Server /\ sCfg \in Configs
    BY <1>1, <1>2, <1>10, ClusterAssumption DEF ReconcileChild, ServerTypeOK
  <2>2. ServersTyped'
    BY <1>1, <1>10, <2>1 DEF ReconcileChild, ServersTyped
  <2>3. StepAfter(k) \in {"Deployment", "Service", "status"}
    BY DEF StepAfter
  <2>4. ServerTypeOK'
    BY <1>1, <1>10, <2>1, <2>3, ServerReturnTyped, ServerContinueTyped
       DEF ReconcileChild
  <2>5. Desired(k) \in IF k = "Service" THEN ServerSpecs ELSE Configs
    BY <2>1 DEF Desired, Server
  <2>6. ASSUME NEW reply, CreateChild(sKey, k, reply)
        PROVE  ChildrenTyped' /\ faults' \in 0..MaxFaults
    <3>1. [data |-> Desired(k), owner |-> sObj.uid, ready |-> FALSE] \in Child(k)
      BY <2>1, <2>5 DEF Child, Server
    <3>2. ChildrenTyped'
      BY <1>1, <2>1, <2>6, <3>1, WriteChildTyped DEF CreateChild
    <3>3. Charge(reply) /\ reply \in Replies(~Present(kid[sKey][k]), {"ok"})
      BY <2>6 DEF CreateChild, WriteChild
    <3> QED
      BY <1>1, <3>2, <3>3, ChargeBounded
  <2>7. ASSUME NEW reply, Present(kidC[sKey][k]), UpdateChild(sKey, k, reply)
        PROVE  ChildrenTyped' /\ faults' \in 0..MaxFaults
    <3>1. kidC[sKey][k] \in Child(k)
      BY <1>1, <2>1, <2>7 DEF ChildrenTyped, Present
    <3>2. [kidC[sKey][k] EXCEPT !.data = Desired(k)] \in Child(k)
      BY <2>5, <3>1 DEF Child
    <3>3. ChildrenTyped'
      BY <1>1, <2>1, <2>7, <3>2, WriteChildTyped DEF UpdateChild
    <3> DEFINE current == k \in kidFresh[sKey]
    <3>4. /\ Charge(reply) /\ current \in BOOLEAN
          /\ \E effects \in SUBSET {"ok", "noop"} :
               reply \in Replies(current, effects)
      BY <2>7 DEF UpdateChild, WriteChild
    <3> HIDE DEF current
    <3> QED
      BY <1>1, <3>3, <3>4, ChargeBounded
  <2>8. ChildrenTyped' /\ faults' \in 0..MaxFaults
    BY <1>1, <1>10, <2>6, <2>7 DEF ReconcileChild, kidVars, ChildrenTyped
  <2> QED
    BY <1>10, <2>2, <2>4, <2>8 DEF ReconcileChild
<1>11. CASE UpdateStatus
  <2>1. sPc = "status" /\ sPc # "idle" /\ UNCHANGED kidVars
    BY <1>11 DEF UpdateStatus
  <2>2. sCfg \in Configs
    BY <1>1, <2>1 DEF ServerTypeOK
  <2>3. \A b \in {"True", "False"} :
          [Ready |-> b, ConfigValid |-> "True", seen |-> TRUE, hash |-> sCfg]
            \in ServerStatus
    BY <2>2 DEF ServerStatus, Conditions
  <2> QED
    BY <1>1, <1>11, <2>1, <2>3, WriteServerStatusTyped, ServerReturnTyped
       DEF UpdateStatus, kidVars, ChildrenTyped
<1> QED
  BY <1>5, <1>6, <1>7, <1>8, <1>9, <1>10, <1>11 DEF ServerStep

-----------------------------------------------------------------------------
(***************************************************************************)
(* Types of the route controller.                                          *)
(***************************************************************************)
\* A reconcile that returns gives its key back, or nothing.
LEMMA RouteReturnTyped ==
  ASSUME RouteTypeOK, rPc # "idle", NEW requeue, RouteReturn(requeue)
  PROVE  RouteTypeOK'
BY DEF RouteTypeOK, RouteReturn, RouteSteps

\* The Get of Reconcile leaves a copy of the cached route.
LEMMA FetchRouteTyped ==
  ASSUME TypeOK, NEW r \in Routes, FetchRoute(r)
  PROVE  RoutesTyped' /\ RouteTypeOK'
<1>1. RoutesTyped /\ RouteTypeOK
  BY DEF TypeOK, ClusterTypeOK
<1>2. CASE UNCHANGED <<routeLocals, rtFresh>>
  BY <1>1, <1>2 DEF FetchRoute, RoutesTyped, RouteTypeOK, routeLocals
<1>3. CASE /\ Present(rtC[r])
           /\ rPc' = FirstRouteStep(rtC[r])
           /\ rKey' = r /\ rObj' = rtC[r]
           /\ rtFresh' = TakeCopy(rtFresh, r)
  <2>1. rtC[r] \in Route
    BY <1>1, <1>3 DEF RoutesTyped, Present
  <2>2. RoutesTyped'
    BY <1>1, <1>3, TakeCopyTyped DEF FetchRoute, RoutesTyped
  <2>3. rPc' \in RouteSteps
    BY <1>3 DEF FirstRouteStep, RouteSteps
  <2>4. rQ' \subseteq Routes
    BY <1>1 DEF FetchRoute, RouteTypeOK
  <2> QED
    BY <1>3, <2>1, <2>2, <2>3, <2>4 DEF RouteTypeOK
<1> QED
  BY <1>2, <1>3 DEF FetchRoute

\* A touch of a server that is there keeps servers servers.
LEMMA TriggerServerReconcileTyped ==
  ASSUME TypeOK, NEW s \in Servers, Present(srvC[s]), NEW reply,
         TriggerServerReconcile(s, reply)
  PROVE  ServersTyped' /\ faults' \in 0..MaxFaults
<1>1. ServersTyped /\ faults \in 0..MaxFaults /\ srvC[s] \in Server
  BY DEF TypeOK, ClusterTypeOK, ServersTyped, Present
<1>2. ServersTyped'
  BY <1>1, UpdatedServerTyped, WriteServerTyped DEF TriggerServerReconcile
<1> DEFINE current == "cache" \in srvFresh[s]
<1>3. /\ current \in BOOLEAN /\ Charge(reply)
      /\ reply \in Replies(current, {"ok"})
  BY DEF TriggerServerReconcile, WriteServer
<1> HIDE DEF current
<1> QED
  BY <1>1, <1>2, <1>3, ChargeBounded

\* Each step of a route's reconcile keeps what it touches in its type.
LEMMA RouteStepTyped ==
  ASSUME TypeOK, RouteStep
  PROVE  /\ ServersTyped' /\ RoutesTyped' /\ faults' \in 0..MaxFaults
         /\ RouteTypeOK' /\ UNCHANGED <<upstreamVars, kidVars, envVars>>
<1>1. /\ ServersTyped /\ RoutesTyped /\ RouteTypeOK
      /\ faults \in 0..MaxFaults
  BY DEF TypeOK, ClusterTypeOK
<1>2. rPc # "idle" => rKey \in Routes /\ rObj \in Route
                      /\ rObj.spec.serverRef \in Servers
  BY <1>1, ClusterAssumption DEF RouteTypeOK, Route, RouteSpecType
<1>3. RouteCurrent \in BOOLEAN
  BY DEF RouteCurrent
<1>4. ASSUME UNCHANGED serverVars PROVE ServersTyped'
  BY <1>1, <1>4 DEF serverVars, ServersTyped
<1>5. ASSUME NEW o \in Route, rPc # "idle",
             NEW effects \in SUBSET {"ok", "noop"},
             NEW reply \in Replies(RouteCurrent, effects),
             WriteRoute(rKey, o, reply)
      PROVE  RoutesTyped' /\ faults' \in 0..MaxFaults
  <2>1. RoutesTyped'
    BY <1>1, <1>2, <1>5, WriteRouteTyped
  <2>2. Charge(reply)
    BY <1>5 DEF WriteRoute
  <2> QED
    BY <1>1, <1>3, <1>5, <2>1, <2>2, ChargeBounded
<1>6. CASE RouteAddFinalizer
  <2>1. rPc = "addFinalizer" /\ rPc # "idle"
        /\ UNCHANGED <<serverVars, upstreamVars, kidVars, envVars>>
    BY <1>6 DEF RouteAddFinalizer
  <2>2. [rObj EXCEPT !.fin = TRUE] \in Route
    BY <1>2, <2>1 DEF Route
  <2>3. UpdatedRoute([rObj EXCEPT !.fin = TRUE]) \in Route
    BY <2>2, UpdatedRouteTyped
  <2> QED
    BY <1>1, <1>4, <1>5, <1>6, <2>1, <2>3, RouteReturnTyped
       DEF RouteAddFinalizer
<1>7. CASE RouteRemoveFinalizer
  <2>1. rPc = "removeFinalizer" /\ rPc # "idle"
        /\ UNCHANGED <<serverVars, upstreamVars, kidVars, envVars>>
    BY <1>7 DEF RouteRemoveFinalizer
  <2>2. [rObj EXCEPT !.fin = FALSE] \in Route
    BY <1>2, <2>1 DEF Route
  <2>3. UpdatedRoute([rObj EXCEPT !.fin = FALSE]) \in Route
    BY <2>2, UpdatedRouteTyped
  <2> QED
    BY <1>1, <1>4, <1>5, <1>7, <2>1, <2>3, RouteReturnTyped
       DEF RouteRemoveFinalizer
<1>8. ASSUME rPc # "idle", NEW ready \in {"True", "False"},
             NEW stamped \in BOOLEAN, WriteRouteStatus(ready, stamped)
      PROVE  /\ ServersTyped' /\ RoutesTyped' /\ faults' \in 0..MaxFaults
             /\ RouteTypeOK' /\ UNCHANGED <<upstreamVars, kidVars, envVars>>
  <2> DEFINE new == [rObj EXCEPT !.Ready = ready, !.seen = TRUE]
  <2>1. new \in Route
    BY <1>2, <1>8 DEF Route, Conditions
  <2>2. \E effects \in SUBSET {"ok", "noop"} :
          \E reply \in Replies(RouteCurrent, effects) :
            WriteRoute(rKey, new, reply) /\ RouteReturn(~Succeeded(reply))
    BY <1>8 DEF WriteRouteStatus
  <2>3. UNCHANGED <<serverVars, upstreamVars, kidVars, envVars>>
    BY <1>8 DEF WriteRouteStatus
  <2> HIDE DEF new
  <2>4. RoutesTyped' /\ faults' \in 0..MaxFaults
    BY <1>5, <1>8, <2>1, <2>2
  <2>5. RouteTypeOK'
    BY <1>1, <1>8, <2>2, RouteReturnTyped
  <2> QED
    BY <1>4, <2>3, <2>4, <2>5
<1>9. CASE RouteNotReady \/ RouteReady
  BY <1>8, <1>9 DEF RouteNotReady, RouteReady
<1>10. CASE Trigger
  <2> DEFINE s == rObj.spec.serverRef
  <2>1. rPc # "idle" /\ s \in Servers
        /\ UNCHANGED <<rt, rtC, upstreamVars, kidVars, envVars>>
    BY <1>2, <1>10 DEF Trigger
  <2>2. CASE ~Present(srvC[s])
    BY <1>1, <1>4, <1>10, <2>1, <2>2
       DEF Trigger, RouteContinue, RouteTypeOK, RouteSteps, RoutesTyped
  <2>3. CASE Present(srvC[s])
    <3>1. PICK reply : /\ TriggerServerReconcile(s, reply)
                       /\ IF Succeeded(reply)
                            THEN RouteContinue("status") /\ UNCHANGED rtFresh
                            ELSE /\ RouteReturn(TRUE)
                                 /\ rtFresh' = [rtFresh EXCEPT ![rKey] =
                                                  @ \ {"reconciler"}]
      BY <1>10, <2>3 DEF Trigger
    <3>2. ServersTyped' /\ faults' \in 0..MaxFaults
      BY <2>1, <2>3, <3>1, TriggerServerReconcileTyped
    <3>3. RoutesTyped'
      BY <1>1, <1>2, <2>1, <3>1 DEF RoutesTyped
    <3>4. RouteTypeOK'
      BY <1>1, <2>1, <3>1, RouteReturnTyped
         DEF RouteContinue, RouteTypeOK, RouteSteps
    <3> QED
      BY <2>1, <3>2, <3>3, <3>4
  <2> QED
    BY <2>2, <2>3
<1>11. CASE TriggerThenRemove
  <2> DEFINE s == rObj.spec.serverRef
  <2>1. /\ rPc # "idle" /\ s \in Servers /\ RouteContinue("removeFinalizer")
        /\ UNCHANGED <<routeVars, upstreamVars, kidVars, envVars>>
    BY <1>2, <1>11 DEF TriggerThenRemove
  <2>2. RoutesTyped' /\ RouteTypeOK'
    BY <1>1, <2>1
       DEF RoutesTyped, routeVars, RouteContinue, RouteTypeOK, RouteSteps
  <2>3. ServersTyped' /\ faults' \in 0..MaxFaults
    BY <1>1, <1>4, <1>11, <2>1, TriggerServerReconcileTyped
       DEF TriggerThenRemove
  <2> QED
    BY <2>1, <2>2, <2>3
<1> QED
  BY <1>6, <1>7, <1>9, <1>10, <1>11 DEF RouteStep

-----------------------------------------------------------------------------
(***************************************************************************)
(* Types of the upstream controller.                                       *)
(***************************************************************************)
\* A reconcile that returns gives its key back, or nothing.
LEMMA UpstreamReturnTyped ==
  ASSUME UpstreamTypeOK, uPc # "idle", NEW requeue, UpstreamReturn(requeue)
  PROVE  UpstreamTypeOK'
BY DEF UpstreamTypeOK, UpstreamReturn, UpstreamSteps

\* An upstream as users write it is a copy like any other.
LEMMA UpstreamIsCopy == Upstream \subseteq UpstreamCopy
BY ClusterAssumption DEF Upstream, UpstreamCopy

\* The Get of Reconcile leaves a copy of the cached upstream.
LEMMA FetchUpstreamTyped ==
  ASSUME TypeOK, NEW u \in Upstreams, FetchUpstream(u)
  PROVE  UpstreamsTyped' /\ UpstreamTypeOK'
<1>1. UpstreamsTyped /\ UpstreamTypeOK
  BY DEF TypeOK, ClusterTypeOK
<1>2. CASE UNCHANGED <<upstreamLocals, upFresh>>
  BY <1>1, <1>2 DEF FetchUpstream, UpstreamsTyped, UpstreamTypeOK, upstreamLocals
<1>3. CASE /\ Present(upC[u])
           /\ uPc' = FirstUpstreamStep(upC[u])
           /\ uKey' = u /\ uObj' = upC[u]
           /\ upFresh' = TakeCopy(upFresh, u)
  <2>1. upC[u] \in Upstream
    BY <1>1, <1>3 DEF UpstreamsTyped, Present
  <2>2. UpstreamsTyped'
    <3>1. upFresh' \in [Upstreams -> SUBSET Holders]
      BY <1>1, <1>3, TakeCopyTyped DEF UpstreamsTyped
    <3>2. \A v \in Upstreams :
            /\ "cache" \in upFresh'[v] => "cache" \in upFresh[v]
            /\ "reconciler" \in upFresh'[v]
                 => \/ "reconciler" \in upFresh[v]
                    \/ v = u /\ "cache" \in upFresh[v]
      BY <1>1, <1>3 DEF TakeCopy, UpstreamsTyped
    <3>3. UNCHANGED <<up, upC>>
      BY DEF FetchUpstream
    <3> QED
      BY <1>1, <1>3, <3>1, <3>2, <3>3 DEF UpstreamsTyped
  <2>3. uPc' \in UpstreamSteps
    BY <1>3 DEF FirstUpstreamStep, UpstreamSteps
  <2>4. uQ' \subseteq Upstreams
    BY <1>1 DEF FetchUpstream, UpstreamTypeOK
  <2>5. upC[u] \in UpstreamCopy
    BY <2>1, UpstreamIsCopy
  <2> QED
    BY <1>3, <2>1, <2>2, <2>3, <2>4, <2>5 DEF UpstreamTypeOK
<1> QED
  BY <1>2, <1>3 DEF FetchUpstream

\* The upstream controller touches servers as the route controller does.
LEMMA TouchServerIsTrigger ==
  ASSUME NEW s, NEW reply
  PROVE  TouchServer(s, reply) <=> TriggerServerReconcile(s, reply)
BY DEF TouchServer, TriggerServerReconcile

\* What is discovered are backends, and of the copy nothing else changes.
LEMMA ResolveTyped ==
  ASSUME NEW o \in Upstream, EnvironmentTyped, Resolvable(o)
  PROVE  ResolveServiceEndpoints(o) \in UpstreamCopy
<1>1. CASE Discovers(o)
  <2>1. o.spec.service \in Services
    BY <1>1, ClusterAssumption DEF Discovers, Present, Upstream, UpstreamSpecType
  <2>2. endpoints[o.spec.service] \in Backends
    BY <1>1, <2>1 DEF EnvironmentTyped, Resolvable, Present
  <2>3. o \in UpstreamCopy
    BY UpstreamIsCopy
  <2> QED
    BY <1>1, <2>2, <2>3 DEF ResolveServiceEndpoints, UpstreamCopy, UpstreamSpecType
<1> QED
  BY <1>1, UpstreamIsCopy DEF ResolveServiceEndpoints

\* Each step of an upstream's reconcile keeps what it touches in its type.
LEMMA UpstreamStepTyped ==
  ASSUME TypeOK, UpstreamStep
  PROVE  /\ ServersTyped' /\ UpstreamsTyped' /\ faults' \in 0..MaxFaults
         /\ UpstreamTypeOK' /\ UNCHANGED <<routeVars, kidVars, envVars>>
<1>1. /\ ServersTyped /\ UpstreamsTyped /\ UpstreamTypeOK /\ EnvironmentTyped
      /\ faults \in 0..MaxFaults
  BY DEF TypeOK, ClusterTypeOK
<1>2. uPc # "idle" => uKey \in Upstreams /\ uObj \in UpstreamCopy
                      /\ uObj.spec.serverRef \in Servers
  BY <1>1, ClusterAssumption DEF UpstreamTypeOK, UpstreamCopy, UpstreamSpecType
<1>2a. uPc \notin {"idle", "status"} => uObj \in Upstream
  BY <1>1 DEF UpstreamTypeOK
<1>3. UpstreamCurrent \in BOOLEAN
  BY DEF UpstreamCurrent
<1>4. ASSUME UNCHANGED serverVars PROVE ServersTyped'
  BY <1>1, <1>4 DEF serverVars, ServersTyped
<1>5. ASSUME NEW o \in Upstream, uPc # "idle",
             NEW effects \in SUBSET {"ok", "noop"},
             NEW reply \in Replies(UpstreamCurrent, effects),
             WriteUpstream(uKey, o, reply)
      PROVE  UpstreamsTyped' /\ faults' \in 0..MaxFaults
  <2>1. UpstreamsTyped'
    BY <1>1, <1>2, <1>5, WriteUpstreamTyped
  <2>2. Charge(reply)
    BY <1>5 DEF WriteUpstream
  <2> QED
    BY <1>1, <1>3, <1>5, <2>1, <2>2, ChargeBounded
<1>6. CASE UpstreamAddFinalizer
  <2>1. uPc = "addFinalizer" /\ uPc # "idle"
        /\ UNCHANGED <<serverVars, routeVars, kidVars, envVars>>
    BY <1>6 DEF UpstreamAddFinalizer
  <2>2. [uObj EXCEPT !.fin = TRUE] \in Upstream
    BY <1>2a, <2>1 DEF Upstream
  <2>3. UpdatedUpstream([uObj EXCEPT !.fin = TRUE]) \in Upstream
    BY <2>2, UpdatedUpstreamTyped
  <2> QED
    BY <1>1, <1>4, <1>5, <1>6, <2>1, <2>3, UpstreamReturnTyped
       DEF UpstreamAddFinalizer
<1>7. CASE UpstreamRemoveFinalizer
  <2>1. uPc = "removeFinalizer" /\ uPc # "idle"
        /\ UNCHANGED <<serverVars, routeVars, kidVars, envVars>>
    BY <1>7 DEF UpstreamRemoveFinalizer
  <2>2. [uObj EXCEPT !.fin = FALSE] \in Upstream
    BY <1>2a, <2>1 DEF Upstream
  <2>3. UpdatedUpstream([uObj EXCEPT !.fin = FALSE]) \in Upstream
    BY <2>2, UpdatedUpstreamTyped
  <2> QED
    BY <1>1, <1>4, <1>5, <1>7, <2>1, <2>3, UpstreamReturnTyped
       DEF UpstreamRemoveFinalizer
<1>8. ASSUME uPc # "idle", NEW ready \in UpstreamConditions,
             NEW stamped \in BOOLEAN, NEW again,
             WriteUpstreamStatus(ready, stamped, again)
      PROVE  /\ ServersTyped' /\ UpstreamsTyped' /\ faults' \in 0..MaxFaults
             /\ UpstreamTypeOK' /\ UNCHANGED <<routeVars, kidVars, envVars>>
  <2> DEFINE new == Reported(ready)
  <2>1. PICK effects \in SUBSET {"ok", "noop"} :
          \E reply \in Replies(UpstreamCurrent, effects) :
            /\ WriteUpstream(uKey, new, reply)
            /\ UpstreamReturn(~Succeeded(reply) \/ again)
    BY <1>8 DEF WriteUpstreamStatus
  <2>2. PICK reply \in Replies(UpstreamCurrent, effects) :
          /\ WriteUpstream(uKey, new, reply)
          /\ UpstreamReturn(~Succeeded(reply) \/ again)
    BY <2>1
  <2>3. UNCHANGED <<serverVars, routeVars, kidVars, envVars>>
    BY <1>8 DEF WriteUpstreamStatus
  <2>4. UpstreamsTyped' /\ faults' \in 0..MaxFaults
    <3>1. CASE UpstreamCurrent
      <4>1. up[uKey] \in Upstream
        BY <1>1, <1>2, <1>8, <3>1
           DEF UpstreamCurrent, UpstreamsTyped, Present
      <4>2. new \in Upstream
        BY <1>2, <1>8, <4>1 DEF Reported, Upstream, UpstreamCopy
      <4> HIDE DEF new
      <4> QED
        BY <1>5, <1>8, <2>2, <4>2
    <3>2. CASE ~UpstreamCurrent
      <4>1. ~Applied(reply)
        BY <3>2 DEF Replies, Applied
      <4>2. UpstreamsTyped'
        BY <1>1, <2>2, <4>1 DEF WriteUpstream, UpstreamsTyped
      <4>3. Charge(reply)
        BY <2>2 DEF WriteUpstream
      <4> QED
        BY <1>1, <1>3, <4>2, <4>3, ChargeBounded
    <3> QED
      BY <3>1, <3>2
  <2> HIDE DEF new
  <2>5. UpstreamTypeOK'
    BY <1>1, <1>8, <2>2, UpstreamReturnTyped
  <2> QED
    BY <1>4, <2>3, <2>4, <2>5
<1>9. CASE UpstreamNotReady \/ UpstreamReady
  <2>1. {"Failed", "ServerNotFound", "DependencyNotReady", "True"}
          \subseteq UpstreamConditions
    BY DEF UpstreamConditions
  <2> QED
    BY <1>8, <1>9, <2>1 DEF UpstreamNotReady, UpstreamReady
<1>10. CASE ResolveAndTrigger
  <2> DEFINE s == uObj.spec.serverRef
  <2>1. /\ uPc = "trigger" /\ uPc # "idle" /\ s \in Servers
        /\ UNCHANGED <<up, upC, routeVars, kidVars, envVars>>
    BY <1>2, <1>10 DEF ResolveAndTrigger
  <2>2. CASE /\ UpstreamContinue(IF Present(srvC[s]) THEN "notResolved"
                                                     ELSE "noServer")
             /\ UNCHANGED <<uObj, serverVars, upFresh, faults>>
    <3>1. UpstreamTypeOK'
      BY <1>1, <2>1, <2>2 DEF UpstreamContinue, UpstreamTypeOK, UpstreamSteps
    <3> QED
      BY <1>1, <1>4, <2>1, <2>2, <3>1 DEF UpstreamsTyped
  <2>3. ASSUME Present(srvC[s]), Resolvable(uObj), NEW reply,
               TouchServer(s, reply),
               IF Succeeded(reply)
                 THEN /\ UpstreamContinue("status")
                      /\ uObj' = ResolveServiceEndpoints(uObj)
                      /\ UNCHANGED upFresh
                 ELSE /\ UpstreamReturn(TRUE)
                      /\ upFresh' = [upFresh EXCEPT ![uKey] =
                                       @ \ {"reconciler"}]
        PROVE  /\ ServersTyped' /\ UpstreamsTyped' /\ faults' \in 0..MaxFaults
               /\ UpstreamTypeOK'
    <3>1. ServersTyped' /\ faults' \in 0..MaxFaults
      BY <2>1, <2>3, TouchServerIsTrigger, TriggerServerReconcileTyped
    <3>2. UpstreamsTyped'
      BY <1>1, <1>2, <2>1, <2>3 DEF UpstreamsTyped
    <3>3. CASE Succeeded(reply)
      <4>1. uObj' \in UpstreamCopy
        BY <1>1, <1>2a, <2>1, <2>3, <3>3, ResolveTyped
      <4> QED
        BY <1>1, <2>1, <2>3, <3>1, <3>2, <3>3, <4>1
           DEF UpstreamContinue, UpstreamTypeOK, UpstreamSteps
    <3>4. CASE ~Succeeded(reply)
      BY <1>1, <2>1, <2>3, <3>1, <3>2, <3>4, UpstreamReturnTyped
    <3> QED
      BY <3>3, <3>4
  <2>4. \/ /\ UpstreamContinue(IF Present(srvC[s]) THEN "notResolved"
                                                   ELSE "noServer")
           /\ UNCHANGED <<uObj, serverVars, upFresh, faults>>
        \/ /\ Present(srvC[s]) /\ Resolvable(uObj)
           /\ \E reply \in {"ok", "conflict", "error", "lost"} :
                /\ TouchServer(s, reply)
                /\ IF Succeeded(reply)
                     THEN /\ UpstreamContinue("status")
                          /\ uObj' = ResolveServiceEndpoints(uObj)
                          /\ UNCHANGED upFresh
                     ELSE /\ UpstreamReturn(TRUE)
                          /\ upFresh' = [upFresh EXCEPT ![uKey] =
                                           @ \ {"reconciler"}]
    BY <1>10 DEF ResolveAndTrigger
  <2> HIDE DEF s
  <2> QED
    BY <2>1, <2>2, <2>3, <2>4
<1>11. CASE UpstreamTriggerThenRemove
  <2> DEFINE s == uObj.spec.serverRef
  <2>1. /\ uPc = "triggerThenRemove" /\ uPc # "idle" /\ s \in Servers
        /\ UpstreamContinue("removeFinalizer")
        /\ UNCHANGED uObj /\ UNCHANGED <<upstreamVars, routeVars, kidVars, envVars>>
    BY <1>2, <1>11 DEF UpstreamTriggerThenRemove
  <2>2. UpstreamsTyped' /\ UpstreamTypeOK'
    BY <1>1, <2>1 DEF UpstreamsTyped, upstreamVars, UpstreamContinue,
       UpstreamTypeOK, UpstreamSteps
  <2>3. ServersTyped' /\ faults' \in 0..MaxFaults
    BY <1>1, <1>4, <1>11, <2>1, TouchServerIsTrigger,
       TriggerServerReconcileTyped DEF UpstreamTriggerThenRemove
  <2> QED
    BY <2>1, <2>2, <2>3
<1> QED
  BY <1>6, <1>7, <1>9, <1>10, <1>11 DEF UpstreamStep

-----------------------------------------------------------------------------
(***************************************************************************)
(* Types of what goes on around the controllers.                           *)
(***************************************************************************)
\* What users do leaves resources and children of their types.
LEMMA UsersTyped == ASSUME TypeOK, Users PROVE ClusterTypeOK'
<1>1. /\ ServersTyped /\ RoutesTyped /\ UpstreamsTyped /\ ChildrenTyped
      /\ EnvironmentTyped /\ faults \in 0..MaxFaults
  BY DEF TypeOK, ClusterTypeOK
<1>2. ASSUME NEW kind, UserOp(kind)
      PROVE  /\ ops' \in 0..MaxOps /\ crashes' \in 0..MaxCrashes
             /\ pods' \in [Servers -> Pods \cup {Absent}]
             /\ users' \subseteq UserOpNames
             /\ faults' \in 0..MaxFaults
  BY <1>1, <1>2, ClusterAssumption DEF UserOp, EnvironmentTyped
<1>3. \A s \in Servers : srv[s] # Absent => srv[s] \in Server
  BY <1>1 DEF ServersTyped
<1>4. \A r \in Routes : rt[r] # Absent => rt[r] \in Route
  BY <1>1 DEF RoutesTyped
<1>4a. \A u \in Upstreams : up[u] # Absent => up[u] \in Upstream
  BY <1>1 DEF UpstreamsTyped
<1>5. /\ UNCHANGED serverVars => ServersTyped'
      /\ UNCHANGED routeVars => RoutesTyped'
      /\ UNCHANGED upstreamVars => UpstreamsTyped'
      /\ UNCHANGED kidVars => ChildrenTyped'
  BY <1>1 DEF serverVars, routeVars, upstreamVars, kidVars, ServersTyped,
     RoutesTyped, UpstreamsTyped, ChildrenTyped
<1> USE DEF ClusterTypeOK, EnvironmentTyped, Present
<1>6. ASSUME NEW s \in Servers, NEW spec \in ServerSpecs, CreateServer(s, spec)
      PROVE  ClusterTypeOK'
  <2>1. born[s] + 1 \in Nat
    BY <1>1
  <2>2. NewServer(born[s] + 1, spec) \in Server
    BY <2>1 DEF NewServer, Server, ServerStatus, Conditions
  <2>3. born' \in [Servers -> Nat]
    BY <1>1, <1>6 DEF CreateServer
  <2>4. ServersTyped'
    BY <1>1, <1>6, <2>2, PutServerTyped DEF CreateServer
  <2> QED
    BY <1>1, <1>2, <1>5, <1>6, <2>3, <2>4 DEF CreateServer
<1>7. ASSUME NEW s \in Servers, NEW spec \in ServerSpecs, EditServer(s, spec)
      PROVE  ClusterTypeOK'
  <2>1. [srv[s] EXCEPT !.spec = spec, !.status.seen = FALSE] \in Server
    BY <1>3, <1>7 DEF EditServer, Server, ServerStatus
  <2>2. ServersTyped'
    BY <1>1, <1>7, <2>1, PutServerTyped DEF EditServer
  <2> QED
    BY <1>1, <1>2, <1>5, <1>7, <2>2 DEF EditServer
<1>8. ASSUME NEW s \in Servers, DeleteServer(s) PROVE ClusterTypeOK'
  <2>1. [srv[s] EXCEPT !.deleting = TRUE] \in Server
    BY <1>3, <1>8 DEF DeleteServer, Server
  <2>2. ServersTyped'
    BY <1>1, <1>8, <2>1, PutServerTyped DEF DeleteServer
  <2> QED
    BY <1>1, <1>2, <1>5, <1>8, <2>2 DEF DeleteServer
<1>9. ASSUME NEW r \in Routes, NEW spec \in RouteSpecs, CreateRoute(r, spec)
      PROVE  ClusterTypeOK'
  <2>1. NewRoute(spec) \in Route
    BY DEF NewRoute, Route, Conditions
  <2>2. RoutesTyped'
    BY <1>1, <1>9, <2>1, PutRouteTyped DEF CreateRoute
  <2> QED
    BY <1>1, <1>2, <1>5, <1>9, <2>2 DEF CreateRoute
<1>10. ASSUME NEW r \in Routes, NEW spec \in RouteSpecs, EditRoute(r, spec)
       PROVE  ClusterTypeOK'
  <2>1. [rt[r] EXCEPT !.spec = spec, !.seen = FALSE] \in Route
    BY <1>4, <1>10 DEF EditRoute, Route
  <2>2. RoutesTyped'
    BY <1>1, <1>10, <2>1, PutRouteTyped DEF EditRoute
  <2> QED
    BY <1>1, <1>2, <1>5, <1>10, <2>2 DEF EditRoute
<1>11. ASSUME NEW r \in Routes, DeleteRoute(r) PROVE ClusterTypeOK'
  <2>1. [rt[r] EXCEPT !.deleting = TRUE] \in Route
    BY <1>4, <1>11 DEF DeleteRoute, Route
  <2>2. RoutesTyped'
    BY <1>1, <1>11, <2>1, PutRouteTyped DEF DeleteRoute
  <2> QED
    BY <1>1, <1>2, <1>5, <1>11, <2>2 DEF DeleteRoute
<1>12. ASSUME NEW s \in Servers, NEW k \in Kinds, Tamper(s, k)
       PROVE  ClusterTypeOK'
  <2>1. ChildrenTyped'
    BY <1>1, <1>12, PutChildTyped DEF Tamper
  <2> QED
    BY <1>1, <1>2, <1>5, <1>12, <2>1 DEF Tamper
<1>13. ASSUME NEW u \in Upstreams, NEW spec \in UpstreamSpecs,
              CreateUpstream(u, spec)
       PROVE  ClusterTypeOK'
  <2>1. NewUpstream(spec) \in Upstream
    BY ClusterAssumption DEF NewUpstream, Upstream, UpstreamConditions
  <2>2. UpstreamsTyped'
    BY <1>1, <1>13, <2>1, PutUpstreamTyped DEF CreateUpstream
  <2> QED
    BY <1>1, <1>2, <1>5, <1>13, <2>2 DEF CreateUpstream
<1>14. ASSUME NEW u \in Upstreams, NEW spec \in UpstreamSpecs,
              EditUpstream(u, spec)
       PROVE  ClusterTypeOK'
  <2>1. [up[u] EXCEPT !.spec = spec, !.seen = FALSE] \in Upstream
    BY <1>4a, <1>14 DEF EditUpstream, Upstream
  <2>2. UpstreamsTyped'
    BY <1>1, <1>14, <2>1, PutUpstreamTyped DEF EditUpstream
  <2> QED
    BY <1>1, <1>2, <1>5, <1>14, <2>2 DEF EditUpstream
<1>15. ASSUME NEW u \in Upstreams, DeleteUpstream(u) PROVE ClusterTypeOK'
  <2>1. [up[u] EXCEPT !.deleting = TRUE] \in Upstream
    BY <1>4a, <1>15 DEF DeleteUpstream, Upstream
  <2>2. UpstreamsTyped'
    BY <1>1, <1>15, <2>1, PutUpstreamTyped DEF DeleteUpstream
  <2> QED
    BY <1>1, <1>2, <1>5, <1>15, <2>2 DEF DeleteUpstream
<1>16. ASSUME NEW sv \in Services, NEW b \in Backends \cup {Absent},
              ScaleService(sv, b)
       PROVE  ClusterTypeOK'
  <2>1. endpoints' \in [Services -> Backends \cup {Absent}]
    BY <1>1, <1>16 DEF ScaleService
  <2> QED
    BY <1>1, <1>2, <1>5, <1>16, <2>1 DEF ScaleService
<1> QED
  BY <1>6, <1>7, <1>8, <1>9, <1>10, <1>11, <1>12, <1>13, <1>14, <1>15, <1>16
     DEF Users

\* So do the controllers of Kubernetes.
LEMMA KubernetesTyped == ASSUME TypeOK, Kubernetes PROVE ClusterTypeOK'
<1>1. /\ ServersTyped /\ RoutesTyped /\ UpstreamsTyped /\ ChildrenTyped
      /\ EnvironmentTyped /\ faults \in 0..MaxFaults
  BY DEF TypeOK, ClusterTypeOK
<1>2. /\ UNCHANGED serverVars => ServersTyped'
      /\ UNCHANGED routeVars => RoutesTyped'
      /\ UNCHANGED upstreamVars => UpstreamsTyped'
      /\ UNCHANGED kidVars => ChildrenTyped'
  BY <1>1 DEF serverVars, routeVars, upstreamVars, kidVars, ServersTyped,
     RoutesTyped, UpstreamsTyped, ChildrenTyped
<1> USE DEF ClusterTypeOK, EnvironmentTyped
<1>3. ASSUME NEW s \in Servers, NEW k \in Kinds, CollectGarbage(s, k)
      PROVE  ClusterTypeOK'
  <2>1. ChildrenTyped'
    BY <1>1, <1>3, PutChildTyped DEF CollectGarbage
  <2> QED
    BY <1>1, <1>2, <1>3, <2>1 DEF CollectGarbage, envVars
<1>4. ASSUME NEW s \in Servers, Terminate(s) PROVE ClusterTypeOK'
  BY <1>1, <1>2, <1>4 DEF Terminate
<1>5. ASSUME NEW s \in Servers, Surge(s) PROVE ClusterTypeOK'
  <2> DEFINE d == kid[s]["Deployment"]
  <2>1. d \in Child("Deployment")
    BY <1>1, <1>5, ClusterAssumption DEF Surge, ChildrenTyped, Present
  <2>2. [d EXCEPT !.ready = FALSE] \in Child("Deployment")
    BY <2>1 DEF Child
  <2>3. /\ PutChild(s, "Deployment", [d EXCEPT !.ready = FALSE])
        /\ kidC' = kidC
        /\ UNCHANGED <<serverVars, routeVars, upstreamVars, envVars, faults>>
    BY <1>5 DEF Surge
  <2> HIDE DEF d
  <2>4. ChildrenTyped'
    BY <1>1, <2>2, <2>3, PutChildTyped, ClusterAssumption
  <2> QED
    BY <1>1, <1>2, <2>3, <2>4 DEF envVars
<1>6. ASSUME NEW s \in Servers, Rollout(s) PROVE ClusterTypeOK'
  <2> DEFINE d == kid[s]["Deployment"]
             c == kid[s]["ConfigMap"]
  <2>1. d \in Child("Deployment") /\ c \in Child("ConfigMap")
    BY <1>1, <1>6, ClusterAssumption DEF Rollout, ChildrenTyped, Present
  <2>2. [hash |-> d.data, conf |-> c.data] \in Pods
    BY <2>1 DEF Child, Pods
  <2>3. pods' \in [Servers -> Pods \cup {Absent}]
    BY <1>1, <1>6, <2>2 DEF Rollout
  <2>4. [d EXCEPT !.ready = TRUE] \in Child("Deployment")
    BY <2>1 DEF Child
  <2>5. /\ PutChild(s, "Deployment", [d EXCEPT !.ready = TRUE])
        /\ kidC' = kidC
        /\ UNCHANGED <<serverVars, routeVars, upstreamVars, born, endpoints,
                       users, ops, crashes, faults>>
    BY <1>6 DEF Rollout
  <2> HIDE DEF d, c
  <2>6. ChildrenTyped'
    BY <1>1, <2>4, <2>5, PutChildTyped, ClusterAssumption
  <2> QED
    BY <1>1, <1>2, <2>3, <2>5, <2>6
<1> QED
  BY <1>3, <1>4, <1>5, <1>6 DEF Kubernetes

\* A cache takes over what the API holds, and wakes keys that exist.
LEMMA EventsTyped == ASSUME TypeOK, Events PROVE TypeOK'
<1>1. /\ ServersTyped /\ RoutesTyped /\ UpstreamsTyped /\ ChildrenTyped
      /\ EnvironmentTyped /\ faults \in 0..MaxFaults
      /\ ServerTypeOK /\ RouteTypeOK /\ UpstreamTypeOK
  BY DEF TypeOK, ClusterTypeOK
<1>2. /\ UNCHANGED serverVars => ServersTyped'
      /\ UNCHANGED routeVars => RoutesTyped'
      /\ UNCHANGED upstreamVars => UpstreamsTyped'
      /\ UNCHANGED kidVars => ChildrenTyped'
      /\ UNCHANGED envVars => EnvironmentTyped'
  BY <1>1 DEF serverVars, routeVars, upstreamVars, kidVars, envVars,
     ServersTyped, RoutesTyped, UpstreamsTyped, ChildrenTyped, EnvironmentTyped
<1>3. /\ UNCHANGED serverLocals /\ sQ' \subseteq Servers => ServerTypeOK'
      /\ UNCHANGED routeLocals /\ rQ' \subseteq Routes => RouteTypeOK'
      /\ UNCHANGED upstreamLocals /\ uQ' \subseteq Upstreams => UpstreamTypeOK'
  BY <1>1 DEF serverLocals, routeLocals, upstreamLocals, ServerTypeOK,
     RouteTypeOK, UpstreamTypeOK
<1>4. sQ \subseteq Servers /\ rQ \subseteq Routes /\ uQ \subseteq Upstreams
  BY <1>1 DEF ServerTypeOK, RouteTypeOK, UpstreamTypeOK
<1> USE DEF TypeOK, ClusterTypeOK
<1>5. ASSUME NEW s \in Servers, ServerEvent(s) PROVE TypeOK'
  <2>1. ServersTyped'
    BY <1>1, <1>5 DEF ServerEvent, CatchUpServer, ServersTyped, Holders
  <2>2. ServerTypeOK' /\ RouteTypeOK' /\ UpstreamTypeOK'
    BY <1>3, <1>4, <1>5
       DEF ServerEvent, FindRoutesForServer, FindUpstreamsForServer
  <2> QED
    BY <1>1, <1>2, <1>5, <2>1, <2>2 DEF ServerEvent, CatchUpServer
<1>6. ASSUME NEW r \in Routes, RouteEvent(r) PROVE TypeOK'
  <2>1. RoutesTyped'
    BY <1>1, <1>6 DEF RouteEvent, CatchUpRoute, RoutesTyped, Holders
  <2>2. ServerTypeOK' /\ RouteTypeOK' /\ UpstreamTypeOK'
    BY <1>3, <1>4, <1>6
       DEF RouteEvent, serverControllerVars, upstreamControllerVars
  <2> QED
    BY <1>1, <1>2, <1>6, <2>1, <2>2 DEF RouteEvent, CatchUpRoute
<1>7. ASSUME NEW u \in Upstreams, UpstreamEvent(u) PROVE TypeOK'
  <2>1. UpstreamsTyped'
    BY <1>1, <1>7 DEF UpstreamEvent, CatchUpUpstream, UpstreamsTyped, Holders
  <2>2. ServerTypeOK' /\ RouteTypeOK' /\ UpstreamTypeOK'
    BY <1>3, <1>4, <1>7
       DEF UpstreamEvent, serverControllerVars, routeControllerVars
  <2> QED
    BY <1>1, <1>2, <1>7, <2>1, <2>2 DEF UpstreamEvent, CatchUpUpstream
<1>8. ASSUME NEW s \in Servers, NEW k \in Kinds, ChildEvent(s, k) PROVE TypeOK'
  <2>1. ChildrenTyped'
    BY <1>1, <1>8 DEF ChildEvent, CatchUpChild, ChildrenTyped
  <2>2. ServerTypeOK' /\ RouteTypeOK' /\ UpstreamTypeOK'
    BY <1>3, <1>4, <1>8
       DEF ChildEvent, routeControllerVars, upstreamControllerVars
  <2> QED
    BY <1>1, <1>2, <1>8, <2>1, <2>2 DEF ChildEvent, CatchUpChild
<1> QED
  BY <1>5, <1>6, <1>7, <1>8 DEF Events

\* So does a new process, with all of them at once.
LEMMA RestartTyped == ASSUME TypeOK, Restart PROVE TypeOK'
<1> USE DEF TypeOK, ClusterTypeOK, Restart, RelistAll
<1>1. crashes' \in 0..MaxCrashes
  BY ClusterAssumption DEF EnvironmentTyped
<1>2. ServersTyped' /\ RoutesTyped' /\ UpstreamsTyped' /\ ChildrenTyped'
  BY DEF ServersTyped, RoutesTyped, UpstreamsTyped, ChildrenTyped, Holders
<1>3. EnvironmentTyped' /\ faults' \in 0..MaxFaults
  BY <1>1 DEF EnvironmentTyped
<1>4. ServerTypeOK' /\ RouteTypeOK' /\ UpstreamTypeOK'
  BY ClusterAssumption DEF ServerTypeOK, RouteTypeOK, UpstreamTypeOK,
     ServerSteps, RouteSteps, UpstreamSteps
<1> QED
  BY <1>2, <1>3, <1>4

\* The operator starts with all of them typed.
LEMMA TypeOKInit == Init => TypeOK
<1> SUFFICES ASSUME Init PROVE TypeOK
  OBVIOUS
<1> USE DEF Init, ClusterInit
<1>1. PICK start \in Starts :
        /\ srv = [s \in Servers |->
                    IF Present(start.servers[s])
                    THEN [NewServer(1, start.servers[s]) EXCEPT !.fin = Adopted]
                    ELSE Absent]
        /\ rt = [r \in Routes |->
                   IF Present(start.routes[r])
                   THEN [NewRoute(start.routes[r]) EXCEPT !.fin = Adopted]
                   ELSE Absent]
        /\ up = [u \in Upstreams |->
                   IF Present(start.upstreams[u])
                   THEN [NewUpstream(start.upstreams[u]) EXCEPT !.fin = Adopted]
                   ELSE Absent]
        /\ endpoints = start.endpoints /\ users = start.users
  OBVIOUS
<1>2. start \in StartType /\ Adopted \in BOOLEAN
  BY ClusterAssumption
<1>3. srv \in [Servers -> Server \cup {Absent}]
  <2>1. ASSUME NEW s \in Servers, Present(start.servers[s])
        PROVE  [NewServer(1, start.servers[s]) EXCEPT !.fin = Adopted] \in Server
    <3>1. start.servers[s] \in ServerSpecs
      BY <1>2, <2>1 DEF StartType, Present
    <3> QED
      BY <1>2, <3>1 DEF NewServer, Server, ServerStatus, Conditions
  <2> QED
    BY <1>1, <2>1
<1>4. rt \in [Routes -> Route \cup {Absent}]
  <2>1. ASSUME NEW r \in Routes, Present(start.routes[r])
        PROVE  [NewRoute(start.routes[r]) EXCEPT !.fin = Adopted] \in Route
    <3>1. start.routes[r] \in RouteSpecs
      BY <1>2, <2>1 DEF StartType, Present
    <3> QED
      BY <1>2, <3>1 DEF NewRoute, Route, Conditions
  <2> QED
    BY <1>1, <2>1
<1>5. up \in [Upstreams -> Upstream \cup {Absent}]
  <2>1. ASSUME NEW u \in Upstreams, Present(start.upstreams[u])
        PROVE  [NewUpstream(start.upstreams[u]) EXCEPT !.fin = Adopted]
                 \in Upstream
    <3>1. start.upstreams[u] \in UpstreamSpecs
      BY <1>2, <2>1 DEF StartType, Present
    <3> QED
      BY <1>2, <3>1, ClusterAssumption
         DEF NewUpstream, Upstream, UpstreamConditions
  <2> QED
    BY <1>1, <2>1
<1>6. ServersTyped /\ RoutesTyped /\ UpstreamsTyped
  BY <1>3, <1>4, <1>5 DEF ServersTyped, RoutesTyped, UpstreamsTyped, Holders
<1>7. ChildrenTyped
  BY DEF ChildrenTyped, AnyChild
<1>8. EnvironmentTyped /\ faults \in 0..MaxFaults
  BY <1>1, <1>2, ClusterAssumption DEF EnvironmentTyped, StartType
<1>9. ServerTypeOK /\ RouteTypeOK /\ UpstreamTypeOK
  BY ClusterAssumption DEF ServerInit, RouteInit, UpstreamInit, ServerTypeOK,
     RouteTypeOK, UpstreamTypeOK, ServerSteps, RouteSteps, UpstreamSteps
<1> QED
  BY <1>6, <1>7, <1>8, <1>9 DEF TypeOK, ClusterTypeOK

\* Every step of the system keeps TypeOK.
LEMMA TypeOKNext == ASSUME TypeOK, [Next]_vars PROVE TypeOK'
<1>1. /\ ServersTyped /\ RoutesTyped /\ UpstreamsTyped /\ ChildrenTyped
      /\ EnvironmentTyped /\ faults \in 0..MaxFaults
      /\ ServerTypeOK /\ RouteTypeOK /\ UpstreamTypeOK
  BY DEF TypeOK, ClusterTypeOK
<1>2. /\ UNCHANGED serverVars => ServersTyped'
      /\ UNCHANGED routeVars => RoutesTyped'
      /\ UNCHANGED upstreamVars => UpstreamsTyped'
      /\ UNCHANGED kidVars => ChildrenTyped'
      /\ UNCHANGED envVars => EnvironmentTyped'
  BY <1>1 DEF serverVars, routeVars, upstreamVars, kidVars, envVars,
     ServersTyped, RoutesTyped, UpstreamsTyped, ChildrenTyped, EnvironmentTyped
<1>3. /\ UNCHANGED serverControllerVars => ServerTypeOK'
      /\ UNCHANGED routeControllerVars => RouteTypeOK'
      /\ UNCHANGED upstreamControllerVars => UpstreamTypeOK'
  BY <1>1 DEF serverControllerVars, serverLocals, routeControllerVars,
     routeLocals, upstreamControllerVars, upstreamLocals, ServerTypeOK,
     RouteTypeOK, UpstreamTypeOK
<1> USE DEF TypeOK, ClusterTypeOK
<1>4. CASE ServerController
  <2>1. ASSUME NEW s \in Servers, FetchServer(s)
        PROVE  /\ ServersTyped' /\ ServerTypeOK' /\ faults' \in 0..MaxFaults
               /\ UNCHANGED <<routeVars, upstreamVars, kidVars, envVars>>
    BY <1>1, <2>1, FetchServerTyped DEF FetchServer
  <2> QED
    BY <1>2, <1>3, <1>4, <2>1, ServerStepTyped DEF ServerController
<1>5. CASE RouteController
  <2>1. ASSUME NEW r \in Routes, FetchRoute(r)
        PROVE  /\ RoutesTyped' /\ RouteTypeOK' /\ faults' \in 0..MaxFaults
               /\ UNCHANGED <<serverVars, upstreamVars, kidVars, envVars>>
    BY <1>1, <2>1, FetchRouteTyped DEF FetchRoute
  <2> QED
    BY <1>2, <1>3, <1>5, <2>1, RouteStepTyped DEF RouteController
<1>6. CASE UpstreamController
  <2>1. ASSUME NEW u \in Upstreams, FetchUpstream(u)
        PROVE  /\ UpstreamsTyped' /\ UpstreamTypeOK' /\ faults' \in 0..MaxFaults
               /\ UNCHANGED <<serverVars, routeVars, kidVars, envVars>>
    BY <1>1, <2>1, FetchUpstreamTyped DEF FetchUpstream
  <2> QED
    BY <1>2, <1>3, <1>6, <2>1, UpstreamStepTyped DEF UpstreamController
<1>7. CASE Environment
  BY <1>3, <1>7, UsersTyped, KubernetesTyped DEF Environment
<1>8. CASE UNCHANGED vars
  BY <1>1, <1>2, <1>3, <1>8 DEF vars, clusterVars
<1> QED
  BY <1>4, <1>5, <1>6, <1>7, <1>8, EventsTyped, RestartTyped DEF Next

\* TypeOK holds of the operator in its cluster, whatever the constants.
THEOREM TypeCorrect == Spec => []TypeOK
<1>1. Init => TypeOK
  BY TypeOKInit
<1>2. TypeOK /\ [Next]_vars => TypeOK'
  BY TypeOKNext
<1> QED
  BY <1>1, <1>2, PTL DEF Spec
=============================================================================
