------------------------------ MODULE Cluster ------------------------------
(***************************************************************************)
(* The part of Kubernetes the nginx-operator is written against: the API   *)
(* objects, the informer caches the operator reads them from, and what     *)
(* users, the garbage collector and the Deployment controller do to them.  *)
(* None of it is code of this repository; it is modelled from how the      *)
(* reconcilers in internal/controller use their client.                    *)
(*                                                                         *)
(*  - A write (Update, Status().Update) carries the resourceVersion of the *)
(*    copy it was made from and fails with a conflict when the object has  *)
(*    been written since.  Versions are only ever compared for equality    *)
(*    with the current one, so the model keeps, for each object, the set   *)
(*    of holders whose copy IS current: "cache" (the informer cache) and   *)
(*    "reconciler" (the copy the running reconcile made of it).  Of a     *)
(*    child nobody but the cache holds a copy.                             *)
(*  - Get and List read the informer cache, which lags behind the API.  A  *)
(*    lagging cache catches up in one step with the newest version.        *)
(*  - A write may fail, with or without having been applied.               *)
(*  - An Update goes through the Go type of a resource, whose zero values  *)
(*    are left out of the JSON, and through the defaults of the CRD: a     *)
(*    false or a zero that a user has set comes back as the default.  An   *)
(*    update of the status takes nothing of the spec along.                *)
(***************************************************************************)
EXTENDS Naturals, FiniteSets, Sequences

CONSTANTS
  Servers,           \* names of NginxServer resources
  Routes,            \* names of NginxRoute resources
  Upstreams,         \* names of NginxUpstream resources
  Services,          \* names of Services an NginxUpstream may discover
  Backends,          \* lists of backend servers
  NoBackends,        \* the empty one
  ServerSpecs,       \* specs a user may give an NginxServer
  ValidServerSpecs,  \* those ValidateNginxServer accepts
  RouteSpecs,        \* specs a user may give an NginxRoute, see RouteSpecType
  UpstreamSpecs,     \* and an NginxUpstream, see UpstreamSpecType
  ServerDefaults,    \* a spec with the CRD's default for each field that is zero
  RouteDefaults, UpstreamDefaults,   \* likewise
  Starts,            \* what may exist when the operator starts, see StartType
  Adopted,           \* whether it carries the operator's finalizers
  Kinds,             \* the children a run follows, see ClusterAssumption
  MaxOps,            \* bound: user operations in a behaviour
  MaxFaults,         \* bound: API writes that fail for no fault of the caller
  MaxCrashes,        \* bound: restarts of the operator process
  MaxEvents,         \* bound: the three together
  Absent             \* "no such object"

(***************************************************************************)
(* What the properties tell apart in an NginxRoute spec: the NginxServer   *)
(* it names, its priority, whether ValidateNginxRoute accepts it, the      *)
(* NginxUpstreams its locations refer to, and a revision standing for the  *)
(* rest.  In an NginxUpstream spec: the NginxServer, the backends listed,  *)
(* the Service to discover them from, if any, and whether it is accepted.  *)
(***************************************************************************)
RouteSpecType == [serverRef : Servers, priority : Nat, rev : Nat,
                  valid : BOOLEAN, upstreamRefs : SUBSET Upstreams]
UpstreamSpecType == [serverRef : Servers, backends : Backends,
                     service : Services \cup {Absent}, valid : BOOLEAN]

UserOpNames == {"createServer", "editServer", "deleteServer", "createRoute",
                "editRoute", "moveRoute", "deleteRoute", "createUpstream",
                "editUpstream", "moveUpstream", "deleteUpstream",
                "scaleService", "tamper"}

\* users: the kinds of operations users go on to make.
StartType == [users : SUBSET UserOpNames,
              servers : [Servers -> ServerSpecs \cup {Absent}],
              routes : [Routes -> RouteSpecs \cup {Absent}],
              upstreams : [Upstreams -> UpstreamSpecs \cup {Absent}],
              endpoints : [Services -> Backends \cup {Absent}]]

Holders == {"cache", "reconciler"}

\* Priority, of which zero is a value, has the default 100; required fields,
\* references among them, have none.
DefaultPriority == 100

\* The operator keeps three children of a server.  The Service never meets the
\* other two, and a run may leave it out.
ASSUME ClusterAssumption ==
  /\ IsFiniteSet(Routes) /\ IsFiniteSet(Upstreams)
  /\ {"ConfigMap", "Deployment"} \subseteq Kinds
  /\ Kinds \subseteq {"ConfigMap", "Deployment", "Service"}
  /\ Starts \subseteq StartType
  /\ ValidServerSpecs \subseteq ServerSpecs
  /\ RouteSpecs \subseteq RouteSpecType
  /\ UpstreamSpecs \subseteq UpstreamSpecType
  /\ NoBackends \in Backends
  /\ Adopted \in BOOLEAN
  /\ {MaxOps, MaxFaults, MaxCrashes, MaxEvents} \subseteq Nat

ASSUME DefaultsAssumption ==
  /\ ServerDefaults \in [ServerSpecs -> ServerSpecs]
  /\ RouteDefaults \in [RouteSpecs -> RouteSpecs]
  /\ UpstreamDefaults \in [UpstreamSpecs -> UpstreamSpecs]
  /\ \A spec \in RouteSpecs :
       /\ RouteDefaults[spec].serverRef = spec.serverRef
       /\ RouteDefaults[spec].upstreamRefs = spec.upstreamRefs
       /\ RouteDefaults[spec].priority =
            IF spec.priority = 0 THEN DefaultPriority ELSE spec.priority
  /\ \A spec \in UpstreamSpecs :
       /\ UpstreamDefaults[spec].serverRef = spec.serverRef
       /\ UpstreamDefaults[spec].service = spec.service

VARIABLES
  srv, srvC, srvFresh,   \* NginxServers: the API, the cache, current holders
  rt, rtC, rtFresh,      \* NginxRoutes: likewise
  up, upC, upFresh,      \* NginxUpstreams: likewise
  kid, kidC, kidFresh,   \* the ConfigMap, Deployment and Service of a server
  pods,                  \* what the NGINX pods of a server run
  born,                  \* how often a server of that name was created
  endpoints,             \* what a Get of a Service's Endpoints returns
  users,                 \* the kinds of operations users make
  ops, faults, crashes   \* bounded counters

serverVars == <<srv, srvC, srvFresh>>
routeVars == <<rt, rtC, rtFresh>>
upstreamVars == <<up, upC, upFresh>>
kidVars == <<kid, kidC, kidFresh>>
envVars == <<pods, born, endpoints, users, ops, crashes>>
clusterVars == <<serverVars, routeVars, upstreamVars, kidVars, envVars, faults>>

Present(o) == o # Absent

\* The bounds allow one more user operation, failed write or restart.
MoreEvents == ops + faults + crashes < MaxEvents

-----------------------------------------------------------------------------
(***************************************************************************)
(* Objects.  ConfigApplied is not kept: it is set exactly when hash is.    *)
(* seen: the Ready condition observed the generation the resource is at.   *)
(***************************************************************************)
Conditions == {"None", "True", "False"}
\* Not every upstream that is not ready is so for the same reason.
UpstreamConditions == {"None", "True", "Failed", "ServerNotFound",
                       "DependencyNotReady"}

\* One `server` block: the route it was rendered from, as that route was.
Blocks == [route : Routes, spec : RouteSpecs]
\* One `upstream` block.
UpstreamBlocks == [upstream : Upstreams, backends : Backends]
\* A generated configuration; its SHA-256 is as good as the text itself.
Configs == [spec : ServerSpecs, upstreams : Seq(UpstreamBlocks),
            blocks : Seq(Blocks)]

ServerStatus == [Ready : Conditions, ConfigValid : Conditions,
                 seen : BOOLEAN, hash : Configs \cup {Absent}]
Server == [uid : Nat, spec : ServerSpecs, fin : BOOLEAN, deleting : BOOLEAN,
           status : ServerStatus]
Route == [spec : RouteSpecs, fin : BOOLEAN, deleting : BOOLEAN,
          Ready : Conditions, seen : BOOLEAN]
Upstream == [spec : UpstreamSpecs, fin : BOOLEAN, deleting : BOOLEAN,
             Ready : UpstreamConditions, seen : BOOLEAN,
             discovered : Backends]
\* A reconciler may change the spec of its copy to one no user would write.
UpstreamCopy == [spec : UpstreamSpecType, fin : BOOLEAN, deleting : BOOLEAN,
                 Ready : UpstreamConditions, seen : BOOLEAN,
                 discovered : Backends]
\* data: the rendered text of the ConfigMap, the pod template with its
\* config-hash annotation of the Deployment, the ports of the Service.
Child(k) == [data : IF k = "Service" THEN ServerSpecs ELSE Configs,
             owner : Nat, ready : BOOLEAN]
AnyChild == Child("ConfigMap") \cup Child("Service") \cup {Absent}
Pods == [hash : Configs, conf : Configs]

NewServer(n, spec) ==
  [uid |-> n, spec |-> spec, fin |-> FALSE, deleting |-> FALSE,
   status |-> [Ready |-> "None", ConfigValid |-> "None",
               seen |-> FALSE, hash |-> Absent]]
NewRoute(spec) ==
  [spec |-> spec, fin |-> FALSE, deleting |-> FALSE,
   Ready |-> "None", seen |-> FALSE]
NewUpstream(spec) ==
  [spec |-> spec, fin |-> FALSE, deleting |-> FALSE,
   Ready |-> "None", seen |-> FALSE, discovered |-> NoBackends]

\* What users, whoever reconciles, may go by: see ResourceLifecycle.
Lives(specs) == [spec : specs, fin : BOOLEAN, deleting : BOOLEAN]
Life(o) == IF Present(o)
             THEN [spec |-> o.spec, fin |-> o.fin, deleting |-> o.deleting]
             ELSE Absent

ASSUME AbsentAssumption ==
  /\ Absent \notin Server /\ Absent \notin Route /\ Absent \notin Upstream
  /\ Absent \notin Lives(ServerSpecs) /\ Absent \notin Lives(RouteSpecs)
  /\ Absent \notin Lives(UpstreamSpecs) /\ Absent \notin Services

-----------------------------------------------------------------------------
(***************************************************************************)
(* API writes.  "lost" is a write that was applied but whose reply never   *)
(* came, "noop" one that changes nothing: it succeeds, and no event comes  *)
(* of it.  An object being deleted goes once it has no finalizer left.     *)
(***************************************************************************)
Applied(r) == r \in {"ok", "lost"}
Succeeded(r) == r \in {"ok", "noop"}

Replies(current, effects) ==
  (IF current THEN effects ELSE {"conflict"})
    \cup (IF faults = MaxFaults \/ ~MoreEvents THEN {}
          ELSE {"error"} \cup {r \in {"lost"} : current /\ "ok" \in effects})

Stored(o) == IF o.deleting /\ ~o.fin THEN Absent ELSE o

\* What comes of an Update of a resource, by one who may have meant to change
\* something else: if the spec changes, the resource has a new generation.
UpdatedServer(o) ==
  [o EXCEPT !.spec = ServerDefaults[o.spec],
            !.status.seen = @ /\ ServerDefaults[o.spec] = o.spec]
UpdatedRoute(o) ==
  [o EXCEPT !.spec = RouteDefaults[o.spec],
            !.seen = @ /\ RouteDefaults[o.spec] = o.spec]
UpdatedUpstream(o) ==
  [o EXCEPT !.spec = UpstreamDefaults[o.spec],
            !.seen = @ /\ UpstreamDefaults[o.spec] = o.spec]

PutServer(s, o) == /\ srv' = [srv EXCEPT ![s] = Stored(o)]
                   /\ srvFresh' = [srvFresh EXCEPT ![s] = {}]
PutRoute(r, o) == /\ rt' = [rt EXCEPT ![r] = Stored(o)]
                  /\ rtFresh' = [rtFresh EXCEPT ![r] = {}]
PutUpstream(u, o) == /\ up' = [up EXCEPT ![u] = Stored(o)]
                     /\ upFresh' = [upFresh EXCEPT ![u] = {}]
PutChild(s, k, o) == /\ kid' = [kid EXCEPT ![s][k] = o]
                     /\ kidFresh' = [kidFresh EXCEPT ![s] = @ \ {k}]

Charge(reply) ==
  faults' = faults + (IF reply \in {"error", "lost"} THEN 1 ELSE 0)

\* A write of o over server s; `done` are the holders who then drop their copy.
WriteServer(s, o, reply, done) ==
  /\ Charge(reply)
  /\ IF Applied(reply)
       THEN PutServer(s, o)
       ELSE /\ srvFresh' = [srvFresh EXCEPT ![s] = @ \ done]
            /\ UNCHANGED srv
  /\ UNCHANGED srvC

WriteRoute(r, o, reply) ==
  /\ Charge(reply)
  /\ IF Applied(reply)
       THEN PutRoute(r, o)
       ELSE /\ rtFresh' = [rtFresh EXCEPT ![r] = @ \ {"reconciler"}]
            /\ UNCHANGED rt
  /\ UNCHANGED rtC

WriteUpstream(u, o, reply) ==
  /\ Charge(reply)
  /\ IF Applied(reply)
       THEN PutUpstream(u, o)
       ELSE /\ upFresh' = [upFresh EXCEPT ![u] = @ \ {"reconciler"}]
            /\ UNCHANGED up
  /\ UNCHANGED upC

WriteChild(s, k, o, reply) ==
  /\ Charge(reply)
  /\ IF Applied(reply) THEN PutChild(s, k, o) ELSE UNCHANGED <<kid, kidFresh>>
  /\ UNCHANGED kidC

\* Get by a reconciler: its copy is as current as the cache it came from.
TakeCopy(fresh, o) ==
  [fresh EXCEPT ![o] = @ \cup {h \in {"reconciler"} : "cache" \in @}]

-----------------------------------------------------------------------------
(***************************************************************************)
(* Users.                                                                  *)
(***************************************************************************)
UserOp(kind) == /\ kind \in users
                /\ ops < MaxOps /\ MoreEvents
                /\ ops' = ops + 1
                /\ UNCHANGED <<pods, users, crashes, faults>>

CreateServer(s, spec) ==
  /\ UserOp("createServer")
  /\ ~Present(srv[s])
  /\ born' = [born EXCEPT ![s] = @ + 1]
  /\ PutServer(s, NewServer(born[s] + 1, spec))
  /\ UNCHANGED <<srvC, routeVars, upstreamVars, kidVars, endpoints>>

EditServer(s, spec) ==
  /\ UserOp("editServer")
  /\ Present(srv[s]) /\ srv[s].spec # spec
  /\ PutServer(s, [srv[s] EXCEPT !.spec = spec, !.status.seen = FALSE])
  /\ UNCHANGED <<srvC, routeVars, upstreamVars, kidVars, born, endpoints>>

DeleteServer(s) ==
  /\ UserOp("deleteServer")
  /\ Present(srv[s]) /\ ~srv[s].deleting
  /\ PutServer(s, [srv[s] EXCEPT !.deleting = TRUE])
  /\ UNCHANGED <<srvC, routeVars, upstreamVars, kidVars, born, endpoints>>

CreateRoute(r, spec) ==
  /\ UserOp("createRoute")
  /\ ~Present(rt[r])
  /\ PutRoute(r, NewRoute(spec))
  /\ UNCHANGED <<rtC, serverVars, upstreamVars, kidVars, born, endpoints>>

EditRoute(r, spec) ==
  /\ Present(rt[r]) /\ rt[r].spec # spec
  /\ UserOp(IF rt[r].spec.serverRef = spec.serverRef THEN "editRoute"
                                                     ELSE "moveRoute")
  /\ PutRoute(r, [rt[r] EXCEPT !.spec = spec, !.seen = FALSE])
  /\ UNCHANGED <<rtC, serverVars, upstreamVars, kidVars, born, endpoints>>

DeleteRoute(r) ==
  /\ UserOp("deleteRoute")
  /\ Present(rt[r]) /\ ~rt[r].deleting
  /\ PutRoute(r, [rt[r] EXCEPT !.deleting = TRUE])
  /\ UNCHANGED <<rtC, serverVars, upstreamVars, kidVars, born, endpoints>>

CreateUpstream(u, spec) ==
  /\ UserOp("createUpstream")
  /\ ~Present(up[u])
  /\ PutUpstream(u, NewUpstream(spec))
  /\ UNCHANGED <<upC, serverVars, routeVars, kidVars, born, endpoints>>

EditUpstream(u, spec) ==
  /\ Present(up[u]) /\ up[u].spec # spec
  /\ UserOp(IF up[u].spec.serverRef = spec.serverRef THEN "editUpstream"
                                                     ELSE "moveUpstream")
  /\ PutUpstream(u, [up[u] EXCEPT !.spec = spec, !.seen = FALSE])
  /\ UNCHANGED <<upC, serverVars, routeVars, kidVars, born, endpoints>>

DeleteUpstream(u) ==
  /\ UserOp("deleteUpstream")
  /\ Present(up[u]) /\ ~up[u].deleting
  /\ PutUpstream(u, [up[u] EXCEPT !.deleting = TRUE])
  /\ UNCHANGED <<upC, serverVars, routeVars, kidVars, born, endpoints>>

\* The pods behind a Service come and go, and with them its Endpoints.  The
\* operator watches no Endpoints: their change is an event to nobody.
ScaleService(sv, b) ==
  /\ UserOp("scaleService")
  /\ endpoints[sv] # b
  /\ endpoints' = [endpoints EXCEPT ![sv] = b]
  /\ UNCHANGED <<serverVars, routeVars, upstreamVars, kidVars, born>>

\* Someone deletes an object the operator manages.
Tamper(s, k) ==
  /\ UserOp("tamper")
  /\ Present(kid[s][k])
  /\ PutChild(s, k, Absent)
  /\ UNCHANGED <<kidC, serverVars, routeVars, upstreamVars, born, endpoints>>

Users == \/ \E s \in Servers, spec \in ServerSpecs :
              CreateServer(s, spec) \/ EditServer(s, spec)
         \/ \E s \in Servers : DeleteServer(s)
         \/ \E r \in Routes, spec \in RouteSpecs :
              CreateRoute(r, spec) \/ EditRoute(r, spec)
         \/ \E r \in Routes : DeleteRoute(r)
         \/ \E u \in Upstreams, spec \in UpstreamSpecs :
              CreateUpstream(u, spec) \/ EditUpstream(u, spec)
         \/ \E u \in Upstreams : DeleteUpstream(u)
         \/ \E sv \in Services, b \in Backends \cup {Absent} : ScaleService(sv, b)
         \/ \E s \in Servers, k \in Kinds : Tamper(s, k)

-----------------------------------------------------------------------------
(***************************************************************************)
(* The controllers of Kubernetes itself.                                   *)
(***************************************************************************)
\* The garbage collector deletes a child whose owner, by uid, is gone; one
\* without an owner reference, 0, it leaves alone.
CollectGarbage(s, k) ==
  /\ Present(kid[s][k]) /\ kid[s][k].owner # 0
  /\ ~ (Present(srv[s]) /\ srv[s].uid = kid[s][k].owner)
  /\ PutChild(s, k, Absent)
  /\ UNCHANGED <<kidC, serverVars, routeVars, upstreamVars, envVars, faults>>

\* The Deployment controller replaces the pods when their template, the
\* config-hash annotation included, is no longer the Deployment's.  It starts one
\* more before it stops any (maxSurge 1, maxUnavailable 0), and until the new
\* ones are up not all of them are ready.
Surge(s) ==
  LET d == kid[s]["Deployment"]
  IN /\ Present(d) /\ d.ready
     /\ Present(pods[s]) /\ pods[s].hash # d.data
     /\ PutChild(s, "Deployment", [d EXCEPT !.ready = FALSE])
     /\ UNCHANGED <<kidC, serverVars, routeVars, upstreamVars, envVars, faults>>

\* New pods mount what the ConfigMap then holds; it is mounted with subPath, so
\* it does not change in a running pod.  Pods that cannot mount it do not start.
\* If the template is back to that of the old pods, these may stay.
Rollout(s) ==
  LET d == kid[s]["Deployment"]
      c == kid[s]["ConfigMap"]
  IN /\ Present(d) /\ Present(c) /\ ~d.ready
     /\ \E p \in {[hash |-> d.data, conf |-> c.data], pods[s]} :
          /\ Present(p) /\ p.hash = d.data
          /\ pods' = [pods EXCEPT ![s] = p]
     /\ PutChild(s, "Deployment", [d EXCEPT !.ready = TRUE])
     /\ UNCHANGED <<kidC, serverVars, routeVars, upstreamVars, born, endpoints,
                    users, ops, crashes, faults>>

Terminate(s) ==
  /\ ~Present(kid[s]["Deployment"]) /\ Present(pods[s])
  /\ pods' = [pods EXCEPT ![s] = Absent]
  /\ UNCHANGED <<kidVars, serverVars, routeVars, upstreamVars, born, endpoints,
                 users, ops, crashes, faults>>

Kubernetes == \E s \in Servers : \/ Surge(s) \/ Rollout(s) \/ Terminate(s)
                                 \/ \E k \in Kinds : CollectGarbage(s, k)

-----------------------------------------------------------------------------
(***************************************************************************)
(* Informers.  Which reconcilers an event wakes is for Operator to say.    *)
(***************************************************************************)
CatchUpServer(s) ==
  /\ "cache" \notin srvFresh[s]
  /\ srvC' = [srvC EXCEPT ![s] = srv[s]]
  /\ srvFresh' = [srvFresh EXCEPT ![s] = @ \cup {"cache"}]
  /\ UNCHANGED <<srv, routeVars, upstreamVars, kidVars, envVars, faults>>

CatchUpRoute(r) ==
  /\ "cache" \notin rtFresh[r]
  /\ rtC' = [rtC EXCEPT ![r] = rt[r]]
  /\ rtFresh' = [rtFresh EXCEPT ![r] = @ \cup {"cache"}]
  /\ UNCHANGED <<rt, serverVars, upstreamVars, kidVars, envVars, faults>>

CatchUpUpstream(u) ==
  /\ "cache" \notin upFresh[u]
  /\ upC' = [upC EXCEPT ![u] = up[u]]
  /\ upFresh' = [upFresh EXCEPT ![u] = @ \cup {"cache"}]
  /\ UNCHANGED <<up, serverVars, routeVars, kidVars, envVars, faults>>

CatchUpChild(s, k) ==
  /\ k \notin kidFresh[s]
  /\ kidC' = [kidC EXCEPT ![s][k] = kid[s][k]]
  /\ kidFresh' = [kidFresh EXCEPT ![s] = @ \cup {k}]
  /\ UNCHANGED <<kid, serverVars, routeVars, upstreamVars, envVars, faults>>

\* A new process lists every object before its reconcilers start.
RelistAll ==
  /\ crashes < MaxCrashes /\ MoreEvents
  /\ crashes' = crashes + 1
  /\ srvC' = srv /\ srvFresh' = [s \in Servers |-> {"cache"}]
  /\ rtC' = rt /\ rtFresh' = [r \in Routes |-> {"cache"}]
  /\ upC' = up /\ upFresh' = [u \in Upstreams |-> {"cache"}]
  /\ kidC' = kid /\ kidFresh' = [s \in Servers |-> Kinds]
  /\ UNCHANGED <<srv, rt, up, kid, pods, born, endpoints, users, ops, faults>>

-----------------------------------------------------------------------------
(***************************************************************************)
(* The operator starts on a cluster where users may already have created   *)
(* resources, which an earlier process of it may have adopted.             *)
(***************************************************************************)
ClusterInit ==
  /\ \E start \in Starts :
       /\ srv = [s \in Servers |->
                   IF Present(start.servers[s])
                   THEN [NewServer(1, start.servers[s]) EXCEPT !.fin = Adopted]
                   ELSE Absent]
       /\ rt = [r \in Routes |->
                  IF Present(start.routes[r])
                  THEN [NewRoute(start.routes[r]) EXCEPT !.fin = Adopted]
                  ELSE Absent]
       /\ up = [u \in Upstreams |->
                  IF Present(start.upstreams[u])
                  THEN [NewUpstream(start.upstreams[u]) EXCEPT !.fin = Adopted]
                  ELSE Absent]
       /\ endpoints = start.endpoints /\ users = start.users
  /\ srvC = srv /\ srvFresh = [s \in Servers |-> {"cache"}]
  /\ rtC = rt /\ rtFresh = [r \in Routes |-> {"cache"}]
  /\ upC = up /\ upFresh = [u \in Upstreams |-> {"cache"}]
  /\ kid = [s \in Servers |-> [k \in Kinds |-> Absent]]
  /\ kidC = kid /\ kidFresh = [s \in Servers |-> Kinds]
  /\ pods = [s \in Servers |-> Absent]
  /\ born = [s \in Servers |-> IF Present(srv[s]) THEN 1 ELSE 0]
  /\ ops = 0 /\ faults = 0 /\ crashes = 0

ServersTyped ==
  /\ srv \in [Servers -> Server \cup {Absent}]
  /\ srvC \in [Servers -> Server \cup {Absent}]
  /\ srvFresh \in [Servers -> SUBSET Holders]

RoutesTyped ==
  /\ rt \in [Routes -> Route \cup {Absent}]
  /\ rtC \in [Routes -> Route \cup {Absent}]
  /\ rtFresh \in [Routes -> SUBSET Holders]

\* A status is stored with the spec of an upstream that is there.
UpstreamsTyped ==
  /\ up \in [Upstreams -> Upstream \cup {Absent}]
  /\ upC \in [Upstreams -> Upstream \cup {Absent}]
  /\ upFresh \in [Upstreams -> SUBSET Holders]
  /\ \A u \in Upstreams : /\ "cache" \in upFresh[u] => upC[u] = up[u]
                          /\ "reconciler" \in upFresh[u] => Present(up[u])

ChildrenTyped ==
  /\ kid \in [Servers -> [Kinds -> AnyChild]]
  /\ kidC \in [Servers -> [Kinds -> AnyChild]]
  /\ \A s \in Servers, k \in Kinds : /\ kid[s][k] \in Child(k) \cup {Absent}
                                      /\ kidC[s][k] \in Child(k) \cup {Absent}
  /\ kidFresh \in [Servers -> SUBSET Kinds]

EnvironmentTyped ==
  /\ pods \in [Servers -> Pods \cup {Absent}]
  /\ born \in [Servers -> Nat]
  /\ endpoints \in [Services -> Backends \cup {Absent}]
  /\ users \subseteq UserOpNames
  /\ ops \in 0..MaxOps /\ crashes \in 0..MaxCrashes

ClusterTypeOK == /\ ServersTyped /\ RoutesTyped /\ UpstreamsTyped
                 /\ ChildrenTyped /\ EnvironmentTyped
                 /\ faults \in 0..MaxFaults
=============================================================================
