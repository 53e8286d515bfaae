-------------------------- MODULE LifecycleProofs ---------------------------
(***************************************************************************)
(* Operator implements ResourceLifecycle, for the NginxServers and for the *)
(* NginxRoutes, for every value of the constants.  The NginxUpstreams have *)
(* a module of their own.                                                  *)
(***************************************************************************)
EXTENDS OperatorProofs

\* What users do that is about upstreams.
UsersOnUpstreams ==
  \/ \E u \in Upstreams, spec \in UpstreamSpecs :
       CreateUpstream(u, spec) \/ EditUpstream(u, spec)
  \/ \E u \in Upstreams : DeleteUpstream(u)
  \/ \E sv \in Services, b \in Backends \cup {Absent} : ScaleService(sv, b)

-----------------------------------------------------------------------------
(***************************************************************************)
(* The inductive invariant of the servers.  A write is accepted of a copy  *)
(* that is current; it is right because what the step concluded from the   *)
(* copy is then true of the server.                                        *)
(***************************************************************************)
\* Who holds a current copy holds what the API holds.
ServerCopiesAreCurrent ==
  \A s \in Servers :
    /\ "cache" \in srvFresh[s] => srvC[s] = srv[s]
    /\ "reconciler" \in srvFresh[s] => sPc # "idle" /\ sKey = s /\ sObj = srv[s]

\* The step about to be taken fits the copy it is taken for.
ServerStepFits ==
  /\ sPc = "removeFinalizer" => sObj.deleting /\ sObj.fin
  /\ sPc \notin {"idle", "removeFinalizer"} => ~sObj.deleting

\* A server that is being deleted is there for its finalizer only.
DyingServersAreHeld ==
  \A s \in Servers : Present(srv[s]) /\ srv[s].deleting => srv[s].fin

ServersFit == ServerCopiesAreCurrent /\ ServerStepFits /\ DyingServersAreHeld

\* The operator starts with a cache that is current, and no reconcile.
LEMMA ServersFitInit == Init => ServersFit
<1> SUFFICES ASSUME Init PROVE ServersFit
  OBVIOUS
<1>1. PICK start \in Starts :
        srv = [s \in Servers |->
                 IF Present(start.servers[s])
                 THEN [NewServer(1, start.servers[s]) EXCEPT !.fin = Adopted]
                 ELSE Absent]
  BY DEF Init, ClusterInit
<1>2. DyingServersAreHeld
  BY <1>1 DEF DyingServersAreHeld, NewServer, Present
<1>3. ServerCopiesAreCurrent /\ ServerStepFits
  BY DEF Init, ClusterInit, ServerInit, ServerCopiesAreCurrent, ServerStepFits
<1> QED
  BY <1>2, <1>3 DEF ServersFit

\* Whoever stores a server takes everyone's copy out of date.
LEMMA PutServerFits ==
  ASSUME TypeOK, ServersFit, NEW s \in Servers, NEW o \in Server,
         PutServer(s, o), UNCHANGED <<srvC, serverLocals>>
  PROVE  ServersFit'
<1>1. ServersTyped
  BY DEF TypeOK, ClusterTypeOK
<1>2. DyingServersAreHeld'
  BY <1>1 DEF PutServer, Stored, ServersFit, DyingServersAreHeld, Present,
     ServersTyped, Server
<1>3. ServerCopiesAreCurrent'
  BY <1>1 DEF PutServer, ServersFit, ServerCopiesAreCurrent, ServersTyped,
     serverLocals
<1>4. ServerStepFits'
  BY DEF ServersFit, ServerStepFits, serverLocals
<1> QED
  BY <1>2, <1>3, <1>4 DEF ServersFit

\* The server reconciler writes, whatever comes of it, and returns.
LEMMA WriteServerFits ==
  ASSUME TypeOK, ServersFit, sPc # "idle", NEW o \in Server, NEW reply,
         WriteServer(sKey, o, reply, {"reconciler"}),
         NEW requeue, ServerReturn(requeue)
  PROVE  ServersFit'
<1>1. ServersTyped /\ sKey \in Servers
  BY DEF TypeOK, ClusterTypeOK, ServerTypeOK
<1>2. sPc' = "idle" /\ srvC' = srvC
  BY DEF ServerReturn, WriteServer
<1>3. ServerStepFits'
  BY <1>2 DEF ServerStepFits
<1>4. CASE Applied(reply)
  <2>1. PutServer(sKey, o)
    BY <1>4 DEF WriteServer
  <2>2. DyingServersAreHeld'
    BY <1>1, <2>1 DEF PutServer, Stored, ServersFit, DyingServersAreHeld,
       Present, ServersTyped, Server
  <2>3. ServerCopiesAreCurrent'
    BY <1>1, <1>2, <2>1 DEF PutServer, ServersFit, ServerCopiesAreCurrent,
       ServersTyped
  <2> QED
    BY <1>3, <2>2, <2>3 DEF ServersFit
<1>5. CASE ~Applied(reply)
  <2>1. /\ srvFresh' = [srvFresh EXCEPT ![sKey] = @ \ {"reconciler"}]
        /\ srv' = srv
    BY <1>5 DEF WriteServer
  <2>2. ServerCopiesAreCurrent'
    BY <1>1, <1>2, <2>1 DEF ServersFit, ServerCopiesAreCurrent, ServersTyped
  <2> QED
    BY <1>3, <2>1, <2>2 DEF ServersFit, DyingServersAreHeld
<1> QED
  BY <1>4, <1>5

\* A Get takes as good a copy as the cache has, and the step that fits it.
LEMMA FetchServerFits ==
  ASSUME TypeOK, ServersFit, NEW s \in Servers, FetchServer(s)
  PROVE  ServersFit'
<1>1. ServersTyped /\ sPc = "idle" /\ UNCHANGED <<srv, srvC>>
  BY DEF TypeOK, ClusterTypeOK, FetchServer
<1>2. DyingServersAreHeld'
  BY <1>1 DEF ServersFit, DyingServersAreHeld
<1>3. CASE UNCHANGED <<serverLocals, srvFresh>>
  BY <1>1, <1>2, <1>3 DEF ServersFit, ServerCopiesAreCurrent, ServerStepFits,
     serverLocals
<1>4. CASE /\ ~(srvC[s].deleting /\ ~srvC[s].fin) /\ Present(srvC[s])
           /\ sPc' = FirstServerStep(srvC[s])
           /\ sKey' = s /\ sObj' = srvC[s] /\ sCfg' = Absent
           /\ srvFresh' = TakeCopy(srvFresh, s)
  <2>1. srvC[s] \in Server
    BY <1>1, <1>4 DEF ServersTyped, Present
  <2>2. ServerStepFits' /\ sPc' # "idle"
    BY <1>4, <2>1 DEF ServerStepFits, FirstServerStep, Server
  <2>3. \A t \in Servers : "reconciler" \notin srvFresh[t]
    BY <1>1 DEF ServersFit, ServerCopiesAreCurrent
  <2>4. ServerCopiesAreCurrent'
    BY <1>1, <1>4, <2>2, <2>3 DEF ServersFit, ServerCopiesAreCurrent,
       ServersTyped, TakeCopy
  <2> QED
    BY <1>2, <2>2, <2>4 DEF ServersFit
<1> QED
  BY <1>3, <1>4 DEF FetchServer

\* The steps of a server's reconcile.
LEMMA ServerStepKeepsFit ==
  ASSUME TypeOK, ServersFit, ServerStep PROVE ServersFit'
<1>1. ServersTyped /\ ServerTypeOK
  BY DEF TypeOK, ClusterTypeOK
<1>2. sPc # "idle" => sKey \in Servers /\ sObj \in Server
                      /\ sObj.status \in ServerStatus
  BY <1>1 DEF ServerTypeOK, Server
<1>3. CASE ServerHandleDeletion \/ ServerAddFinalizer
  <2>1. sPc # "idle"
    BY <1>3 DEF ServerHandleDeletion, ServerAddFinalizer
  <2>2. \A b \in BOOLEAN : UpdatedServer([sObj EXCEPT !.fin = b]) \in Server
    <3> TAKE b \in BOOLEAN
    <3>1. [sObj EXCEPT !.fin = b] \in Server
      BY <1>2, <2>1 DEF Server
    <3> QED
      BY <3>1, UpdatedServerTyped
  <2> QED
    BY <1>3, <2>1, <2>2, WriteServerFits
       DEF ServerHandleDeletion, ServerAddFinalizer
<1>4. ASSUME sPc # "idle", NEW status \in ServerStatus, NEW stamped, NEW reply,
             WriteServerStatus(status, stamped, reply),
             NEW requeue, ServerReturn(requeue)
      PROVE  ServersFit'
  <2>1. [sObj EXCEPT !.status = status] \in Server
    BY <1>2, <1>4 DEF Server
  <2> QED
    BY <1>4, <2>1, WriteServerFits DEF WriteServerStatus
<1>5. CASE ServerNotValid
  <2>1. sPc # "idle"
    BY <1>5 DEF ServerNotValid
  <2>2. [sObj.status EXCEPT !.Ready = "False", !.seen = TRUE] \in ServerStatus
    BY <1>2, <2>1 DEF ServerStatus, Conditions
  <2> QED
    BY <1>4, <1>5, <2>1, <2>2 DEF ServerNotValid
<1>6. CASE ServerNotGenerated
  <2>1. sPc # "idle"
    BY <1>6 DEF ServerNotGenerated
  <2>2. [sObj.status EXCEPT !.ConfigValid = "False"] \in ServerStatus
    BY <1>2, <2>1 DEF ServerStatus, Conditions
  <2> QED
    BY <1>4, <1>6, <2>1, <2>2 DEF ServerNotGenerated
<1>7. CASE UpdateStatus
  <2>1. sPc = "status" /\ sPc # "idle"
    BY <1>7 DEF UpdateStatus
  <2>2. sCfg \in Configs
    BY <1>1, <2>1 DEF ServerTypeOK
  <2>3. \A b \in {"True", "False"} :
          [Ready |-> b, ConfigValid |-> "True", seen |-> TRUE, hash |-> sCfg]
            \in ServerStatus
    BY <2>2 DEF ServerStatus, Conditions
  <2> QED
    BY <1>4, <1>7, <2>1, <2>3 DEF UpdateStatus
<1>8. CASE GenerateFullConfig
  <2>1. /\ sPc = "list" /\ sPc' \in {"notGenerated", "ConfigMap"}
        /\ UNCHANGED <<sKey, sObj, serverVars>>
    BY <1>8 DEF GenerateFullConfig, clusterVars
  <2> QED
    BY <2>1 DEF ServersFit, ServerCopiesAreCurrent, ServerStepFits,
       DyingServersAreHeld, serverVars
<1>9. ASSUME NEW k \in Kinds, ReconcileChild(k) PROVE ServersFit'
  <2>1. /\ sPc \notin {"idle", "removeFinalizer"} /\ sKey \in Servers
        /\ UNCHANGED <<srv, srvC>>
        /\ sPc' = "idle" =>
             srvFresh' = [srvFresh EXCEPT ![sKey] = @ \ {"reconciler"}]
        /\ sPc' # "idle" => srvFresh' = srvFresh
    BY <1>2, <1>9, ClusterAssumption DEF ReconcileChild
  <2>2. \/ sPc' = "idle"
        \/ sPc' \in {"Deployment", "Service", "status"} /\ UNCHANGED <<sKey, sObj>>
    BY <1>9 DEF ReconcileChild, ServerReturn, ServerContinue, StepAfter
  <2>3. ServerCopiesAreCurrent'
    BY <1>1, <2>1, <2>2 DEF ServersFit, ServerCopiesAreCurrent, ServersTyped
  <2>4. ServerStepFits' /\ DyingServersAreHeld'
    BY <2>1, <2>2 DEF ServersFit, ServerStepFits, DyingServersAreHeld
  <2> QED
    BY <2>3, <2>4 DEF ServersFit
<1> QED
  BY <1>3, <1>5, <1>6, <1>7, <1>8, <1>9 DEF ServerStep

\* A touch of a server, by another controller, from the cached copy.
LEMMA TriggerServerReconcileFits ==
  ASSUME TypeOK, ServersFit, NEW s \in Servers, Present(srvC[s]), NEW reply,
         TriggerServerReconcile(s, reply), UNCHANGED serverLocals
  PROVE  ServersFit'
<1>1. ServersTyped /\ srvC[s] \in Server
  BY DEF TypeOK, ClusterTypeOK, ServersTyped, Present
<1>1a. UpdatedServer(srvC[s]) \in Server
  BY <1>1, UpdatedServerTyped
<1>2. srvC' = srvC
  BY DEF TriggerServerReconcile, WriteServer
<1>3. CASE Applied(reply)
  BY <1>1a, <1>2, <1>3, PutServerFits DEF TriggerServerReconcile, WriteServer
<1>4. CASE ~Applied(reply)
  <2>1. srv' = srv /\ srvFresh' = srvFresh
    BY <1>1, <1>4 DEF TriggerServerReconcile, WriteServer, ServersTyped
  <2> QED
    BY <1>2, <2>1 DEF ServersFit, ServerCopiesAreCurrent, ServerStepFits,
       DyingServersAreHeld, serverLocals
<1> QED
  BY <1>3, <1>4

\* What a step of a route's reconcile may do to the servers.
LEMMA RouteStepOnServers ==
  ASSUME TypeOK, RouteStep
  PROVE  \/ UNCHANGED serverVars
         \/ \E s \in Servers : /\ Present(srvC[s])
                               /\ \E reply : TriggerServerReconcile(s, reply)
<1>1. rPc # "idle" => rObj.spec.serverRef \in Servers
  BY ClusterAssumption
     DEF TypeOK, RouteTypeOK, Route, RouteSpecType
<1>2. CASE RouteAddFinalizer \/ RouteRemoveFinalizer
  BY <1>2 DEF RouteAddFinalizer, RouteRemoveFinalizer
<1>3. CASE RouteNotReady \/ RouteReady
  BY <1>3 DEF RouteNotReady, RouteReady, WriteRouteStatus
<1>4. CASE Trigger
  BY <1>1, <1>4 DEF Trigger
<1>5. CASE TriggerThenRemove
  BY <1>1, <1>5 DEF TriggerThenRemove
<1> QED
  BY <1>2, <1>3, <1>4, <1>5 DEF RouteStep

\* What a step of an upstream's reconcile may do to the servers.
LEMMA UpstreamStepOnServers ==
  ASSUME TypeOK, UpstreamStep
  PROVE  \/ UNCHANGED serverVars
         \/ \E s \in Servers : /\ Present(srvC[s])
                               /\ \E reply : TriggerServerReconcile(s, reply)
<1>1. uPc # "idle" => uObj.spec.serverRef \in Servers
  BY ClusterAssumption
     DEF TypeOK, UpstreamTypeOK, UpstreamCopy, UpstreamSpecType
<1>2. CASE UpstreamAddFinalizer \/ UpstreamRemoveFinalizer
  BY <1>2 DEF UpstreamAddFinalizer, UpstreamRemoveFinalizer
<1>3. CASE UpstreamNotReady \/ UpstreamReady
  BY <1>3 DEF UpstreamNotReady, UpstreamReady, WriteUpstreamStatus
<1>4. CASE ResolveAndTrigger
  BY <1>1, <1>4, TouchServerIsTrigger DEF ResolveAndTrigger
<1>5. CASE UpstreamTriggerThenRemove
  BY <1>1, <1>5, TouchServerIsTrigger DEF UpstreamTriggerThenRemove
<1> QED
  BY <1>2, <1>3, <1>4, <1>5 DEF UpstreamStep

\* Whatever users do is counted.
LEMMA UsersAsk ==
  ASSUME TypeOK, Users PROVE ops' # ops
<1>1. ops \in Nat
  BY ClusterAssumption DEF TypeOK, ClusterTypeOK, EnvironmentTyped
<1>2. ops' = ops + 1
  BY DEF Users, UserOp, CreateServer, EditServer, DeleteServer, CreateRoute,
     EditRoute, DeleteRoute, CreateUpstream, EditUpstream, DeleteUpstream,
     ScaleService, Tamper
<1> QED
  BY <1>1, <1>2

\* What the operator does, Kubernetes or an informer, is not.
LEMMA OthersDoNotAsk ==
  ASSUME TypeOK,
         \/ ServerController \/ RouteController \/ UpstreamController
         \/ Kubernetes \/ Events \/ Restart \/ UNCHANGED vars
  PROVE  ops' = ops
<1>1. CASE ServerController
  BY <1>1, ServerStepTyped DEF ServerController, FetchServer, envVars
<1>2. CASE RouteController
  BY <1>2, RouteStepTyped DEF RouteController, FetchRoute, envVars
<1>3. CASE UpstreamController
  BY <1>3, UpstreamStepTyped DEF UpstreamController, FetchUpstream, envVars
<1>4. CASE Kubernetes
  BY <1>4 DEF Kubernetes, Surge, Rollout, Terminate, CollectGarbage, envVars
<1>5. CASE Events
  BY <1>5 DEF Events, ServerEvent, CatchUpServer, RouteEvent, CatchUpRoute,
     UpstreamEvent, CatchUpUpstream, ChildEvent, CatchUpChild, envVars
<1>6. CASE Restart \/ UNCHANGED vars
  BY <1>6 DEF Restart, RelistAll, vars, clusterVars, envVars
<1> QED
  BY <1>1, <1>2, <1>3, <1>4, <1>5, <1>6

\* What users may do to the servers.
LEMMA UsersWriteServers ==
  ASSUME TypeOK, Users
  PROVE  /\ srvC' = srvC
         /\ \/ UNCHANGED serverVars
            \/ \E s \in Servers, o \in Server : PutServer(s, o)
<1>1. ServersTyped /\ born \in [Servers -> Nat]
  BY DEF TypeOK, ClusterTypeOK, EnvironmentTyped
<1>2. \A s \in Servers : Present(srv[s]) => srv[s] \in Server
  BY <1>1 DEF ServersTyped, Present
<1>3. ASSUME NEW s \in Servers, NEW spec \in ServerSpecs,
             CreateServer(s, spec) \/ EditServer(s, spec)
      PROVE  srvC' = srvC /\ \E o \in Server : PutServer(s, o)
  <2>1. NewServer(born[s] + 1, spec) \in Server
    BY <1>1 DEF NewServer, Server, ServerStatus, Conditions
  <2>2. Present(srv[s]) =>
          [srv[s] EXCEPT !.spec = spec, !.status.seen = FALSE] \in Server
    BY <1>2 DEF Server, ServerStatus
  <2> QED
    BY <1>3, <2>1, <2>2 DEF CreateServer, EditServer
<1>4. ASSUME NEW s \in Servers, DeleteServer(s)
      PROVE  srvC' = srvC /\ \E o \in Server : PutServer(s, o)
  <2>1. [srv[s] EXCEPT !.deleting = TRUE] \in Server
    BY <1>2, <1>4 DEF DeleteServer, Server
  <2> QED
    BY <1>4, <2>1 DEF DeleteServer
<1>5. ASSUME NEW r \in Routes, NEW spec \in RouteSpecs,
             CreateRoute(r, spec) \/ EditRoute(r, spec) \/ DeleteRoute(r)
      PROVE  UNCHANGED serverVars
  BY <1>5 DEF CreateRoute, EditRoute, DeleteRoute
<1>6. ASSUME NEW r \in Routes, DeleteRoute(r) PROVE UNCHANGED serverVars
  BY <1>6 DEF DeleteRoute
<1>8. CASE UsersOnUpstreams
  BY <1>8 DEF UsersOnUpstreams, CreateUpstream, EditUpstream, DeleteUpstream,
     ScaleService, serverVars
<1>7. ASSUME NEW s \in Servers, NEW k \in Kinds, Tamper(s, k)
      PROVE  UNCHANGED serverVars
  BY <1>7 DEF Tamper
<1> QED
  BY <1>3, <1>4, <1>5, <1>6, <1>7, <1>8 DEF Users, UsersOnUpstreams, serverVars

\* ServersFit survives every step.
LEMMA ServersFitNext ==
  ASSUME TypeOK, ServersFit, [Next]_vars PROVE ServersFit'
<1>1. ASSUME UNCHANGED <<serverVars, serverLocals>> PROVE ServersFit'
  BY <1>1 DEF ServersFit, ServerCopiesAreCurrent, ServerStepFits,
     DyingServersAreHeld, serverVars, serverLocals
<1>2. CASE ServerController
  BY <1>2, FetchServerFits, ServerStepKeepsFit DEF ServerController
<1>3. CASE RouteController
  <2>1. UNCHANGED serverLocals
    BY <1>3 DEF RouteController, serverControllerVars
  <2>2. ASSUME NEW r \in Routes, FetchRoute(r) PROVE UNCHANGED serverVars
    BY <2>2 DEF FetchRoute
  <2> QED
    BY <1>1, <1>3, <2>1, <2>2, RouteStepOnServers, TriggerServerReconcileFits
       DEF RouteController
<1>10. CASE UpstreamController
  <2>1. UNCHANGED serverLocals
    BY <1>10 DEF UpstreamController, serverControllerVars
  <2>2. ASSUME NEW u \in Upstreams, FetchUpstream(u) PROVE UNCHANGED serverVars
    BY <2>2 DEF FetchUpstream
  <2> QED
    BY <1>1, <1>10, <2>1, <2>2, UpstreamStepOnServers, TriggerServerReconcileFits
       DEF UpstreamController
<1>4. CASE Environment /\ Users
  <2>1. UNCHANGED serverLocals
    BY <1>4 DEF Environment, serverControllerVars
  <2> QED
    BY <1>1, <1>4, <2>1, UsersWriteServers, PutServerFits
<1>5. CASE Environment /\ Kubernetes
  <2>1. UNCHANGED serverLocals
    BY <1>5 DEF Environment, serverControllerVars
  <2>2. UNCHANGED serverVars
    BY <1>5 DEF Kubernetes, Surge, Rollout, Terminate, CollectGarbage
  <2> QED
    BY <1>1, <2>1, <2>2
<1>6. ASSUME NEW s \in Servers, ServerEvent(s) PROVE ServersFit'
  <2>1. ServersTyped /\ UNCHANGED serverLocals
    BY <1>6 DEF TypeOK, ClusterTypeOK, ServerEvent
  <2> QED
    BY <1>6, <2>1 DEF ServerEvent, CatchUpServer, ServersFit,
       ServerCopiesAreCurrent, ServerStepFits, DyingServersAreHeld,
       ServersTyped, serverLocals
<1>7. CASE \/ \E r \in Routes : RouteEvent(r)
           \/ \E u \in Upstreams : UpstreamEvent(u)
           \/ \E s \in Servers, k \in Kinds : ChildEvent(s, k)
  BY <1>1, <1>7 DEF RouteEvent, CatchUpRoute, UpstreamEvent, CatchUpUpstream,
     ChildEvent, CatchUpChild, serverControllerVars
<1>8. CASE Restart
  BY <1>8 DEF Restart, RelistAll, ServersFit, ServerCopiesAreCurrent,
     ServerStepFits, DyingServersAreHeld
<1>9. CASE UNCHANGED vars
  BY <1>1, <1>9 DEF vars, clusterVars, serverControllerVars
<1> QED
  BY <1>2, <1>3, <1>4, <1>5, <1>6, <1>7, <1>8, <1>9, <1>10
     DEF Next, Events, Environment

-----------------------------------------------------------------------------
(***************************************************************************)
(* The servers live the life of ResourceLifecycle.                         *)
(***************************************************************************)
\* A write shows in the life of its server only.
LEMMA PutServerLife ==
  ASSUME ServersTyped, NEW s \in Servers, NEW o, PutServer(s, o)
  PROVE  ServerLives' = [ServerLives EXCEPT ![s] = Life(Stored(o))]
BY DEF ServersTyped, PutServer, ServerLives

\* A write that keeps spec, finalizer and deletion timestamp does not show.
LEMMA PutServerSilently ==
  ASSUME TypeOK, ServersFit, NEW s \in Servers, srv[s] \in Server,
         NEW o \in Server, PutServer(s, o),
         o.spec = srv[s].spec, o.fin = srv[s].fin, o.deleting = srv[s].deleting
  PROVE  UNCHANGED ServerLives
<1>1. ServersTyped /\ Present(srv[s]) /\ Present(o)
  BY AbsentAssumption DEF TypeOK, ClusterTypeOK, Present
<1>2. Stored(o) = o
  BY <1>1 DEF Stored, ServersFit, DyingServersAreHeld
<1>3. Life(o) = ServerLives[s]
  BY <1>1 DEF Life, ServerLives
<1>4. ServerLives' = [ServerLives EXCEPT ![s] = Life(o)]
  BY <1>1, <1>2, PutServerLife
<1> QED
  BY <1>3, <1>4 DEF ServerLives

\* EXCEPT, on the spec of a life.
LEMMA LifeEdited ==
  ASSUME NEW a, NEW b, NEW c, NEW x,
         NEW life, life = [spec |-> a, fin |-> b, deleting |-> c]
  PROVE  [life EXCEPT !.spec = x] = [spec |-> x, fin |-> b, deleting |-> c]
OBVIOUS

\* The API accepts a write of a current copy only.
LEMMA AppliedIsCurrent ==
  ASSUME NEW current \in BOOLEAN, NEW effects \in SUBSET {"ok", "noop"},
         NEW reply \in Replies(current, effects), Applied(reply)
  PROVE  current
BY DEF Replies, Applied

\* Users create, edit and delete servers; everything else they do is silent.
LEMMA UsersLiveServers ==
  ASSUME TypeOK, ServersFit, Users
  PROVE  ServerLife!Asked
<1>1. ServersTyped
  BY DEF TypeOK, ClusterTypeOK
<1>2. \A s \in Servers : Present(srv[s]) => srv[s] \in Server
  BY <1>1 DEF ServersTyped, Present
<1>3. \A s \in Servers : Present(srv[s]) =>
         /\ ServerLives[s] = [spec |-> srv[s].spec, fin |-> srv[s].fin,
                              deleting |-> srv[s].deleting]
         /\ ServerLives[s] # Absent
  BY <1>2, AbsentAssumption DEF ServerLives, Life, Lives, Server
<1>4. ASSUME UNCHANGED srv PROVE UNCHANGED ServerLives
  BY <1>4 DEF ServerLives
<1>5. ASSUME NEW s \in Servers, NEW spec \in ServerSpecs, CreateServer(s, spec)
      PROVE  ServerLife!Create(s, spec)
  <2> DEFINE o == NewServer(born[s] + 1, spec)
  <2>1. o.spec = spec /\ o.fin = FALSE /\ o.deleting = FALSE
    BY DEF NewServer
  <2>2. PutServer(s, o) /\ ~Present(srv[s])
    BY <1>5 DEF CreateServer
  <2>3. born[s] + 1 \in Nat
    BY DEF TypeOK, ClusterTypeOK, EnvironmentTyped
  <2>4. o \in Server
    BY <2>3 DEF NewServer, Server, ServerStatus, Conditions
  <2> HIDE DEF o
  <2>5. Life(Stored(o)) = [spec |-> spec, fin |-> FALSE, deleting |-> FALSE]
    BY <2>1, <2>4, AbsentAssumption DEF Stored, Life, Present
  <2>6. ServerLives[s] = Absent
    BY <2>2 DEF ServerLives, Life
  <2> QED
    BY <1>1, <2>2, <2>5, <2>6, PutServerLife
       DEF ServerLife!Create, ServerLife!Exists, ServerLife!Become
<1>6. ASSUME NEW s \in Servers, NEW spec \in ServerSpecs, EditServer(s, spec)
      PROVE  ServerLife!Edit(s, spec)
  <2> DEFINE o == [srv[s] EXCEPT !.spec = spec, !.status.seen = FALSE]
  <2>1. PutServer(s, o) /\ Present(srv[s]) /\ srv[s] \in Server
    BY <1>2, <1>6 DEF EditServer
  <2>2. /\ o \in Server /\ o.spec = spec /\ o.fin = srv[s].fin
        /\ o.deleting = srv[s].deleting
    BY <2>1 DEF Server, ServerStatus
  <2> HIDE DEF o
  <2>3. Stored(o) = o
    BY <2>1, <2>2 DEF Stored, ServersFit, DyingServersAreHeld
  <2>4. Life(o) = [spec |-> spec, fin |-> srv[s].fin,
                   deleting |-> srv[s].deleting]
    BY <2>2, AbsentAssumption DEF Life, Present
  <2>5. ServerLives[s] = [spec |-> srv[s].spec, fin |-> srv[s].fin,
                          deleting |-> srv[s].deleting]
    BY <1>3, <2>1
  <2>6. Life(o) = [ServerLives[s] EXCEPT !.spec = spec]
    BY <2>4, <2>5, LifeEdited
  <2>7. ServerLives' = [ServerLives EXCEPT ![s] = Life(o)]
    BY <1>1, <2>1, <2>3, PutServerLife
  <2>8. ServerLives[s] # Absent
    BY <1>3, <2>1
  <2> QED
    BY <2>6, <2>7, <2>8
       DEF ServerLife!Edit, ServerLife!Exists, ServerLife!Become
<1>7. ASSUME NEW s \in Servers, DeleteServer(s)
      PROVE  ServerLife!RequestDeletion(s)
  <2> DEFINE o == [srv[s] EXCEPT !.deleting = TRUE]
  <2>1. /\ PutServer(s, o) /\ Present(srv[s]) /\ srv[s] \in Server
        /\ ~srv[s].deleting
    BY <1>2, <1>7 DEF DeleteServer
  <2>2. /\ o \in Server /\ o.spec = srv[s].spec /\ o.fin = srv[s].fin
        /\ o.deleting = TRUE
    BY <2>1 DEF Server
  <2> HIDE DEF o
  <2>3. /\ ServerLives[s] = [spec |-> srv[s].spec, fin |-> srv[s].fin,
                             deleting |-> srv[s].deleting]
        /\ ServerLives[s] # Absent
    BY <1>3, <2>1
  <2>4. ServerLives' = [ServerLives EXCEPT ![s] = Life(Stored(o))]
    BY <1>1, <2>1, PutServerLife
  <2>5. CASE o.fin
    <3>1. Stored(o) = o
      BY <2>5 DEF Stored
    <3>2. Life(o) = [spec |-> srv[s].spec, fin |-> TRUE, deleting |-> TRUE]
      BY <2>2, <2>5, AbsentAssumption DEF Life, Present, Server
    <3> QED
      BY <2>1, <2>2, <2>3, <2>4, <2>5, <3>1, <3>2
         DEF ServerLife!RequestDeletion, ServerLife!Exists, ServerLife!Become
  <2>6. CASE ~o.fin
    <3>1. Life(Stored(o)) = Absent
      BY <2>2, <2>6 DEF Stored, Life, Present
    <3> QED
      BY <2>1, <2>2, <2>3, <2>4, <2>6, <3>1
         DEF ServerLife!RequestDeletion, ServerLife!Exists, ServerLife!Become
  <2> QED
    BY <2>5, <2>6
<1>8. ASSUME NEW r \in Routes,
             \/ \E spec \in RouteSpecs : CreateRoute(r, spec) \/ EditRoute(r, spec)
             \/ DeleteRoute(r)
      PROVE  UNCHANGED ServerLives
  BY <1>4, <1>8 DEF CreateRoute, EditRoute, DeleteRoute, serverVars
<1>9. ASSUME NEW s \in Servers, NEW k \in Kinds, Tamper(s, k)
      PROVE  UNCHANGED ServerLives
  BY <1>4, <1>9 DEF Tamper, serverVars
<1>10. UsersOnUpstreams => UNCHANGED ServerLives
  BY <1>4 DEF UsersOnUpstreams, CreateUpstream, EditUpstream, DeleteUpstream,
     ScaleService, serverVars
<1>11. ASSUME NEW s \in Servers, NEW spec \in ServerSpecs,
              CreateServer(s, spec) \/ EditServer(s, spec)
       PROVE  ServerLife!Asked
  BY <1>5, <1>6, <1>11 DEF ServerLife!Asked
<1>12. ASSUME NEW s \in Servers, DeleteServer(s) PROVE ServerLife!Asked
  BY <1>7, <1>12 DEF ServerLife!Asked
<1>13. ASSUME UNCHANGED ServerLives PROVE ServerLife!Asked
  BY <1>13 DEF ServerLife!Asked
<1> QED
  BY <1>8, <1>9, <1>10, <1>11, <1>12, <1>13 DEF Users, UsersOnUpstreams

\* The server controller adopts servers that live and lets go of those that
\* were deleted; its other writes, all of conditions, are silent.
LEMMA ControllerLivesServers ==
  ASSUME TypeOK, ServersFit, ServerStep
  PROVE  ServerLife!Unasked \/ UNCHANGED ServerLives
<1>1. ServersTyped /\ ServerTypeOK /\ ServerCurrent \in BOOLEAN
  BY DEF TypeOK, ClusterTypeOK, ServerCurrent
<1>2. sPc # "idle" => /\ sKey \in Servers /\ sObj \in Server
                      /\ sObj.status \in ServerStatus
  BY <1>1 DEF ServerTypeOK, Server
<1>3. ASSUME UNCHANGED srv PROVE UNCHANGED ServerLives
  BY <1>3 DEF ServerLives
<1>4. ASSUME NEW effects \in SUBSET {"ok", "noop"},
             NEW reply \in Replies(ServerCurrent, effects), Applied(reply),
             sPc # "idle"
      PROVE  /\ sObj = srv[sKey] /\ srv[sKey] # Absent
             /\ ServerLives[sKey] = [spec |-> sObj.spec, fin |-> sObj.fin,
                                     deleting |-> sObj.deleting]
             /\ ServerLives[sKey] # Absent
  <2>1. ServerCurrent
    BY <1>1, <1>4, AppliedIsCurrent
  <2>2. sObj = srv[sKey]
    BY <1>2, <1>4, <2>1 DEF ServersFit, ServerCopiesAreCurrent, ServerCurrent
  <2>3. srv[sKey] # Absent
    BY <1>2, <1>4, <2>2, AbsentAssumption
  <2>4. ServerLives[sKey] = [spec |-> sObj.spec, fin |-> sObj.fin,
                             deleting |-> sObj.deleting]
    BY <1>2, <1>4, <2>2, <2>3 DEF ServerLives, Life, Present
  <2>5. ServerLives[sKey] \in Lives(ServerSpecs)
    BY <1>2, <1>4, <2>4 DEF Lives, Server
  <2> QED
    BY <2>2, <2>3, <2>4, <2>5, AbsentAssumption
<1>5. CASE ServerHandleDeletion
  <2>1. PICK reply \in Replies(ServerCurrent, {"ok"}) :
          WriteServer(sKey, UpdatedServer([sObj EXCEPT !.fin = FALSE]), reply,
                      {"reconciler"})
    BY <1>5 DEF ServerHandleDeletion
  <2>2. sPc # "idle" /\ sObj.deleting /\ sObj.fin
    BY <1>5 DEF ServerHandleDeletion, ServersFit, ServerStepFits
  <2>3. CASE Applied(reply)
    <3> DEFINE c == [sObj EXCEPT !.fin = FALSE]
               o == UpdatedServer(c)
    <3>0. c \in Server /\ c.deleting /\ ~c.fin
      BY <1>2, <2>2 DEF Server
    <3> HIDE DEF c
    <3>1. o.deleting /\ ~o.fin
      BY <3>0, UpdatedServerTyped
    <3> USE DEF c
    <3>2. PutServer(sKey, o)
      BY <2>1, <2>3 DEF WriteServer
    <3> HIDE DEF o
    <3>3. Stored(o) = Absent /\ Life(Stored(o)) = Absent
      BY <3>1 DEF Stored, Life, Present
    <3>4. ServerLives' = [ServerLives EXCEPT ![sKey] = Absent]
      BY <1>1, <1>2, <2>2, <3>2, <3>3, PutServerLife
    <3>5. /\ ServerLives[sKey] # Absent /\ ServerLives[sKey].deleting
          /\ ServerLives[sKey].fin
      BY <1>4, <2>2, <2>3
    <3> QED
      BY <1>2, <2>2, <3>4, <3>5
         DEF ServerLife!Unasked, ServerLife!Release, ServerLife!Exists,
             ServerLife!Become
  <2> QED
    BY <1>3, <2>1, <2>3 DEF WriteServer
<1>6. CASE ServerAddFinalizer
  <2>1. PICK reply \in Replies(ServerCurrent, {"ok"}) :
          WriteServer(sKey, UpdatedServer([sObj EXCEPT !.fin = TRUE]), reply,
                      {"reconciler"})
    BY <1>6 DEF ServerAddFinalizer
  <2>2. sPc # "idle" /\ ~sObj.deleting
    BY <1>6 DEF ServerAddFinalizer, ServersFit, ServerStepFits
  <2>3. CASE Applied(reply)
    <3> DEFINE c == [sObj EXCEPT !.fin = TRUE]
               o == UpdatedServer(c)
    <3>0. /\ c \in Server /\ c.spec = sObj.spec /\ c.fin = TRUE
          /\ c.deleting = sObj.deleting
      BY <1>2, <2>2 DEF Server
    <3> HIDE DEF c
    <3>1. /\ o \in Server /\ o.spec = ServerDefaults[sObj.spec] /\ o.fin = TRUE
          /\ o.deleting = sObj.deleting
      BY <3>0, UpdatedServerTyped
    <3> USE DEF c
    <3>2. PutServer(sKey, o)
      BY <2>1, <2>3 DEF WriteServer
    <3> HIDE DEF o
    <3>3. Stored(o) = o
      BY <2>2, <3>1 DEF Stored
    <3>4. Life(o) = [spec |-> ServerDefaults[sObj.spec], fin |-> TRUE,
                     deleting |-> FALSE]
      BY <1>2, <2>2, <3>1, AbsentAssumption DEF Life, Present, Server
    <3>5. /\ ServerLives[sKey].spec = sObj.spec
          /\ ~ServerLives[sKey].deleting
          /\ ServerLives[sKey] # Absent
      BY <1>4, <2>2, <2>3
    <3>6. ServerLives' = [ServerLives EXCEPT ![sKey] = Life(o)]
      BY <1>1, <1>2, <2>2, <3>2, <3>3, PutServerLife
    <3> QED
      BY <1>2, <2>2, <3>4, <3>5, <3>6
         DEF ServerLife!Unasked, ServerLife!Adopt, ServerLife!Exists,
             ServerLife!Become
  <2> QED
    BY <1>3, <2>1, <2>3 DEF WriteServer
<1>7. ASSUME sPc # "idle", NEW status \in ServerStatus, NEW stamped, NEW reply,
             WriteServerStatus(status, stamped, reply)
      PROVE  UNCHANGED ServerLives
  <2> DEFINE o == [sObj EXCEPT !.status = status]
  <2>1. /\ o \in Server /\ o.spec = sObj.spec /\ o.fin = sObj.fin
        /\ o.deleting = sObj.deleting
    BY <1>2, <1>7 DEF Server
  <2>2. WriteServer(sKey, o, reply, {"reconciler"})
    BY <1>7 DEF WriteServerStatus
  <2>3. \E effects \in SUBSET {"ok", "noop"} :
          reply \in Replies(ServerCurrent, effects)
    BY <1>7 DEF WriteServerStatus, StatusReplies
  <2> HIDE DEF o
  <2>4. CASE Applied(reply)
    <3>1. PutServer(sKey, o)
      BY <2>2, <2>4 DEF WriteServer
    <3>2. sObj = srv[sKey]
      BY <1>4, <1>7, <2>3, <2>4
    <3> QED
      BY <1>2, <1>7, <2>1, <3>1, <3>2, PutServerSilently
  <2> QED
    BY <1>3, <2>2, <2>4 DEF WriteServer
<1>8. CASE ServerNotValid
  <2>1. sPc # "idle"
    BY <1>8 DEF ServerNotValid
  <2>2. [sObj.status EXCEPT !.Ready = "False", !.seen = TRUE] \in ServerStatus
    BY <1>2, <2>1 DEF ServerStatus, Conditions
  <2> QED
    BY <1>7, <1>8, <2>1, <2>2 DEF ServerNotValid
<1>9. CASE ServerNotGenerated
  <2>1. sPc # "idle"
    BY <1>9 DEF ServerNotGenerated
  <2>2. [sObj.status EXCEPT !.ConfigValid = "False"] \in ServerStatus
    BY <1>2, <2>1 DEF ServerStatus, Conditions
  <2> QED
    BY <1>7, <1>9, <2>1, <2>2 DEF ServerNotGenerated
<1>10. CASE UpdateStatus
  <2>1. sPc = "status" /\ sPc # "idle"
    BY <1>10 DEF UpdateStatus
  <2>2. sCfg \in Configs
    BY <1>1, <2>1 DEF ServerTypeOK
  <2>3. \A b \in {"True", "False"} :
          [Ready |-> b, ConfigValid |-> "True", seen |-> TRUE, hash |-> sCfg]
            \in ServerStatus
    BY <2>2 DEF ServerStatus, Conditions
  <2> QED
    BY <1>7, <1>10, <2>1, <2>3 DEF UpdateStatus
<1>11. CASE GenerateFullConfig \/ \E k \in Kinds : ReconcileChild(k)
  BY <1>3, <1>11 DEF GenerateFullConfig, ReconcileChild, clusterVars, serverVars
<1> QED
  BY <1>5, <1>6, <1>8, <1>9, <1>10, <1>11 DEF ServerStep

\* A touch changes an annotation of the server as it is, and its zero values.
LEMMA TouchesNormalise ==
  ASSUME TypeOK, ServersFit, NEW s \in Servers, Present(srvC[s]), NEW reply,
         TriggerServerReconcile(s, reply)
  PROVE  ServerLife!Normalise(s) \/ UNCHANGED ServerLives
<1>1. ServersTyped /\ srvC[s] \in Server
  BY DEF TypeOK, ClusterTypeOK, ServersTyped, Present
<1>2. CASE Applied(reply)
  <2> DEFINE o == UpdatedServer(srvC[s])
             old == [spec |-> srv[s].spec, fin |-> srv[s].fin,
                     deleting |-> srv[s].deleting]
             new == [spec |-> ServerDefaults[srv[s].spec], fin |-> srv[s].fin,
                     deleting |-> srv[s].deleting]
  <2>1. PutServer(s, o)
    BY <1>2 DEF TriggerServerReconcile, WriteServer
  <2>2. "cache" \in srvFresh[s]
    BY <1>2 DEF TriggerServerReconcile, Replies, Applied
  <2>3. srvC[s] = srv[s]
    BY <2>2 DEF ServersFit, ServerCopiesAreCurrent
  <2>4. /\ o \in Server /\ o.spec = ServerDefaults[srv[s].spec]
        /\ o.fin = srv[s].fin /\ o.deleting = srv[s].deleting
    BY <1>1, <2>3, UpdatedServerTyped
  <2> HIDE DEF o
  <2>5. Stored(o) = o
    BY <2>3, <2>4 DEF Stored, ServersFit, DyingServersAreHeld
  <2>6. Life(o) = new
    BY <2>4, AbsentAssumption DEF Life, Present
  <2>7. ServerLives[s] = old /\ old \in Lives(ServerSpecs)
    BY <1>1, <2>3 DEF ServerLives, Life, Lives, Server
  <2>8. ServerLives[s] # Absent
    BY <2>7, AbsentAssumption
  <2>9. [ServerLives[s] EXCEPT !.spec = ServerDefaults[ServerLives[s].spec]] = new
    BY <2>7, LifeEdited
  <2>10. ServerLives' = [ServerLives EXCEPT ![s] = new]
    BY <1>1, <2>1, <2>5, <2>6, PutServerLife
  <2> QED
    BY <2>8, <2>9, <2>10
       DEF ServerLife!Normalise, ServerLife!Exists, ServerLife!Become
<1>3. CASE ~Applied(reply)
  BY <1>3 DEF TriggerServerReconcile, WriteServer, ServerLives
<1> QED
  BY <1>2, <1>3

\* Every step of the system is a step of the abstract servers, or none.
LEMMA ServerLivesNext ==
  ASSUME TypeOK, ServersFit, [Next]_vars
  PROVE  [ServerLife!Next]_(ServerLife!vars)
<1>1. ASSUME UNCHANGED srv PROVE UNCHANGED ServerLives
  BY <1>1 DEF ServerLives
<1> DEFINE Silent == ServerLife!Unasked \/ UNCHANGED ServerLives
<1>2. CASE ServerController
  <2>1. ASSUME NEW s \in Servers, FetchServer(s) PROVE UNCHANGED ServerLives
    BY <1>1, <2>1 DEF FetchServer
  <2>2. Silent
    BY <1>2, <2>1, ControllerLivesServers DEF ServerController
  <2> QED
    BY <1>2, <2>2, OthersDoNotAsk DEF ServerLife!Next, ServerLife!vars
<1>3. CASE RouteController
  <2>1. ASSUME NEW r \in Routes, FetchRoute(r) PROVE UNCHANGED ServerLives
    BY <1>1, <2>1 DEF FetchRoute, serverVars
  <2>2. ASSUME RouteStep PROVE Silent
    BY <1>1, <2>2, RouteStepOnServers, TouchesNormalise
       DEF ServerLife!Unasked, serverVars
  <2> QED
    BY <1>3, <2>1, <2>2, OthersDoNotAsk
       DEF RouteController, ServerLife!Next, ServerLife!vars
<1>7. CASE UpstreamController
  <2>1. ASSUME NEW u \in Upstreams, FetchUpstream(u) PROVE UNCHANGED ServerLives
    BY <1>1, <2>1 DEF FetchUpstream, serverVars
  <2>2. ASSUME UpstreamStep PROVE Silent
    BY <1>1, <2>2, UpstreamStepOnServers, TouchesNormalise
       DEF ServerLife!Unasked, serverVars
  <2> QED
    BY <1>7, <2>1, <2>2, OthersDoNotAsk
       DEF UpstreamController, ServerLife!Next, ServerLife!vars
<1>4. CASE Users
  BY <1>4, UsersAsk, UsersLiveServers DEF ServerLife!Next
<1>5. CASE Kubernetes \/ Events \/ Restart \/ UNCHANGED vars
  <2>1. UNCHANGED srv
    BY <1>5 DEF Kubernetes, Surge, Rollout, Terminate, CollectGarbage, Events,
       ServerEvent, CatchUpServer, RouteEvent, CatchUpRoute, UpstreamEvent,
       CatchUpUpstream, ChildEvent, CatchUpChild, Restart, RelistAll, vars,
       clusterVars, serverVars
  <2> QED
    BY <1>1, <1>5, <2>1, OthersDoNotAsk DEF ServerLife!vars
<1> QED
  BY <1>2, <1>3, <1>4, <1>5, <1>7 DEF Next, Environment

\* The operator finds servers that live, adopted by an earlier one or not.
LEMMA ServerLivesInit == Init => ServerLife!Init
<1> SUFFICES ASSUME Init PROVE ServerLife!Init
  OBVIOUS
<1>1. PICK start \in Starts :
        srv = [s \in Servers |->
                 IF Present(start.servers[s])
                 THEN [NewServer(1, start.servers[s]) EXCEPT !.fin = Adopted]
                 ELSE Absent]
  BY DEF Init, ClusterInit
<1>2. ASSUME NEW s \in Servers
      PROVE  ServerLives[s] \in {Absent} \cup
               [spec : ServerSpecs, fin : BOOLEAN, deleting : {FALSE}]
  <2>1. CASE ~Present(srv[s])
    BY <2>1 DEF ServerLives, Life
  <2>2. CASE Present(srv[s])
    <3>1. start.servers[s] \in ServerSpecs
      BY <1>1, <2>2, ClusterAssumption DEF Present, StartType
    <3>2. srv[s] = [NewServer(1, start.servers[s]) EXCEPT !.fin = Adopted]
      BY <1>1, <2>2 DEF Present
    <3>3. srv[s].spec = start.servers[s] /\ srv[s].fin \in BOOLEAN
          /\ srv[s].deleting = FALSE
      BY <3>2, ClusterAssumption DEF NewServer
    <3> QED
      BY <2>2, <3>1, <3>3 DEF ServerLives, Life
  <2> QED
    BY <2>1, <2>2
<1> QED
  BY <1>2 DEF ServerLives, ServerLife!Init

\* Whatever controllers, users, lagging caches, failing writes and restarts do in
\* between: the spec of an NginxServer is what users last asked for, or that with
\* its zero values replaced by the defaults; no write takes it further back,
\* undoes a deletion, adopts a dying server or lets a live one go.  The operator
\* implements ResourceLifecycle.
THEOREM ServersLiveTheirLife == Spec => ServerLifecycle
<1>1. Init => TypeOK /\ ServersFit /\ ServerLife!Init
  BY TypeOKInit, ServersFitInit, ServerLivesInit
<1>2. TypeOK /\ ServersFit /\ [Next]_vars => TypeOK' /\ ServersFit'
  BY TypeOKNext, ServersFitNext
<1>3. TypeOK /\ ServersFit /\ [Next]_vars
        => [ServerLife!Next]_(ServerLife!vars)
  BY ServerLivesNext
<1> QED
  BY <1>1, <1>2, <1>3, PTL DEF Spec, ServerLifecycle, ServerLife!Spec

-----------------------------------------------------------------------------
(***************************************************************************)
(* The routes, in the same way.  Their reconciler keeps its copy through   *)
(* the touch of a server.                                                  *)
(***************************************************************************)
\* Who holds a current copy holds what the API holds.
RouteCopiesAreCurrent ==
  \A r \in Routes :
    /\ "cache" \in rtFresh[r] => rtC[r] = rt[r]
    /\ "reconciler" \in rtFresh[r] => rPc # "idle" /\ rKey = r /\ rObj = rt[r]

DeletionSteps == {"triggerThenRemove", "removeFinalizer"}

\* The step about to be taken fits the copy it is taken for.
RouteStepFits ==
  /\ rPc \in DeletionSteps => rObj.deleting /\ rObj.fin
  /\ rPc \notin DeletionSteps \cup {"idle"} => ~rObj.deleting

\* A route that is being deleted is there for its finalizer only.
DyingRoutesAreHeld ==
  \A r \in Routes : Present(rt[r]) /\ rt[r].deleting => rt[r].fin

RoutesFit == RouteCopiesAreCurrent /\ RouteStepFits /\ DyingRoutesAreHeld

\* The operator starts with a cache that is current, and no reconcile.
LEMMA RoutesFitInit == Init => RoutesFit
<1> SUFFICES ASSUME Init PROVE RoutesFit
  OBVIOUS
<1>1. PICK start \in Starts :
        rt = [r \in Routes |->
                IF Present(start.routes[r])
                THEN [NewRoute(start.routes[r]) EXCEPT !.fin = Adopted]
                ELSE Absent]
  BY DEF Init, ClusterInit
<1>2. DyingRoutesAreHeld
  BY <1>1 DEF DyingRoutesAreHeld, NewRoute, Present
<1>3. RouteCopiesAreCurrent /\ RouteStepFits
  BY DEF Init, ClusterInit, RouteInit, RouteCopiesAreCurrent, RouteStepFits,
     DeletionSteps
<1> QED
  BY <1>2, <1>3 DEF RoutesFit

\* Whoever else stores a route takes everyone's copy out of date.
LEMMA PutRouteFits ==
  ASSUME TypeOK, RoutesFit, NEW r \in Routes, NEW o \in Route,
         PutRoute(r, o), UNCHANGED <<rtC, routeLocals>>
  PROVE  RoutesFit'
<1>1. RoutesTyped
  BY DEF TypeOK, ClusterTypeOK
<1>2. DyingRoutesAreHeld'
  BY <1>1 DEF PutRoute, Stored, RoutesFit, DyingRoutesAreHeld, Present,
     RoutesTyped, Route
<1>3. RouteCopiesAreCurrent'
  BY <1>1 DEF PutRoute, RoutesFit, RouteCopiesAreCurrent, RoutesTyped,
     routeLocals
<1>4. RouteStepFits'
  BY DEF RoutesFit, RouteStepFits, routeLocals
<1> QED
  BY <1>2, <1>3, <1>4 DEF RoutesFit

\* The route reconciler writes, whatever comes of it, and returns.
LEMMA WriteRouteFits ==
  ASSUME TypeOK, RoutesFit, rPc # "idle", NEW o \in Route, NEW reply,
         WriteRoute(rKey, o, reply), NEW requeue, RouteReturn(requeue)
  PROVE  RoutesFit'
<1>1. RoutesTyped /\ rKey \in Routes
  BY DEF TypeOK, ClusterTypeOK, RouteTypeOK
<1>2. rPc' = "idle" /\ rtC' = rtC
  BY DEF RouteReturn, WriteRoute
<1>3. RouteStepFits'
  BY <1>2 DEF RouteStepFits, DeletionSteps
<1>4. CASE Applied(reply)
  <2>1. PutRoute(rKey, o)
    BY <1>4 DEF WriteRoute
  <2>2. DyingRoutesAreHeld'
    BY <1>1, <2>1 DEF PutRoute, Stored, RoutesFit, DyingRoutesAreHeld,
       Present, RoutesTyped, Route
  <2>3. RouteCopiesAreCurrent'
    BY <1>1, <1>2, <2>1 DEF PutRoute, RoutesFit, RouteCopiesAreCurrent,
       RoutesTyped
  <2> QED
    BY <1>3, <2>2, <2>3 DEF RoutesFit
<1>5. CASE ~Applied(reply)
  <2>1. /\ rtFresh' = [rtFresh EXCEPT ![rKey] = @ \ {"reconciler"}]
        /\ rt' = rt
    BY <1>5 DEF WriteRoute
  <2>2. RouteCopiesAreCurrent'
    BY <1>1, <1>2, <2>1 DEF RoutesFit, RouteCopiesAreCurrent, RoutesTyped
  <2> QED
    BY <1>3, <2>1, <2>2 DEF RoutesFit, DyingRoutesAreHeld
<1> QED
  BY <1>4, <1>5

\* A Get takes as good a copy as the cache has, and the step that fits it.
LEMMA FetchRouteFits ==
  ASSUME TypeOK, RoutesFit, NEW r \in Routes, FetchRoute(r)
  PROVE  RoutesFit'
<1>1. RoutesTyped /\ rPc = "idle" /\ UNCHANGED <<rt, rtC>>
  BY DEF TypeOK, ClusterTypeOK, FetchRoute
<1>2. DyingRoutesAreHeld'
  BY <1>1 DEF RoutesFit, DyingRoutesAreHeld
<1>3. CASE UNCHANGED <<routeLocals, rtFresh>>
  BY <1>1, <1>2, <1>3 DEF RoutesFit, RouteCopiesAreCurrent, RouteStepFits,
     routeLocals
<1>4. CASE /\ ~(rtC[r].deleting /\ ~rtC[r].fin) /\ Present(rtC[r])
           /\ rPc' = FirstRouteStep(rtC[r])
           /\ rKey' = r /\ rObj' = rtC[r]
           /\ rtFresh' = TakeCopy(rtFresh, r)
  <2>1. rtC[r] \in Route
    BY <1>1, <1>4 DEF RoutesTyped, Present
  <2>2. RouteStepFits' /\ rPc' # "idle"
    BY <1>4, <2>1 DEF RouteStepFits, FirstRouteStep, DeletionSteps, Route
  <2>3. \A t \in Routes : "reconciler" \notin rtFresh[t]
    BY <1>1 DEF RoutesFit, RouteCopiesAreCurrent
  <2>4. RouteCopiesAreCurrent'
    BY <1>1, <1>4, <2>2, <2>3 DEF RoutesFit, RouteCopiesAreCurrent,
       RoutesTyped, TakeCopy
  <2> QED
    BY <1>2, <2>2, <2>4 DEF RoutesFit
<1> QED
  BY <1>3, <1>4 DEF FetchRoute

\* The steps of a route's reconcile.
LEMMA RouteStepKeepsFit ==
  ASSUME TypeOK, RoutesFit, RouteStep PROVE RoutesFit'
<1>1. RoutesTyped
  BY DEF TypeOK, ClusterTypeOK
<1>2. rPc # "idle" => rKey \in Routes /\ rObj \in Route
  BY DEF TypeOK, RouteTypeOK
<1>3. CASE RouteAddFinalizer \/ RouteRemoveFinalizer
  <2>1. rPc # "idle"
    BY <1>3 DEF RouteAddFinalizer, RouteRemoveFinalizer
  <2>2. \A b \in BOOLEAN : UpdatedRoute([rObj EXCEPT !.fin = b]) \in Route
    <3> TAKE b \in BOOLEAN
    <3>1. [rObj EXCEPT !.fin = b] \in Route
      BY <1>2, <2>1 DEF Route
    <3> QED
      BY <3>1, UpdatedRouteTyped
  <2> QED
    BY <1>3, <2>1, <2>2, WriteRouteFits
       DEF RouteAddFinalizer, RouteRemoveFinalizer
<1>4. ASSUME rPc # "idle", NEW ready \in {"True", "False"}, NEW stamped,
             WriteRouteStatus(ready, stamped)
      PROVE  RoutesFit'
  <2>1. [rObj EXCEPT !.Ready = ready, !.seen = TRUE] \in Route
    BY <1>2, <1>4 DEF Route, Conditions
  <2> QED
    BY <1>4, <2>1, WriteRouteFits DEF WriteRouteStatus
<1>5. CASE RouteNotReady \/ RouteReady
  BY <1>4, <1>5 DEF RouteNotReady, RouteReady
<1>6. CASE Trigger
  <2>1. rPc = "trigger" /\ rKey \in Routes /\ UNCHANGED <<rt, rtC>>
    BY <1>2, <1>6 DEF Trigger
  <2>2. \/ /\ rPc' \in {"noServer", "status"}
           /\ UNCHANGED <<rKey, rObj, rtFresh>>
        \/ /\ rPc' = "idle"
           /\ rtFresh' = [rtFresh EXCEPT ![rKey] = @ \ {"reconciler"}]
    BY <1>6 DEF Trigger, RouteContinue, RouteReturn
  <2>3. RouteCopiesAreCurrent'
    BY <1>1, <2>1, <2>2 DEF RoutesFit, RouteCopiesAreCurrent, RoutesTyped
  <2>4. RouteStepFits' /\ DyingRoutesAreHeld'
    BY <2>1, <2>2 DEF RoutesFit, RouteStepFits, DyingRoutesAreHeld,
       DeletionSteps
  <2> QED
    BY <2>3, <2>4 DEF RoutesFit
<1>7. CASE TriggerThenRemove
  <2>1. /\ rPc = "triggerThenRemove" /\ rPc' = "removeFinalizer"
        /\ UNCHANGED <<rKey, rObj, rt, rtC, rtFresh>>
    BY <1>7 DEF TriggerThenRemove, RouteContinue, routeVars
  <2> QED
    BY <2>1 DEF RoutesFit, RouteCopiesAreCurrent, RouteStepFits,
       DyingRoutesAreHeld, DeletionSteps
<1> QED
  BY <1>3, <1>5, <1>6, <1>7 DEF RouteStep

\* What users may do to the routes.
LEMMA UsersWriteRoutes ==
  ASSUME TypeOK, Users
  PROVE  /\ rtC' = rtC
         /\ \/ UNCHANGED routeVars
            \/ \E r \in Routes, o \in Route : PutRoute(r, o)
<1>1. \A r \in Routes : Present(rt[r]) => rt[r] \in Route
  BY DEF TypeOK, ClusterTypeOK, RoutesTyped, Present
<1>2. ASSUME NEW r \in Routes, NEW spec \in RouteSpecs,
             CreateRoute(r, spec) \/ EditRoute(r, spec)
      PROVE  rtC' = rtC /\ \E o \in Route : PutRoute(r, o)
  <2>1. NewRoute(spec) \in Route
    BY DEF NewRoute, Route, Conditions
  <2>2. Present(rt[r]) => [rt[r] EXCEPT !.spec = spec, !.seen = FALSE] \in Route
    BY <1>1 DEF Route
  <2> QED
    BY <1>2, <2>1, <2>2 DEF CreateRoute, EditRoute
<1>3. ASSUME NEW r \in Routes, DeleteRoute(r)
      PROVE  rtC' = rtC /\ \E o \in Route : PutRoute(r, o)
  <2>1. [rt[r] EXCEPT !.deleting = TRUE] \in Route
    BY <1>1, <1>3 DEF DeleteRoute, Route
  <2> QED
    BY <1>3, <2>1 DEF DeleteRoute
<1>4. ASSUME NEW s \in Servers,
             \/ \E spec \in ServerSpecs : CreateServer(s, spec) \/ EditServer(s, spec)
             \/ DeleteServer(s)
      PROVE  UNCHANGED routeVars
  BY <1>4 DEF CreateServer, EditServer, DeleteServer
<1>5. ASSUME NEW s \in Servers, NEW k \in Kinds, Tamper(s, k)
      PROVE  UNCHANGED routeVars
  BY <1>5 DEF Tamper
<1>6. CASE UsersOnUpstreams
  BY <1>6 DEF UsersOnUpstreams, CreateUpstream, EditUpstream, DeleteUpstream,
     ScaleService, routeVars
<1> QED
  BY <1>2, <1>3, <1>4, <1>5, <1>6 DEF Users, UsersOnUpstreams, routeVars

\* RoutesFit survives every step.
LEMMA RoutesFitNext ==
  ASSUME TypeOK, RoutesFit, [Next]_vars PROVE RoutesFit'
<1>1. ASSUME UNCHANGED <<routeVars, routeLocals>> PROVE RoutesFit'
  BY <1>1 DEF RoutesFit, RouteCopiesAreCurrent, RouteStepFits,
     DyingRoutesAreHeld, routeVars, routeLocals
<1>2. CASE RouteController
  BY <1>2, FetchRouteFits, RouteStepKeepsFit DEF RouteController
<1>3. CASE ServerController
  <2>1. UNCHANGED routeLocals
    BY <1>3 DEF ServerController, routeControllerVars
  <2>2. UNCHANGED routeVars
    BY <1>3, ServerStepTyped DEF ServerController, FetchServer
  <2> QED
    BY <1>1, <2>1, <2>2
<1>10. CASE UpstreamController
  <2>1. UNCHANGED routeLocals
    BY <1>10 DEF UpstreamController, routeControllerVars
  <2>2. UNCHANGED routeVars
    BY <1>10, UpstreamStepTyped DEF UpstreamController, FetchUpstream
  <2> QED
    BY <1>1, <2>1, <2>2
<1>4. CASE Environment /\ Users
  <2>1. UNCHANGED routeLocals
    BY <1>4 DEF Environment, routeControllerVars
  <2> QED
    BY <1>1, <1>4, <2>1, UsersWriteRoutes, PutRouteFits
<1>5. CASE Environment /\ Kubernetes
  <2>1. UNCHANGED routeLocals
    BY <1>5 DEF Environment, routeControllerVars
  <2>2. UNCHANGED routeVars
    BY <1>5 DEF Kubernetes, Surge, Rollout, Terminate, CollectGarbage
  <2> QED
    BY <1>1, <2>1, <2>2
<1>6. ASSUME NEW r \in Routes, RouteEvent(r) PROVE RoutesFit'
  <2>1. RoutesTyped /\ UNCHANGED routeLocals
    BY <1>6 DEF TypeOK, ClusterTypeOK, RouteEvent
  <2> QED
    BY <1>6, <2>1 DEF RouteEvent, CatchUpRoute, RoutesFit,
       RouteCopiesAreCurrent, RouteStepFits, DyingRoutesAreHeld,
       RoutesTyped, routeLocals
<1>7. CASE \/ \E s \in Servers : ServerEvent(s)
           \/ \E u \in Upstreams : UpstreamEvent(u)
           \/ \E s \in Servers, k \in Kinds : ChildEvent(s, k)
  BY <1>1, <1>7 DEF ServerEvent, CatchUpServer, UpstreamEvent, CatchUpUpstream,
     ChildEvent, CatchUpChild, routeControllerVars
<1>8. CASE Restart
  BY <1>8 DEF Restart, RelistAll, RoutesFit, RouteCopiesAreCurrent,
     RouteStepFits, DyingRoutesAreHeld, DeletionSteps
<1>9. CASE UNCHANGED vars
  BY <1>1, <1>9 DEF vars, clusterVars, routeControllerVars
<1> QED
  BY <1>2, <1>3, <1>4, <1>5, <1>6, <1>7, <1>8, <1>9, <1>10
     DEF Next, Events, Environment

-----------------------------------------------------------------------------
\* A write shows in the life of its route only.
LEMMA PutRouteLife ==
  ASSUME RoutesTyped, NEW r \in Routes, NEW o, PutRoute(r, o)
  PROVE  RouteLives' = [RouteLives EXCEPT ![r] = Life(Stored(o))]
BY DEF RoutesTyped, PutRoute, RouteLives

\* Users create, edit and delete routes; everything else they do is silent.
LEMMA UsersLiveRoutes ==
  ASSUME TypeOK, RoutesFit, Users
  PROVE  RouteLife!Asked
<1>1. RoutesTyped
  BY DEF TypeOK, ClusterTypeOK
<1>2. \A r \in Routes : Present(rt[r]) => rt[r] \in Route
  BY <1>1 DEF RoutesTyped, Present
<1>3. \A r \in Routes : Present(rt[r]) =>
         /\ RouteLives[r] = [spec |-> rt[r].spec, fin |-> rt[r].fin,
                             deleting |-> rt[r].deleting]
         /\ RouteLives[r] # Absent
  BY <1>2, AbsentAssumption DEF RouteLives, Life, Lives, Route
<1>4. ASSUME UNCHANGED rt PROVE UNCHANGED RouteLives
  BY <1>4 DEF RouteLives
<1>5. ASSUME NEW r \in Routes, NEW spec \in RouteSpecs, CreateRoute(r, spec)
      PROVE  RouteLife!Create(r, spec)
  <2> DEFINE o == NewRoute(spec)
  <2>1. o.spec = spec /\ o.fin = FALSE /\ o.deleting = FALSE
    BY DEF NewRoute
  <2>2. PutRoute(r, o) /\ ~Present(rt[r])
    BY <1>5 DEF CreateRoute
  <2>3. o \in Route
    BY DEF NewRoute, Route, Conditions
  <2> HIDE DEF o
  <2>4. Life(Stored(o)) = [spec |-> spec, fin |-> FALSE, deleting |-> FALSE]
    BY <2>1, <2>3, AbsentAssumption DEF Stored, Life, Present
  <2>5. RouteLives[r] = Absent
    BY <2>2 DEF RouteLives, Life
  <2> QED
    BY <1>1, <2>2, <2>4, <2>5, PutRouteLife
       DEF RouteLife!Create, RouteLife!Exists, RouteLife!Become
<1>6. ASSUME NEW r \in Routes, NEW spec \in RouteSpecs, EditRoute(r, spec)
      PROVE  RouteLife!Edit(r, spec)
  <2> DEFINE o == [rt[r] EXCEPT !.spec = spec, !.seen = FALSE]
  <2>1. PutRoute(r, o) /\ Present(rt[r]) /\ rt[r] \in Route
    BY <1>2, <1>6 DEF EditRoute
  <2>2. /\ o \in Route /\ o.spec = spec /\ o.fin = rt[r].fin
        /\ o.deleting = rt[r].deleting
    BY <2>1 DEF Route
  <2> HIDE DEF o
  <2>3. Stored(o) = o
    BY <2>1, <2>2 DEF Stored, RoutesFit, DyingRoutesAreHeld
  <2>4. Life(o) = [spec |-> spec, fin |-> rt[r].fin,
                   deleting |-> rt[r].deleting]
    BY <2>2, AbsentAssumption DEF Life, Present
  <2>5. RouteLives[r] = [spec |-> rt[r].spec, fin |-> rt[r].fin,
                         deleting |-> rt[r].deleting]
    BY <1>3, <2>1
  <2>6. Life(o) = [RouteLives[r] EXCEPT !.spec = spec]
    BY <2>4, <2>5, LifeEdited
  <2>7. RouteLives' = [RouteLives EXCEPT ![r] = Life(o)]
    BY <1>1, <2>1, <2>3, PutRouteLife
  <2>8. RouteLives[r] # Absent
    BY <1>3, <2>1
  <2> QED
    BY <2>6, <2>7, <2>8
       DEF RouteLife!Edit, RouteLife!Exists, RouteLife!Become
<1>7. ASSUME NEW r \in Routes, DeleteRoute(r)
      PROVE  RouteLife!RequestDeletion(r)
  <2> DEFINE o == [rt[r] EXCEPT !.deleting = TRUE]
  <2>1. /\ PutRoute(r, o) /\ Present(rt[r]) /\ rt[r] \in Route
        /\ ~rt[r].deleting
    BY <1>2, <1>7 DEF DeleteRoute
  <2>2. /\ o \in Route /\ o.spec = rt[r].spec /\ o.fin = rt[r].fin
        /\ o.deleting = TRUE
    BY <2>1 DEF Route
  <2> HIDE DEF o
  <2>3. /\ RouteLives[r] = [spec |-> rt[r].spec, fin |-> rt[r].fin,
                            deleting |-> rt[r].deleting]
        /\ RouteLives[r] # Absent
    BY <1>3, <2>1
  <2>4. RouteLives' = [RouteLives EXCEPT ![r] = Life(Stored(o))]
    BY <1>1, <2>1, PutRouteLife
  <2>5. CASE o.fin
    <3>1. Stored(o) = o
      BY <2>5 DEF Stored
    <3>2. Life(o) = [spec |-> rt[r].spec, fin |-> TRUE, deleting |-> TRUE]
      BY <2>2, <2>5, AbsentAssumption DEF Life, Present, Route
    <3> QED
      BY <2>1, <2>2, <2>3, <2>4, <2>5, <3>1, <3>2
         DEF RouteLife!RequestDeletion, RouteLife!Exists, RouteLife!Become
  <2>6. CASE ~o.fin
    <3>1. Life(Stored(o)) = Absent
      BY <2>2, <2>6 DEF Stored, Life, Present
    <3> QED
      BY <2>1, <2>2, <2>3, <2>4, <2>6, <3>1
         DEF RouteLife!RequestDeletion, RouteLife!Exists, RouteLife!Become
  <2> QED
    BY <2>5, <2>6
<1>8. ASSUME NEW s \in Servers,
             \/ \E spec \in ServerSpecs : CreateServer(s, spec) \/ EditServer(s, spec)
             \/ DeleteServer(s)
      PROVE  UNCHANGED RouteLives
  BY <1>4, <1>8 DEF CreateServer, EditServer, DeleteServer, routeVars
<1>9. ASSUME NEW s \in Servers, NEW k \in Kinds, Tamper(s, k)
      PROVE  UNCHANGED RouteLives
  BY <1>4, <1>9 DEF Tamper, routeVars
<1>10. UsersOnUpstreams => UNCHANGED RouteLives
  BY <1>4 DEF UsersOnUpstreams, CreateUpstream, EditUpstream, DeleteUpstream,
     ScaleService, routeVars
<1>11. ASSUME NEW r \in Routes, NEW spec \in RouteSpecs,
              CreateRoute(r, spec) \/ EditRoute(r, spec)
       PROVE  RouteLife!Asked
  BY <1>5, <1>6, <1>11 DEF RouteLife!Asked
<1>12. ASSUME NEW r \in Routes, DeleteRoute(r) PROVE RouteLife!Asked
  BY <1>7, <1>12 DEF RouteLife!Asked
<1>13. ASSUME UNCHANGED RouteLives PROVE RouteLife!Asked
  BY <1>13 DEF RouteLife!Asked
<1> QED
  BY <1>8, <1>9, <1>10, <1>11, <1>12, <1>13 DEF Users, UsersOnUpstreams

\* The route controller adopts routes that live and lets go of those that
\* were deleted; its writes of the Ready condition are silent.
LEMMA ControllerLivesRoutes ==
  ASSUME TypeOK, RoutesFit, RouteStep
  PROVE  RouteLife!Unasked \/ UNCHANGED RouteLives
<1>1. RoutesTyped /\ RouteCurrent \in BOOLEAN
  BY DEF TypeOK, ClusterTypeOK, RouteCurrent
<1>2. rPc # "idle" => rKey \in Routes /\ rObj \in Route
  BY DEF TypeOK, RouteTypeOK
<1>3. ASSUME UNCHANGED rt PROVE UNCHANGED RouteLives
  BY <1>3 DEF RouteLives
<1>4. ASSUME NEW effects \in SUBSET {"ok", "noop"},
             NEW reply \in Replies(RouteCurrent, effects), Applied(reply),
             rPc # "idle"
      PROVE  /\ rObj = rt[rKey] /\ rt[rKey] # Absent
             /\ RouteLives[rKey] = [spec |-> rObj.spec, fin |-> rObj.fin,
                                    deleting |-> rObj.deleting]
             /\ RouteLives[rKey] # Absent
  <2>1. RouteCurrent
    BY <1>1, <1>4, AppliedIsCurrent
  <2>2. rObj = rt[rKey]
    BY <1>2, <1>4, <2>1 DEF RoutesFit, RouteCopiesAreCurrent, RouteCurrent
  <2>3. rt[rKey] # Absent
    BY <1>2, <1>4, <2>2, AbsentAssumption
  <2>4. RouteLives[rKey] = [spec |-> rObj.spec, fin |-> rObj.fin,
                            deleting |-> rObj.deleting]
    BY <1>2, <1>4, <2>2, <2>3 DEF RouteLives, Life, Present
  <2>5. RouteLives[rKey] \in Lives(RouteSpecs)
    BY <1>2, <1>4, <2>4 DEF Lives, Route
  <2> QED
    BY <2>2, <2>3, <2>4, <2>5, AbsentAssumption
<1>5. CASE RouteRemoveFinalizer
  <2>1. PICK reply \in Replies(RouteCurrent, {"ok"}) :
          WriteRoute(rKey, UpdatedRoute([rObj EXCEPT !.fin = FALSE]), reply)
    BY <1>5 DEF RouteRemoveFinalizer
  <2>2. rPc # "idle" /\ rObj.deleting /\ rObj.fin
    BY <1>5 DEF RouteRemoveFinalizer, RoutesFit, RouteStepFits, DeletionSteps
  <2>3. CASE Applied(reply)
    <3> DEFINE c == [rObj EXCEPT !.fin = FALSE]
               o == UpdatedRoute(c)
    <3>0. c \in Route /\ c.deleting /\ ~c.fin
      BY <1>2, <2>2 DEF Route
    <3> HIDE DEF c
    <3>1. o.deleting /\ ~o.fin
      BY <3>0, UpdatedRouteTyped
    <3> USE DEF c
    <3>2. PutRoute(rKey, o)
      BY <2>1, <2>3 DEF WriteRoute
    <3> HIDE DEF o
    <3>3. Life(Stored(o)) = Absent
      BY <3>1 DEF Stored, Life, Present
    <3>4. RouteLives' = [RouteLives EXCEPT ![rKey] = Absent]
      BY <1>1, <1>2, <2>2, <3>2, <3>3, PutRouteLife
    <3>5. /\ RouteLives[rKey] # Absent /\ RouteLives[rKey].deleting
          /\ RouteLives[rKey].fin
      BY <1>4, <2>2, <2>3
    <3> QED
      BY <1>2, <2>2, <3>4, <3>5
         DEF RouteLife!Unasked, RouteLife!Release, RouteLife!Exists,
             RouteLife!Become
  <2> QED
    BY <1>3, <2>1, <2>3 DEF WriteRoute
<1>6. CASE RouteAddFinalizer
  <2>1. PICK reply \in Replies(RouteCurrent, {"ok"}) :
          WriteRoute(rKey, UpdatedRoute([rObj EXCEPT !.fin = TRUE]), reply)
    BY <1>6 DEF RouteAddFinalizer
  <2>2. rPc # "idle" /\ ~rObj.deleting
    BY <1>6 DEF RouteAddFinalizer, RoutesFit, RouteStepFits, DeletionSteps
  <2>3. CASE Applied(reply)
    <3> DEFINE c == [rObj EXCEPT !.fin = TRUE]
               o == UpdatedRoute(c)
    <3>0. /\ c \in Route /\ c.spec = rObj.spec /\ c.fin = TRUE
          /\ c.deleting = rObj.deleting
      BY <1>2, <2>2 DEF Route
    <3> HIDE DEF c
    <3>1. /\ o \in Route /\ o.spec = RouteDefaults[rObj.spec] /\ o.fin = TRUE
          /\ o.deleting = rObj.deleting
      BY <3>0, UpdatedRouteTyped
    <3> USE DEF c
    <3>2. PutRoute(rKey, o)
      BY <2>1, <2>3 DEF WriteRoute
    <3> HIDE DEF o
    <3>3. Stored(o) = o
      BY <2>2, <3>1 DEF Stored
    <3>4. Life(o) = [spec |-> RouteDefaults[rObj.spec], fin |-> TRUE,
                     deleting |-> FALSE]
      BY <1>2, <2>2, <3>1, AbsentAssumption DEF Life, Present, Route
    <3>5. /\ RouteLives[rKey].spec = rObj.spec
          /\ ~RouteLives[rKey].deleting
          /\ RouteLives[rKey] # Absent
      BY <1>4, <2>2, <2>3
    <3>6. RouteLives' = [RouteLives EXCEPT ![rKey] = Life(o)]
      BY <1>1, <1>2, <2>2, <3>2, <3>3, PutRouteLife
    <3> QED
      BY <1>2, <2>2, <3>4, <3>5, <3>6
         DEF RouteLife!Unasked, RouteLife!Adopt, RouteLife!Exists,
             RouteLife!Become
  <2> QED
    BY <1>3, <2>1, <2>3 DEF WriteRoute
<1>7. ASSUME rPc # "idle", NEW ready \in {"True", "False"}, NEW stamped,
             WriteRouteStatus(ready, stamped)
      PROVE  UNCHANGED RouteLives
  <2> DEFINE o == [rObj EXCEPT !.Ready = ready, !.seen = TRUE]
  <2>1. /\ o \in Route /\ o.spec = rObj.spec /\ o.fin = rObj.fin
        /\ o.deleting = rObj.deleting
    BY <1>2, <1>7 DEF Route, Conditions
  <2>2. PICK reply :
          /\ WriteRoute(rKey, o, reply)
          /\ \E effects \in SUBSET {"ok", "noop"} :
               reply \in Replies(RouteCurrent, effects)
    BY <1>7 DEF WriteRouteStatus
  <2> HIDE DEF o
  <2>3. CASE Applied(reply)
    <3>1. PutRoute(rKey, o)
      BY <2>2, <2>3 DEF WriteRoute
    <3>2. /\ rObj = rt[rKey] /\ Present(rt[rKey])
          /\ RouteLives[rKey] = [spec |-> rObj.spec, fin |-> rObj.fin,
                                 deleting |-> rObj.deleting]
      BY <1>4, <1>7, <2>2, <2>3 DEF Present
    <3>3. Stored(o) = o
      BY <1>2, <1>7, <2>1, <3>2 DEF Stored, RoutesFit, DyingRoutesAreHeld
    <3>4. Life(o) = RouteLives[rKey]
      BY <2>1, <3>2, AbsentAssumption DEF Life, Present
    <3>5. RouteLives' = [RouteLives EXCEPT ![rKey] = RouteLives[rKey]]
      BY <1>1, <1>2, <1>7, <3>1, <3>3, <3>4, PutRouteLife
    <3> QED
      BY <3>5 DEF RouteLives
  <2> QED
    BY <1>3, <2>2, <2>3 DEF WriteRoute
<1>8. CASE RouteNotReady \/ RouteReady
  BY <1>7, <1>8 DEF RouteNotReady, RouteReady
<1>9. CASE Trigger \/ TriggerThenRemove
  BY <1>3, <1>9 DEF Trigger, TriggerThenRemove, routeVars
<1> QED
  BY <1>5, <1>6, <1>8, <1>9 DEF RouteStep

\* Every step of the system is a step of the abstract routes, or none.
LEMMA RouteLivesNext ==
  ASSUME TypeOK, RoutesFit, [Next]_vars
  PROVE  [RouteLife!Next]_(RouteLife!vars)
<1>1. ASSUME UNCHANGED rt PROVE UNCHANGED RouteLives
  BY <1>1 DEF RouteLives
<1>2. CASE RouteController
  <2>1. ASSUME NEW r \in Routes, FetchRoute(r) PROVE UNCHANGED RouteLives
    BY <1>1, <2>1 DEF FetchRoute
  <2>2. RouteLife!Unasked \/ UNCHANGED RouteLives
    BY <1>2, <2>1, ControllerLivesRoutes DEF RouteController
  <2> QED
    BY <1>2, <2>2, OthersDoNotAsk DEF RouteLife!Next, RouteLife!vars
<1>3. CASE Users
  BY <1>3, UsersAsk, UsersLiveRoutes DEF RouteLife!Next
<1>4. CASE ServerController \/ UpstreamController
  <2>1. UNCHANGED rt
    BY <1>4, ServerStepTyped, UpstreamStepTyped
       DEF ServerController, FetchServer, UpstreamController, FetchUpstream,
           routeVars
  <2> QED
    BY <1>1, <1>4, <2>1, OthersDoNotAsk DEF RouteLife!vars
<1>5. CASE Kubernetes \/ Events \/ Restart \/ UNCHANGED vars
  <2>1. UNCHANGED rt
    BY <1>5 DEF Kubernetes, Surge, Rollout, Terminate, CollectGarbage, Events,
       ServerEvent, CatchUpServer, RouteEvent, CatchUpRoute, UpstreamEvent,
       CatchUpUpstream, ChildEvent, CatchUpChild, Restart, RelistAll, vars,
       clusterVars, routeVars
  <2> QED
    BY <1>1, <1>5, <2>1, OthersDoNotAsk DEF RouteLife!vars
<1> QED
  BY <1>2, <1>3, <1>4, <1>5 DEF Next, Environment

\* The operator finds routes that live, adopted by an earlier one or not.
LEMMA RouteLivesInit == Init => RouteLife!Init
<1> SUFFICES ASSUME Init PROVE RouteLife!Init
  OBVIOUS
<1>1. PICK start \in Starts :
        rt = [r \in Routes |->
                IF Present(start.routes[r])
                THEN [NewRoute(start.routes[r]) EXCEPT !.fin = Adopted]
                ELSE Absent]
  BY DEF Init, ClusterInit
<1>2. ASSUME NEW r \in Routes
      PROVE  RouteLives[r] \in {Absent} \cup
               [spec : RouteSpecs, fin : BOOLEAN, deleting : {FALSE}]
  <2>1. CASE ~Present(rt[r])
    BY <2>1 DEF RouteLives, Life
  <2>2. CASE Present(rt[r])
    <3>1. start.routes[r] \in RouteSpecs
      BY <1>1, <2>2, ClusterAssumption DEF Present, StartType
    <3>2. rt[r] = [NewRoute(start.routes[r]) EXCEPT !.fin = Adopted]
      BY <1>1, <2>2 DEF Present
    <3>3. rt[r].spec = start.routes[r] /\ rt[r].fin \in BOOLEAN
          /\ rt[r].deleting = FALSE
      BY <3>2, ClusterAssumption DEF NewRoute
    <3> QED
      BY <2>2, <3>1, <3>3 DEF RouteLives, Life
  <2> QED
    BY <2>1, <2>2
<1> QED
  BY <1>2 DEF RouteLives, RouteLife!Init

\* The same of the NginxRoutes: of a spec, the writes of their controller change
\* what is zero and has a default, a priority of 0 among it, and nothing else.
THEOREM RoutesLiveTheirLife == Spec => RouteLifecycle
<1>1. Init => TypeOK /\ RoutesFit /\ RouteLife!Init
  BY TypeOKInit, RoutesFitInit, RouteLivesInit
<1>2. TypeOK /\ RoutesFit /\ [Next]_vars => TypeOK' /\ RoutesFit'
  BY TypeOKNext, RoutesFitNext
<1>3. TypeOK /\ RoutesFit /\ [Next]_vars
        => [RouteLife!Next]_(RouteLife!vars)
  BY RouteLivesNext
<1> QED
  BY <1>1, <1>2, <1>3, PTL DEF Spec, RouteLifecycle, RouteLife!Spec
=============================================================================
