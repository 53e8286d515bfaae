----------------------------- MODULE StatusProofs -----------------------------
(***************************************************************************)
(* A Ready condition of Operator is about the spec it claims to be about,  *)
(* for every value of the constants.                                       *)
(***************************************************************************)
EXTENDS UpstreamLifecycleProofs

-----------------------------------------------------------------------------
(***************************************************************************)
(* The inductive invariant.  A controller writes a whole copy, spec and    *)
(* status, and may have taken it from a cache that lags behind.  So what   *)
(* is to hold of the API must hold of every version there is of a          *)
(* resource: in the API, in the cache and in the copy of a reconcile.      *)
(***************************************************************************)
\* If this version of a server is Ready, it is for its own spec.
ServerHonest(o) ==
  Present(o) /\ o.status.seen /\ o.status.Ready = "True"
    => /\ o.spec \in ValidServerSpecs
       /\ o.status.hash \in Configs
       /\ o.status.hash.spec = o.spec

\* Likewise of a route,
RouteHonest(o) == Present(o) /\ o.seen /\ o.Ready = "True" => o.spec.valid

\* and of an upstream.
UpstreamHonest(o) == Present(o) /\ o.seen /\ o.Ready = "True" => o.spec.valid

\* The steps a server gets to with a spec that was accepted, and with a
\* configuration rendered from that spec.
ServerAcceptedSteps == {"list", "status"} \cup Kinds
ServerRenderedSteps == {"status"} \cup Kinds

ServersHonest ==
  /\ \A s \in Servers : ServerHonest(srv[s]) /\ ServerHonest(srvC[s])
  /\ sPc # "idle" => ServerHonest(sObj)
  /\ sPc \in ServerAcceptedSteps => sObj.spec \in ValidServerSpecs
  /\ sPc \in ServerRenderedSteps => sCfg.spec = sObj.spec

RoutesHonest ==
  /\ \A r \in Routes : RouteHonest(rt[r]) /\ RouteHonest(rtC[r])
  /\ rPc # "idle" => RouteHonest(rObj)
  /\ rPc \in {"trigger", "status"} => rObj.spec.valid

UpstreamsHonest ==
  /\ \A u \in Upstreams : UpstreamHonest(up[u]) /\ UpstreamHonest(upC[u])
  /\ uPc # "idle" => UpstreamHonest(uObj)
  /\ uPc \in {"trigger", "status"} => uObj.spec.valid

\* An Update that defaults change makes a generation no condition is about.
LEMMA UpdatedServerHonest ==
  ASSUME NEW o \in Server, ServerHonest(o)
  PROVE  ServerHonest(UpdatedServer(o))
<1>1. Present(o)
  BY AbsentAssumption DEF Present
<1> DEFINE n == UpdatedServer(o)
<1>2. /\ n.status.hash = o.status.hash /\ n.status.Ready = o.status.Ready
      /\ n.status.seen => o.status.seen /\ n.spec = o.spec
  BY UpdatedServerTyped
<1> HIDE DEF n
<1>3. ServerHonest(n)
  BY <1>1, <1>2 DEF ServerHonest
<1> QED
  BY <1>3 DEF n

\* The same of a route,
LEMMA UpdatedRouteHonest ==
  ASSUME NEW o \in Route, RouteHonest(o) PROVE RouteHonest(UpdatedRoute(o))
<1>1. Present(o)
  BY AbsentAssumption DEF Present
<1> DEFINE n == UpdatedRoute(o)
<1>2. n.Ready = o.Ready /\ (n.seen => o.seen /\ n.spec = o.spec)
  BY UpdatedRouteTyped
<1> HIDE DEF n
<1>3. RouteHonest(n)
  BY <1>1, <1>2 DEF RouteHonest
<1> QED
  BY <1>3 DEF n

\* and of an upstream.
LEMMA UpdatedUpstreamHonest ==
  ASSUME NEW o \in Upstream, UpstreamHonest(o)
  PROVE  UpstreamHonest(UpdatedUpstream(o))
<1>1. Present(o)
  BY AbsentAssumption DEF Present
<1> DEFINE n == UpdatedUpstream(o)
<1>2. n.Ready = o.Ready /\ (n.seen => o.seen /\ n.spec = o.spec)
  BY UpdatedUpstreamTyped
<1> HIDE DEF n
<1>3. UpstreamHonest(n)
  BY <1>1, <1>2 DEF UpstreamHonest
<1> QED
  BY <1>3 DEF n

-----------------------------------------------------------------------------
(***************************************************************************)
(* Servers.                                                                *)
(***************************************************************************)
\* A resource nobody has reconciled yet is not Ready.
LEMMA ServersHonestInit == Init => ServersHonest
<1> SUFFICES ASSUME Init PROVE ServersHonest
  OBVIOUS
<1>1. PICK start \in Starts :
        srv = [s \in Servers |->
                 IF Present(start.servers[s])
                 THEN [NewServer(1, start.servers[s]) EXCEPT !.fin = Adopted]
                 ELSE Absent]
  BY DEF Init, ClusterInit
<1>2. \A s \in Servers : ServerHonest(srv[s])
  BY <1>1 DEF ServerHonest, NewServer, Present
<1>3. srvC = srv /\ sPc = "idle"
  BY DEF Init, ClusterInit, ServerInit
<1>4. sPc \notin ServerAcceptedSteps /\ sPc \notin ServerRenderedSteps
  BY <1>3, ClusterAssumption DEF ServerAcceptedSteps, ServerRenderedSteps
<1> QED
  BY <1>2, <1>3, <1>4 DEF ServersHonest

\* Whoever stores an honest version leaves all that are stored honest.
LEMMA PutServerHonest ==
  ASSUME ServersTyped, ServersHonest, NEW t \in Servers, NEW o,
         ServerHonest(o), PutServer(t, o)
  PROVE  \A s \in Servers : ServerHonest(srv'[s])
BY DEF ServersTyped, ServersHonest, PutServer, Stored, ServerHonest, Present

\* Whatever comes of the write.
LEMMA WriteServerHonest ==
  ASSUME ServersTyped, ServersHonest, NEW t \in Servers, NEW o,
         ServerHonest(o), NEW reply, NEW done, WriteServer(t, o, reply, done)
  PROVE  \A s \in Servers : ServerHonest(srv'[s]) /\ ServerHonest(srvC'[s])
<1>1. srvC' = srvC /\ (srv' = srv \/ PutServer(t, o))
  BY DEF WriteServer
<1>2. \A s \in Servers : ServerHonest(srv'[s])
  BY <1>1, PutServerHonest DEF ServersHonest
<1> QED
  BY <1>1, <1>2 DEF ServersHonest

\* A configuration is rendered from the spec it is rendered for.
LEMMA RenderedSpec ==
  ASSUME NEW spec, NEW ups, NEW blocks, NEW cfg \in Renderings(spec, ups, blocks)
  PROVE  cfg.spec = spec
BY DEF Renderings

\* A Get takes a copy from the cache; only an accepted one gets to "list".
LEMMA FetchServerHonest ==
  ASSUME TypeOK, ServersHonest, NEW s \in Servers, FetchServer(s)
  PROVE  ServersHonest'
<1>1. UNCHANGED <<srv, srvC>>
  BY DEF FetchServer
<1>2. CASE UNCHANGED serverLocals
  BY <1>1, <1>2 DEF ServersHonest, serverLocals
<1>3. CASE sPc' = FirstServerStep(srvC[s]) /\ sObj' = srvC[s]
  <2>1. ServerHonest(sObj')
    BY <1>3 DEF ServersHonest
  <2>2. sPc' \in {"removeFinalizer", "addFinalizer", "notValid", "list"}
    BY <1>3 DEF FirstServerStep
  <2>3. sPc' \notin ServerRenderedSteps
    BY <2>2, ClusterAssumption DEF ServerRenderedSteps
  <2>4. sPc' \in ServerAcceptedSteps => sPc' = "list"
    BY <2>2, ClusterAssumption DEF ServerAcceptedSteps
  <2>5. sPc' = "list" => sObj'.spec \in ValidServerSpecs
    BY <1>3 DEF FirstServerStep, ValidateNginxServer
  <2> QED
    BY <1>1, <2>1, <2>3, <2>4, <2>5 DEF ServersHonest
<1> QED
  BY <1>2, <1>3 DEF FetchServer

\* The steps of a server's reconcile.
LEMMA ServerStepHonest ==
  ASSUME TypeOK, ServersHonest, ServerStep PROVE ServersHonest'
<1>1. ServersTyped /\ ServerTypeOK
  BY DEF TypeOK, ClusterTypeOK
<1>2. sPc # "idle" => /\ sKey \in Servers /\ sObj \in Server
                      /\ sObj.status \in ServerStatus /\ ServerHonest(sObj)
  BY <1>1 DEF ServerTypeOK, Server, ServersHonest
<1>3. ASSUME sPc # "idle", NEW o, ServerHonest(o), NEW reply,
             WriteServer(sKey, o, reply, {"reconciler"}), sPc' = "idle"
      PROVE  ServersHonest'
  <2>1. sPc' \notin ServerAcceptedSteps /\ sPc' \notin ServerRenderedSteps
    BY <1>3, ClusterAssumption DEF ServerAcceptedSteps, ServerRenderedSteps
  <2>2. \A s \in Servers : ServerHonest(srv'[s]) /\ ServerHonest(srvC'[s])
    BY <1>1, <1>2, <1>3, WriteServerHonest
  <2> QED
    BY <1>3, <2>1, <2>2 DEF ServersHonest
<1>4. ASSUME sPc # "idle", NEW status \in ServerStatus, NEW stamped, NEW reply,
             WriteServerStatus(status, stamped, reply), sPc' = "idle",
             status.seen /\ status.Ready = "True"
               => /\ sObj.spec \in ValidServerSpecs
                  /\ status.hash \in Configs /\ status.hash.spec = sObj.spec
      PROVE  ServersHonest'
  <2> DEFINE o == [sObj EXCEPT !.status = status]
  <2>1. o.status = status /\ o.spec = sObj.spec
    BY <1>2, <1>4 DEF Server
  <2>2. WriteServer(sKey, o, reply, {"reconciler"})
    BY <1>4 DEF WriteServerStatus
  <2> HIDE DEF o
  <2>3. ServerHonest(o)
    BY <1>4, <2>1 DEF ServerHonest
  <2> QED
    BY <1>3, <1>4, <2>2, <2>3
<1>5. CASE ServerHandleDeletion \/ ServerAddFinalizer
  <2>1. PICK b \in BOOLEAN, reply \in Replies(ServerCurrent, {"ok"}) :
          WriteServer(sKey, UpdatedServer([sObj EXCEPT !.fin = b]), reply,
                      {"reconciler"})
    BY <1>5 DEF ServerHandleDeletion, ServerAddFinalizer
  <2>2. sPc # "idle" /\ sPc' = "idle"
    BY <1>5 DEF ServerHandleDeletion, ServerAddFinalizer, ServerReturn
  <2> DEFINE o == [sObj EXCEPT !.fin = b]
  <2>3. /\ o.status = sObj.status /\ o.spec = sObj.spec /\ Present(sObj)
        /\ o \in Server
    BY <1>2, <2>2, AbsentAssumption DEF Server, Present
  <2> HIDE DEF o
  <2>4. ServerHonest(o)
    BY <1>2, <2>2, <2>3 DEF ServerHonest
  <2>5. ServerHonest(UpdatedServer(o))
    BY <2>3, <2>4, UpdatedServerHonest
  <2> QED
    BY <1>3, <2>1, <2>2, <2>5 DEF o
<1>6. CASE ServerNotValid
  <2> DEFINE status == [sObj.status EXCEPT !.Ready = "False", !.seen = TRUE]
  <2>1. /\ sPc # "idle" /\ sPc' = "idle"
        /\ \E reply : WriteServerStatus(status, FALSE, reply)
    BY <1>6 DEF ServerNotValid, ServerReturn
  <2>2. status \in ServerStatus /\ status.Ready = "False"
    BY <1>2, <2>1 DEF ServerStatus, Conditions
  <2> HIDE DEF status
  <2> QED
    BY <1>4, <2>1, <2>2
<1>7. CASE ServerNotGenerated
  <2> DEFINE status == [sObj.status EXCEPT !.ConfigValid = "False"]
  <2>1. /\ sPc # "idle" /\ sPc' = "idle"
        /\ \E reply : WriteServerStatus(status, TRUE, reply)
    BY <1>7 DEF ServerNotGenerated, ServerReturn
  <2>2. /\ status \in ServerStatus /\ status.Ready = sObj.status.Ready
        /\ status.seen = sObj.status.seen /\ status.hash = sObj.status.hash
    BY <1>2, <2>1 DEF ServerStatus, Conditions
  <2> HIDE DEF status
  <2>3. Present(sObj) /\ ServerHonest(sObj)
    BY <1>2, <2>1, AbsentAssumption DEF Present
  <2>4. status.seen /\ status.Ready = "True"
          => /\ sObj.spec \in ValidServerSpecs
             /\ status.hash \in Configs /\ status.hash.spec = sObj.spec
    BY <2>2, <2>3 DEF ServerHonest
  <2> QED
    BY <1>4, <2>1, <2>2, <2>4
<1>8. CASE UpdateStatus
  <2>1. sPc = "status" /\ sPc # "idle" /\ sPc' = "idle"
    BY <1>8 DEF UpdateStatus, ServerReturn
  <2>2. /\ sCfg \in Configs /\ sCfg.spec = sObj.spec
        /\ sObj.spec \in ValidServerSpecs
    BY <1>1, <2>1 DEF ServerTypeOK, ServersHonest, ServerAcceptedSteps,
       ServerRenderedSteps
  <2>3. PICK b \in {"True", "False"},
              reply \in {"ok", "noop", "conflict", "error", "lost"} :
          WriteServerStatus([Ready |-> b, ConfigValid |-> "True",
                             seen |-> TRUE, hash |-> sCfg], TRUE, reply)
    BY <1>8 DEF UpdateStatus
  <2> DEFINE status == [Ready |-> b, ConfigValid |-> "True", seen |-> TRUE,
                        hash |-> sCfg]
  <2>4. status \in ServerStatus /\ status.hash = sCfg
    BY <2>2 DEF ServerStatus, Conditions
  <2>5. WriteServerStatus(status, TRUE, reply)
    BY <2>3
  <2> HIDE DEF status
  <2> QED
    BY <1>4, <2>1, <2>2, <2>4, <2>5
<1>9. CASE GenerateFullConfig
  <2>1. UNCHANGED <<srv, srvC, sObj>> /\ sPc = "list"
    BY <1>9 DEF GenerateFullConfig, clusterVars, serverVars
  <2>2. sObj.spec \in ValidServerSpecs /\ ServerHonest(sObj)
    BY <2>1 DEF ServersHonest, ServerAcceptedSteps
  <2>3. CASE sPc' = "notGenerated"
    <3>1. sPc' \notin ServerAcceptedSteps /\ sPc' \notin ServerRenderedSteps
      BY <2>3, ClusterAssumption DEF ServerAcceptedSteps, ServerRenderedSteps
    <3> QED
      BY <2>1, <2>2, <3>1 DEF ServersHonest
  <2>4. CASE sCfg' \in Renderings(sObj.spec, ListUpstreams(sKey, upC),
                                  ListRoutes(sKey, rtC))
    <3>1. sCfg'.spec = sObj.spec
      BY <2>4, RenderedSpec
    <3> QED
      BY <2>1, <2>2, <3>1 DEF ServersHonest
  <2> QED
    BY <1>9, <2>3, <2>4 DEF GenerateFullConfig
<1>10. ASSUME NEW k \in Kinds, ReconcileChild(k) PROVE ServersHonest'
  <2>1. UNCHANGED <<srv, srvC>> /\ sPc = k
    BY <1>10 DEF ReconcileChild
  <2>2. sPc \in ServerAcceptedSteps /\ sPc \in ServerRenderedSteps /\ sPc # "idle"
    BY <2>1, ClusterAssumption DEF ServerAcceptedSteps, ServerRenderedSteps
  <2>3. CASE sPc' = "idle"
    <3>1. sPc' \notin ServerAcceptedSteps /\ sPc' \notin ServerRenderedSteps
      BY <2>3, ClusterAssumption DEF ServerAcceptedSteps, ServerRenderedSteps
    <3> QED
      BY <2>1, <2>3, <3>1 DEF ServersHonest
  <2>4. CASE UNCHANGED <<sObj, sCfg>>
    BY <2>1, <2>2, <2>4 DEF ServersHonest
  <2> QED
    BY <1>10, <2>3, <2>4 DEF ReconcileChild, ServerContinue, ServerReturn
<1> QED
  BY <1>5, <1>6, <1>7, <1>8, <1>9, <1>10 DEF ServerStep

\* A touch writes what the cache holds.
LEMMA TouchHonest ==
  ASSUME TypeOK, ServersHonest, UNCHANGED serverLocals,
         \/ UNCHANGED serverVars
         \/ \E s \in Servers : /\ Present(srvC[s])
                               /\ \E reply : TriggerServerReconcile(s, reply)
  PROVE  ServersHonest'
<1>1. ServersTyped
  BY DEF TypeOK, ClusterTypeOK
<1>2. \A s \in Servers : ServerHonest(srv'[s]) /\ ServerHonest(srvC'[s])
  <2>1. CASE UNCHANGED serverVars
    BY <2>1 DEF ServersHonest, serverVars
  <2>2. ASSUME NEW s \in Servers, Present(srvC[s]), NEW reply,
               TriggerServerReconcile(s, reply)
        PROVE  \A t \in Servers : ServerHonest(srv'[t]) /\ ServerHonest(srvC'[t])
    <3>1. /\ WriteServer(s, UpdatedServer(srvC[s]), reply, {})
          /\ ServerHonest(srvC[s]) /\ srvC[s] \in Server
      BY <1>1, <2>2 DEF TriggerServerReconcile, ServersHonest, ServersTyped,
         Present
    <3>2. ServerHonest(UpdatedServer(srvC[s]))
      BY <3>1, UpdatedServerHonest
    <3> QED
      BY <1>1, <3>1, <3>2, WriteServerHonest
  <2> QED
    BY <2>1, <2>2
<1> QED
  BY <1>2 DEF ServersHonest, serverLocals

\* Users: whoever edits a spec makes a generation no condition is about.
LEMMA UsersLeaveServersHonest ==
  ASSUME TypeOK, ServersHonest, Users
  PROVE  \A s \in Servers : ServerHonest(srv'[s]) /\ ServerHonest(srvC'[s])
<1>1. ServersTyped /\ srvC' = srvC
  BY UsersWriteServers DEF TypeOK, ClusterTypeOK
<1>2. \A t \in Servers : Present(srv[t]) => srv[t] \in Server
  BY <1>1 DEF ServersTyped, Present
<1>3. ASSUME NEW t \in Servers, NEW o, ServerHonest(o), PutServer(t, o)
      PROVE  \A s \in Servers : ServerHonest(srv'[s])
  BY <1>1, <1>3, PutServerHonest
<1>4. ASSUME NEW t \in Servers, NEW spec \in ServerSpecs, CreateServer(t, spec)
      PROVE  \A s \in Servers : ServerHonest(srv'[s])
  <2>1. ServerHonest(NewServer(born[t] + 1, spec))
    BY DEF ServerHonest, NewServer
  <2> QED
    BY <1>3, <1>4, <2>1 DEF CreateServer
<1>5. ASSUME NEW t \in Servers, NEW spec \in ServerSpecs, EditServer(t, spec)
      PROVE  \A s \in Servers : ServerHonest(srv'[s])
  <2> DEFINE o == [srv[t] EXCEPT !.spec = spec, !.status.seen = FALSE]
  <2>1. srv[t] \in Server /\ PutServer(t, o)
    BY <1>2, <1>5 DEF EditServer
  <2>2. o.status.seen = FALSE
    BY <2>1 DEF Server, ServerStatus
  <2> HIDE DEF o
  <2>3. ServerHonest(o)
    BY <2>2 DEF ServerHonest
  <2> QED
    BY <1>3, <2>1, <2>3
<1>6. ASSUME NEW t \in Servers, DeleteServer(t)
      PROVE  \A s \in Servers : ServerHonest(srv'[s])
  <2> DEFINE o == [srv[t] EXCEPT !.deleting = TRUE]
  <2>1. srv[t] \in Server /\ PutServer(t, o) /\ Present(srv[t])
    BY <1>2, <1>6 DEF DeleteServer
  <2>2. o.spec = srv[t].spec /\ o.status = srv[t].status
    BY <2>1 DEF Server
  <2> HIDE DEF o
  <2>3. ServerHonest(o)
    BY <2>1, <2>2 DEF ServerHonest, ServersHonest
  <2> QED
    BY <1>3, <2>1, <2>3
<1>7. CASE \/ \E r \in Routes, spec \in RouteSpecs :
                CreateRoute(r, spec) \/ EditRoute(r, spec)
           \/ \E r \in Routes : DeleteRoute(r)
           \/ UsersOnUpstreams
           \/ \E t \in Servers, k \in Kinds : Tamper(t, k)
  BY <1>7 DEF UsersOnUpstreams, CreateRoute, EditRoute, DeleteRoute,
     CreateUpstream, EditUpstream, DeleteUpstream, ScaleService, Tamper,
     serverVars, ServersHonest
<1>8. \A s \in Servers : ServerHonest(srv'[s])
  BY <1>4, <1>5, <1>6, <1>7 DEF Users, UsersOnUpstreams
<1> QED
  BY <1>1, <1>8 DEF ServersHonest

\* ServersHonest survives every step.
LEMMA ServersHonestNext ==
  ASSUME TypeOK, ServersHonest, [Next]_vars PROVE ServersHonest'
<1>1. ServersTyped
  BY DEF TypeOK, ClusterTypeOK
<1>2. ASSUME UNCHANGED <<srv, srvC, serverLocals>> PROVE ServersHonest'
  BY <1>2 DEF ServersHonest, serverLocals
<1>3. CASE ServerController
  BY <1>3, FetchServerHonest, ServerStepHonest DEF ServerController
<1>4. CASE RouteController
  <2>1. UNCHANGED serverLocals
    BY <1>4 DEF RouteController, serverControllerVars
  <2>2. ASSUME NEW r \in Routes, FetchRoute(r) PROVE ServersHonest'
    BY <1>2, <2>1, <2>2 DEF FetchRoute, serverVars
  <2> QED
    BY <1>4, <2>1, <2>2, RouteStepOnServers, TouchHonest DEF RouteController
<1>5. CASE UpstreamController
  <2>1. UNCHANGED serverLocals
    BY <1>5 DEF UpstreamController, serverControllerVars
  <2>2. ASSUME NEW u \in Upstreams, FetchUpstream(u) PROVE ServersHonest'
    BY <1>2, <2>1, <2>2 DEF FetchUpstream, serverVars
  <2> QED
    BY <1>5, <2>1, <2>2, UpstreamStepOnServers, TouchHonest DEF UpstreamController
<1>6. CASE Environment
  <2>1. UNCHANGED serverLocals
    BY <1>6 DEF Environment, serverControllerVars
  <2>2. CASE Users
    BY <2>1, <2>2, UsersLeaveServersHonest DEF ServersHonest, serverLocals
  <2>3. CASE Kubernetes
    BY <1>2, <2>1, <2>3 DEF Kubernetes, Surge, Rollout, Terminate, CollectGarbage,
       serverVars
  <2> QED
    BY <1>6, <2>2, <2>3 DEF Environment
<1>7. ASSUME NEW s \in Servers, ServerEvent(s) PROVE ServersHonest'
  <2>1. UNCHANGED <<srv, serverLocals>> /\ srvC' = [srvC EXCEPT ![s] = srv[s]]
    BY <1>7 DEF ServerEvent, CatchUpServer
  <2> QED
    BY <1>1, <2>1 DEF ServersHonest, ServersTyped, serverLocals
<1>8. CASE \/ \E r \in Routes : RouteEvent(r)
           \/ \E u \in Upstreams : UpstreamEvent(u)
           \/ \E s \in Servers, k \in Kinds : ChildEvent(s, k)
           \/ UNCHANGED vars
  BY <1>2, <1>8 DEF RouteEvent, CatchUpRoute, UpstreamEvent, CatchUpUpstream,
     ChildEvent, CatchUpChild, serverControllerVars, vars, clusterVars, serverVars
<1>9. CASE Restart
  <2>1. sPc' = "idle" /\ srvC' = srv /\ srv' = srv
    BY <1>9 DEF Restart, RelistAll
  <2>2. sPc' \notin ServerAcceptedSteps /\ sPc' \notin ServerRenderedSteps
    BY <2>1, ClusterAssumption DEF ServerAcceptedSteps, ServerRenderedSteps
  <2> QED
    BY <2>1, <2>2 DEF ServersHonest
<1> QED
  BY <1>3, <1>4, <1>5, <1>6, <1>7, <1>8, <1>9 DEF Next, Events

\* A server's Ready condition that is True of the generation the server is at
\* goes with the hash of a configuration of that very spec, an accepted one,
\* whatever was edited, failed or restarted between the Get and the write.
THEOREM ServersReadyForTheirSpec == Spec => []ServerReadyForItsSpec
<1>1. Init => TypeOK /\ ServersHonest
  BY TypeOKInit, ServersHonestInit
<1>2. TypeOK /\ ServersHonest /\ [Next]_vars => TypeOK' /\ ServersHonest'
  BY TypeOKNext, ServersHonestNext
<1>3. ServersHonest => ServerReadyForItsSpec
  BY DEF ServersHonest, ServerHonest, ServerReadyForItsSpec
<1> QED
  BY <1>1, <1>2, <1>3, PTL DEF Spec

-----------------------------------------------------------------------------
(***************************************************************************)
(* Routes.                                                                 *)
(***************************************************************************)
\* A resource nobody has reconciled yet is not Ready.
LEMMA RoutesHonestInit == Init => RoutesHonest
<1> SUFFICES ASSUME Init PROVE RoutesHonest
  OBVIOUS
<1>1. PICK start \in Starts :
        rt = [r \in Routes |->
                IF Present(start.routes[r])
                THEN [NewRoute(start.routes[r]) EXCEPT !.fin = Adopted]
                ELSE Absent]
  BY DEF Init, ClusterInit
<1>2. \A r \in Routes : RouteHonest(rt[r])
  BY <1>1 DEF RouteHonest, NewRoute, Present
<1> QED
  BY <1>2 DEF Init, ClusterInit, RouteInit, RoutesHonest

\* Whoever stores an honest version leaves all that are stored honest.
LEMMA PutRouteHonest ==
  ASSUME RoutesTyped, RoutesHonest, NEW q \in Routes, NEW o,
         RouteHonest(o), PutRoute(q, o)
  PROVE  \A r \in Routes : RouteHonest(rt'[r])
BY DEF RoutesTyped, RoutesHonest, PutRoute, Stored, RouteHonest, Present

\* The steps of a route's reconcile.
LEMMA RouteStepHonest ==
  ASSUME TypeOK, RoutesHonest, RouteStep PROVE RoutesHonest'
<1>1. RoutesTyped
  BY DEF TypeOK, ClusterTypeOK
<1>2. rPc # "idle" => rKey \in Routes /\ rObj \in Route /\ RouteHonest(rObj)
  BY DEF TypeOK, RouteTypeOK, RoutesHonest
<1>3. ASSUME rPc # "idle", NEW o, RouteHonest(o), NEW reply,
             WriteRoute(rKey, o, reply), rPc' = "idle"
      PROVE  RoutesHonest'
  <2>1. rtC' = rtC /\ (rt' = rt \/ PutRoute(rKey, o))
    BY <1>3 DEF WriteRoute
  <2>2. \A r \in Routes : RouteHonest(rt'[r])
    BY <1>1, <1>2, <1>3, <2>1, PutRouteHonest DEF RoutesHonest
  <2> QED
    BY <1>3, <2>1, <2>2 DEF RoutesHonest
<1>4. ASSUME rPc # "idle", NEW ready, NEW stamped,
             WriteRouteStatus(ready, stamped), ready = "True" => rObj.spec.valid
      PROVE  RoutesHonest'
  <2> DEFINE o == [rObj EXCEPT !.Ready = ready, !.seen = TRUE]
  <2>1. o.Ready = ready /\ o.spec = rObj.spec
    BY <1>2, <1>4 DEF Route
  <2>2. rPc' = "idle" /\ \E reply : WriteRoute(rKey, o, reply)
    BY <1>4 DEF WriteRouteStatus, RouteReturn
  <2> HIDE DEF o
  <2>3. RouteHonest(o)
    BY <1>4, <2>1 DEF RouteHonest
  <2> QED
    BY <1>3, <1>4, <2>2, <2>3
<1>5. CASE RouteNotReady \/ RouteReady
  BY <1>4, <1>5 DEF RouteNotReady, RouteReady, RoutesHonest
<1>6. CASE RouteAddFinalizer \/ RouteRemoveFinalizer
  <2>1. PICK b \in BOOLEAN, reply \in Replies(RouteCurrent, {"ok"}) :
          WriteRoute(rKey, UpdatedRoute([rObj EXCEPT !.fin = b]), reply)
    BY <1>6 DEF RouteAddFinalizer, RouteRemoveFinalizer
  <2>2. rPc # "idle" /\ rPc' = "idle"
    BY <1>6 DEF RouteAddFinalizer, RouteRemoveFinalizer, RouteReturn
  <2> DEFINE o == [rObj EXCEPT !.fin = b]
  <2>3. /\ o.Ready = rObj.Ready /\ o.seen = rObj.seen /\ o.spec = rObj.spec
        /\ Present(rObj) /\ o \in Route
    BY <1>2, <2>2, AbsentAssumption DEF Route, Present
  <2> HIDE DEF o
  <2>4. RouteHonest(o)
    BY <1>2, <2>2, <2>3 DEF RouteHonest
  <2>5. RouteHonest(UpdatedRoute(o))
    BY <2>3, <2>4, UpdatedRouteHonest
  <2> QED
    BY <1>3, <2>1, <2>2, <2>5 DEF o
<1>7. CASE Trigger
  <2>1. /\ UNCHANGED <<rt, rtC>> /\ rPc = "trigger"
        /\ rPc' = "idle" \/ UNCHANGED rObj
    BY <1>7 DEF Trigger, RouteContinue, RouteReturn
  <2> QED
    BY <2>1 DEF RoutesHonest
<1>8. CASE TriggerThenRemove
  <2>1. /\ UNCHANGED <<rt, rtC, rObj>> /\ rPc = "triggerThenRemove"
        /\ rPc' = "removeFinalizer"
    BY <1>8 DEF TriggerThenRemove, RouteContinue, routeVars
  <2> QED
    BY <2>1 DEF RoutesHonest
<1> QED
  BY <1>5, <1>6, <1>7, <1>8 DEF RouteStep

\* Users: whoever edits a spec makes a generation no condition is about.
LEMMA UsersLeaveRoutesHonest ==
  ASSUME TypeOK, RoutesHonest, Users
  PROVE  \A r \in Routes : RouteHonest(rt'[r]) /\ RouteHonest(rtC'[r])
<1>1. RoutesTyped /\ rtC' = rtC
  BY UsersWriteRoutes DEF TypeOK, ClusterTypeOK
<1>2. \A q \in Routes : Present(rt[q]) => rt[q] \in Route
  BY <1>1 DEF RoutesTyped, Present
<1>3. ASSUME NEW q \in Routes, NEW o, RouteHonest(o), PutRoute(q, o)
      PROVE  \A r \in Routes : RouteHonest(rt'[r])
  BY <1>1, <1>3, PutRouteHonest
<1>4. ASSUME NEW q \in Routes, NEW spec \in RouteSpecs, CreateRoute(q, spec)
      PROVE  \A r \in Routes : RouteHonest(rt'[r])
  <2>1. RouteHonest(NewRoute(spec))
    BY DEF RouteHonest, NewRoute
  <2> QED
    BY <1>3, <1>4, <2>1 DEF CreateRoute
<1>5. ASSUME NEW q \in Routes, NEW spec \in RouteSpecs, EditRoute(q, spec)
      PROVE  \A r \in Routes : RouteHonest(rt'[r])
  <2> DEFINE o == [rt[q] EXCEPT !.spec = spec, !.seen = FALSE]
  <2>1. rt[q] \in Route /\ PutRoute(q, o)
    BY <1>2, <1>5 DEF EditRoute
  <2>2. o.seen = FALSE
    BY <2>1 DEF Route
  <2> HIDE DEF o
  <2>3. RouteHonest(o)
    BY <2>2 DEF RouteHonest
  <2> QED
    BY <1>3, <2>1, <2>3
<1>6. ASSUME NEW q \in Routes, DeleteRoute(q)
      PROVE  \A r \in Routes : RouteHonest(rt'[r])
  <2> DEFINE o == [rt[q] EXCEPT !.deleting = TRUE]
  <2>1. rt[q] \in Route /\ PutRoute(q, o) /\ Present(rt[q])
    BY <1>2, <1>6 DEF DeleteRoute
  <2>2. o.spec = rt[q].spec /\ o.Ready = rt[q].Ready /\ o.seen = rt[q].seen
    BY <2>1 DEF Route
  <2> HIDE DEF o
  <2>3. RouteHonest(o)
    BY <2>1, <2>2 DEF RouteHonest, RoutesHonest
  <2> QED
    BY <1>3, <2>1, <2>3
<1>7. CASE \/ \E s \in Servers, spec \in ServerSpecs :
                CreateServer(s, spec) \/ EditServer(s, spec)
           \/ \E s \in Servers : DeleteServer(s)
           \/ UsersOnUpstreams
           \/ \E s \in Servers, k \in Kinds : Tamper(s, k)
  BY <1>7 DEF UsersOnUpstreams, CreateServer, EditServer, DeleteServer,
     CreateUpstream, EditUpstream, DeleteUpstream, ScaleService, Tamper,
     routeVars, RoutesHonest
<1>8. \A r \in Routes : RouteHonest(rt'[r])
  BY <1>4, <1>5, <1>6, <1>7 DEF Users, UsersOnUpstreams
<1> QED
  BY <1>1, <1>8 DEF RoutesHonest

\* RoutesHonest survives every step.
LEMMA RoutesHonestNext ==
  ASSUME TypeOK, RoutesHonest, [Next]_vars PROVE RoutesHonest'
<1>1. RoutesTyped
  BY DEF TypeOK, ClusterTypeOK
<1>2. ASSUME UNCHANGED <<rt, rtC, routeLocals>> PROVE RoutesHonest'
  BY <1>2 DEF RoutesHonest, routeLocals
<1>3. CASE RouteController
  <2>1. ASSUME NEW r \in Routes, FetchRoute(r) PROVE RoutesHonest'
    <3>1. UNCHANGED <<rt, rtC>>
      BY <2>1 DEF FetchRoute
    <3>2. CASE rPc' = FirstRouteStep(rtC[r]) /\ rObj' = rtC[r]
      BY <3>1, <3>2 DEF RoutesHonest, FirstRouteStep, ValidateNginxRoute
    <3> QED
      BY <1>2, <2>1, <3>1, <3>2 DEF FetchRoute
  <2> QED
    BY <1>3, <2>1, RouteStepHonest DEF RouteController
<1>4. CASE ServerController
  <2>1. UNCHANGED routeLocals
    BY <1>4 DEF ServerController, routeControllerVars
  <2> QED
    BY <1>2, <1>4, <2>1, ServerStepTyped DEF ServerController, FetchServer, routeVars
<1>5. CASE UpstreamController
  <2>1. UNCHANGED routeLocals
    BY <1>5 DEF UpstreamController, routeControllerVars
  <2> QED
    BY <1>2, <1>5, <2>1, UpstreamStepTyped
       DEF UpstreamController, FetchUpstream, routeVars
<1>6. CASE Environment
  <2>1. UNCHANGED routeLocals
    BY <1>6 DEF Environment, routeControllerVars
  <2>2. CASE Users
    BY <2>1, <2>2, UsersLeaveRoutesHonest DEF RoutesHonest, routeLocals
  <2>3. CASE Kubernetes
    BY <1>2, <2>1, <2>3 DEF Kubernetes, Surge, Rollout, Terminate, CollectGarbage,
       routeVars
  <2> QED
    BY <1>6, <2>2, <2>3 DEF Environment
<1>7. ASSUME NEW r \in Routes, RouteEvent(r) PROVE RoutesHonest'
  <2>1. UNCHANGED <<rt, routeLocals>> /\ rtC' = [rtC EXCEPT ![r] = rt[r]]
    BY <1>7 DEF RouteEvent, CatchUpRoute
  <2> QED
    BY <1>1, <2>1 DEF RoutesHonest, RoutesTyped, routeLocals
<1>8. CASE \/ \E s \in Servers : ServerEvent(s)
           \/ \E u \in Upstreams : UpstreamEvent(u)
           \/ \E s \in Servers, k \in Kinds : ChildEvent(s, k)
           \/ UNCHANGED vars
  BY <1>2, <1>8 DEF ServerEvent, CatchUpServer, UpstreamEvent, CatchUpUpstream,
     ChildEvent, CatchUpChild, routeControllerVars, vars, clusterVars, routeVars
<1>9. CASE Restart
  BY <1>9 DEF Restart, RelistAll, RoutesHonest
<1> QED
  BY <1>3, <1>4, <1>5, <1>6, <1>7, <1>8, <1>9 DEF Next, Events

-----------------------------------------------------------------------------
(***************************************************************************)
(* Upstreams.                                                              *)
(***************************************************************************)
\* A resource nobody has reconciled yet is not Ready.
LEMMA UpstreamsHonestInit == Init => UpstreamsHonest
<1> SUFFICES ASSUME Init PROVE UpstreamsHonest
  OBVIOUS
<1>1. PICK start \in Starts :
        up = [u \in Upstreams |->
                IF Present(start.upstreams[u])
                THEN [NewUpstream(start.upstreams[u]) EXCEPT !.fin = Adopted]
                ELSE Absent]
  BY DEF Init, ClusterInit
<1>2. \A u \in Upstreams : UpstreamHonest(up[u])
  BY <1>1 DEF UpstreamHonest, NewUpstream, Present
<1> QED
  BY <1>2 DEF Init, ClusterInit, UpstreamInit, UpstreamsHonest

\* Whoever stores an honest version leaves all that are stored honest.
LEMMA PutUpstreamHonest ==
  ASSUME UpstreamsTyped, UpstreamsHonest, NEW w \in Upstreams, NEW o,
         UpstreamHonest(o), PutUpstream(w, o)
  PROVE  \A u \in Upstreams : UpstreamHonest(up'[u])
BY DEF UpstreamsTyped, UpstreamsHonest, PutUpstream, Stored, UpstreamHonest,
   Present

\* What is discovered makes no difference to what was accepted.
LEMMA DiscoveryIsHonest ==
  ASSUME NEW o \in Upstream, UpstreamHonest(o),
         NEW n, n = ResolveServiceEndpoints(o)
  PROVE  n.spec.valid = o.spec.valid /\ UpstreamHonest(n)
<1>1. n.spec.valid = o.spec.valid
  BY DiscoveryAgrees DEF Agree
<1>2. n.Ready = o.Ready /\ n.seen = o.seen /\ Present(o)
  BY AbsentAssumption DEF ResolveServiceEndpoints, Upstream, Present
<1> QED
  BY <1>1, <1>2 DEF UpstreamHonest

\* The steps of an upstream's reconcile.
LEMMA UpstreamStepHonest ==
  ASSUME TypeOK, UpstreamsFit, UpstreamsHonest, UpstreamStep
  PROVE  UpstreamsHonest'
<1>1. UpstreamsTyped
  BY DEF TypeOK, ClusterTypeOK
<1>2. /\ uPc # "idle" => uKey \in Upstreams /\ UpstreamHonest(uObj)
      /\ uPc \notin {"idle", "status"} => uObj \in Upstream
  BY DEF TypeOK, UpstreamTypeOK, UpstreamsHonest
<1>3. ASSUME uPc # "idle", NEW o, NEW reply, Applied(reply) => UpstreamHonest(o),
             WriteUpstream(uKey, o, reply), uPc' = "idle"
      PROVE  UpstreamsHonest'
  <2>1. /\ upC' = upC
        /\ up' = up \/ (PutUpstream(uKey, o) /\ UpstreamHonest(o))
    BY <1>3 DEF WriteUpstream
  <2>2. \A u \in Upstreams : UpstreamHonest(up'[u])
    BY <1>1, <1>2, <1>3, <2>1, PutUpstreamHonest DEF UpstreamsHonest
  <2> QED
    BY <1>3, <2>1, <2>2 DEF UpstreamsHonest
<1>4. ASSUME uPc # "idle", NEW ready \in UpstreamConditions, NEW stamped,
             NEW again, WriteUpstreamStatus(ready, stamped, again),
             ready = "True" => uObj.spec.valid
      PROVE  UpstreamsHonest'
  <2>1. PICK effects \in SUBSET {"ok", "noop"} :
          \E reply \in Replies(UpstreamCurrent, effects) :
            /\ WriteUpstream(uKey, Reported(ready), reply)
            /\ UpstreamReturn(~Succeeded(reply) \/ again)
    BY <1>4 DEF WriteUpstreamStatus
  <2>2. PICK reply \in Replies(UpstreamCurrent, effects) :
          /\ WriteUpstream(uKey, Reported(ready), reply)
          /\ UpstreamReturn(~Succeeded(reply) \/ again)
    BY <2>1
  <2>3. UpstreamCurrent \in BOOLEAN
    BY DEF UpstreamCurrent
  <2>4. ASSUME Applied(reply) PROVE UpstreamHonest(Reported(ready))
    <3>1. UpstreamCurrent
      BY <2>2, <2>3, <2>4, AppliedIsCurrent
    <3>2. up[uKey] \in Upstream /\ Reported(ready).spec = up[uKey].spec
      BY <1>4, <3>1, ReportedTyped
    <3>3. Agree(uObj, up[uKey])
      BY <1>2, <1>4, <3>1
         DEF UpstreamsFit, UpstreamCopiesAreCurrent, UpstreamCurrent
    <3>4. Reported(ready).Ready = ready
      BY <3>2 DEF Reported, Upstream
    <3> QED
      BY <1>4, <3>2, <3>3, <3>4 DEF UpstreamHonest, Agree
  <2>5. uPc' = "idle"
    BY <2>2 DEF UpstreamReturn
  <2> QED
    BY <1>3, <1>4, <2>2, <2>4, <2>5
<1>5. CASE UpstreamNotReady \/ UpstreamReady
  <2>1. {"Failed", "ServerNotFound", "DependencyNotReady", "True"}
          \subseteq UpstreamConditions
    BY DEF UpstreamConditions
  <2> QED
    BY <1>4, <1>5, <2>1 DEF UpstreamNotReady, UpstreamReady, UpstreamsHonest
<1>6. CASE UpstreamAddFinalizer \/ UpstreamRemoveFinalizer
  <2>1. PICK b \in BOOLEAN, reply \in Replies(UpstreamCurrent, {"ok"}) :
          WriteUpstream(uKey, UpdatedUpstream([uObj EXCEPT !.fin = b]), reply)
    BY <1>6 DEF UpstreamAddFinalizer, UpstreamRemoveFinalizer
  <2>2. uPc \notin {"idle", "status"} /\ uPc # "idle" /\ uPc' = "idle"
    BY <1>6 DEF UpstreamAddFinalizer, UpstreamRemoveFinalizer, UpstreamReturn
  <2> DEFINE o == [uObj EXCEPT !.fin = b]
  <2>3. /\ o.Ready = uObj.Ready /\ o.seen = uObj.seen /\ o.spec = uObj.spec
        /\ Present(uObj) /\ o \in Upstream
    BY <1>2, <2>2, AbsentAssumption DEF Upstream, Present
  <2> HIDE DEF o
  <2>4. UpstreamHonest(o)
    BY <1>2, <2>2, <2>3 DEF UpstreamHonest
  <2>5. UpstreamHonest(UpdatedUpstream(o))
    BY <2>3, <2>4, UpdatedUpstreamHonest
  <2> QED
    BY <1>3, <2>1, <2>2, <2>5 DEF o
<1>7. CASE ResolveAndTrigger
  <2>1. UNCHANGED <<up, upC>> /\ uPc = "trigger" /\ uObj.spec.valid
    BY <1>7 DEF ResolveAndTrigger, UpstreamsHonest
  <2>2. CASE uPc' = "idle"
    BY <2>1, <2>2 DEF UpstreamsHonest
  <2>3. CASE uPc' \in {"notResolved", "noServer"} /\ UNCHANGED uObj
    BY <2>1, <2>3 DEF UpstreamsHonest
  <2>4. CASE uPc' = "status" /\ uObj' = ResolveServiceEndpoints(uObj)
    <3>1. uObj'.spec.valid = uObj.spec.valid /\ UpstreamHonest(uObj')
      BY <1>2, <2>1, <2>4, DiscoveryIsHonest
    <3> QED
      BY <2>1, <2>4, <3>1 DEF UpstreamsHonest
  <2> QED
    BY <1>7, <2>2, <2>3, <2>4
       DEF ResolveAndTrigger, UpstreamContinue, UpstreamReturn
<1>8. CASE UpstreamTriggerThenRemove
  <2>1. /\ UNCHANGED <<up, upC, uObj>> /\ uPc = "triggerThenRemove"
        /\ uPc' = "removeFinalizer"
    BY <1>8 DEF UpstreamTriggerThenRemove, UpstreamContinue, upstreamVars
  <2> QED
    BY <2>1 DEF UpstreamsHonest
<1> QED
  BY <1>5, <1>6, <1>7, <1>8 DEF UpstreamStep

\* Users: whoever edits a spec makes a generation no condition is about.
LEMMA UsersLeaveUpstreamsHonest ==
  ASSUME TypeOK, UpstreamsHonest, Users
  PROVE  \A u \in Upstreams : UpstreamHonest(up'[u]) /\ UpstreamHonest(upC'[u])
<1>1. UpstreamsTyped /\ upC' = upC
  BY UsersWriteUpstreams DEF TypeOK, ClusterTypeOK
<1>2. \A w \in Upstreams : Present(up[w]) => up[w] \in Upstream
  BY <1>1 DEF UpstreamsTyped, Present
<1>3. ASSUME NEW w \in Upstreams, NEW o, UpstreamHonest(o), PutUpstream(w, o)
      PROVE  \A u \in Upstreams : UpstreamHonest(up'[u])
  BY <1>1, <1>3, PutUpstreamHonest
<1>4. ASSUME NEW w \in Upstreams, NEW spec \in UpstreamSpecs,
             CreateUpstream(w, spec)
      PROVE  \A u \in Upstreams : UpstreamHonest(up'[u])
  <2>1. UpstreamHonest(NewUpstream(spec))
    BY DEF UpstreamHonest, NewUpstream
  <2> QED
    BY <1>3, <1>4, <2>1 DEF CreateUpstream
<1>5. ASSUME NEW w \in Upstreams, NEW spec \in UpstreamSpecs, EditUpstream(w, spec)
      PROVE  \A u \in Upstreams : UpstreamHonest(up'[u])
  <2> DEFINE o == [up[w] EXCEPT !.spec = spec, !.seen = FALSE]
  <2>1. up[w] \in Upstream /\ PutUpstream(w, o)
    BY <1>2, <1>5 DEF EditUpstream
  <2>2. o.seen = FALSE
    BY <2>1 DEF Upstream
  <2> HIDE DEF o
  <2>3. UpstreamHonest(o)
    BY <2>2 DEF UpstreamHonest
  <2> QED
    BY <1>3, <2>1, <2>3
<1>6. ASSUME NEW w \in Upstreams, DeleteUpstream(w)
      PROVE  \A u \in Upstreams : UpstreamHonest(up'[u])
  <2> DEFINE o == [up[w] EXCEPT !.deleting = TRUE]
  <2>1. up[w] \in Upstream /\ PutUpstream(w, o) /\ Present(up[w])
    BY <1>2, <1>6 DEF DeleteUpstream
  <2>2. o.spec = up[w].spec /\ o.Ready = up[w].Ready /\ o.seen = up[w].seen
    BY <2>1 DEF Upstream
  <2> HIDE DEF o
  <2>3. UpstreamHonest(o)
    BY <2>1, <2>2 DEF UpstreamHonest, UpstreamsHonest
  <2> QED
    BY <1>3, <2>1, <2>3
<1>7. CASE UsersElsewhere
  BY <1>7, UsersElsewhereKeepUpstreams DEF upstreamVars, UpstreamsHonest
<1>8. \A u \in Upstreams : UpstreamHonest(up'[u])
  BY <1>4, <1>5, <1>6, <1>7 DEF Users, UsersElsewhere
<1> QED
  BY <1>1, <1>8 DEF UpstreamsHonest

\* UpstreamsHonest survives every step.
LEMMA UpstreamsHonestNext ==
  ASSUME TypeOK, UpstreamsFit, UpstreamsHonest, [Next]_vars
  PROVE  UpstreamsHonest'
<1>1. UpstreamsTyped
  BY DEF TypeOK, ClusterTypeOK
<1>2. ASSUME UNCHANGED <<up, upC, upstreamLocals>> PROVE UpstreamsHonest'
  BY <1>2 DEF UpstreamsHonest, upstreamLocals
<1>3. CASE UpstreamController
  <2>1. ASSUME NEW u \in Upstreams, FetchUpstream(u) PROVE UpstreamsHonest'
    <3>1. UNCHANGED <<up, upC>>
      BY <2>1 DEF FetchUpstream
    <3>2. CASE uPc' = FirstUpstreamStep(upC[u]) /\ uObj' = upC[u]
      BY <3>1, <3>2 DEF UpstreamsHonest, FirstUpstreamStep, ValidateNginxUpstream
    <3> QED
      BY <1>2, <2>1, <3>1, <3>2 DEF FetchUpstream
  <2> QED
    BY <1>3, <2>1, UpstreamStepHonest DEF UpstreamController
<1>4. CASE ServerController
  <2>1. UNCHANGED upstreamLocals
    BY <1>4 DEF ServerController, upstreamControllerVars
  <2> QED
    BY <1>2, <1>4, <2>1, ServerStepTyped
       DEF ServerController, FetchServer, upstreamVars
<1>5. CASE RouteController
  <2>1. UNCHANGED upstreamLocals
    BY <1>5 DEF RouteController, upstreamControllerVars
  <2> QED
    BY <1>2, <1>5, <2>1, RouteStepTyped
       DEF RouteController, FetchRoute, upstreamVars
<1>6. CASE Environment
  <2>1. UNCHANGED upstreamLocals
    BY <1>6 DEF Environment, upstreamControllerVars
  <2>2. CASE Users
    BY <2>1, <2>2, UsersLeaveUpstreamsHonest DEF UpstreamsHonest, upstreamLocals
  <2>3. CASE Kubernetes
    BY <1>2, <2>1, <2>3 DEF Kubernetes, Surge, Rollout, Terminate, CollectGarbage,
       upstreamVars
  <2> QED
    BY <1>6, <2>2, <2>3 DEF Environment
<1>7. ASSUME NEW u \in Upstreams, UpstreamEvent(u) PROVE UpstreamsHonest'
  <2>1. UNCHANGED <<up, upstreamLocals>> /\ upC' = [upC EXCEPT ![u] = up[u]]
    BY <1>7 DEF UpstreamEvent, CatchUpUpstream
  <2> QED
    BY <1>1, <2>1 DEF UpstreamsHonest, UpstreamsTyped, upstreamLocals
<1>8. CASE \/ \E s \in Servers : ServerEvent(s)
           \/ \E r \in Routes : RouteEvent(r)
           \/ \E s \in Servers, k \in Kinds : ChildEvent(s, k)
           \/ UNCHANGED vars
  BY <1>2, <1>8 DEF ServerEvent, CatchUpServer, RouteEvent, CatchUpRoute,
     ChildEvent, CatchUpChild, upstreamControllerVars, vars, clusterVars,
     upstreamVars
<1>9. CASE Restart
  BY <1>9 DEF Restart, RelistAll, UpstreamsHonest
<1> QED
  BY <1>3, <1>4, <1>5, <1>6, <1>7, <1>8, <1>9 DEF Next, Events

\* A route or an upstream whose Ready condition is True of the generation it is
\* at was accepted as it is: neither an edit nor the defaults of the CRD, which a
\* write of the operator's own lets in, slip in between validation and status.
THEOREM ReadyIsForAcceptedSpecs == Spec => []ReadyForAcceptedSpecs
<1> DEFINE Inv == TypeOK /\ UpstreamsFit /\ RoutesHonest /\ UpstreamsHonest
<1>1. Init => Inv
  BY TypeOKInit, UpstreamsFitInit, RoutesHonestInit, UpstreamsHonestInit
<1>2. Inv /\ [Next]_vars => Inv'
  BY TypeOKNext, UpstreamsFitNext, RoutesHonestNext, UpstreamsHonestNext
<1>3. Inv => ReadyForAcceptedSpecs
  BY DEF RoutesHonest, RouteHonest, UpstreamsHonest, UpstreamHonest,
     ReadyForAcceptedSpecs
<1> QED
  BY <1>1, <1>2, <1>3, PTL DEF Spec
=============================================================================
