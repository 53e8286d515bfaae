----------------------------- MODULE HashProofs -----------------------------
(***************************************************************************)
(* A config hash that Operator publishes is deployed, for every value of   *)
(* the constants.                                                          *)
(***************************************************************************)
EXTENDS LifecycleProofs

-----------------------------------------------------------------------------
(***************************************************************************)
(* The inductive invariant.  Between the write of the Deployment and that  *)
(* of the status anything may happen to the Deployment but one: nobody     *)
(* except the running reconcile gives it data, so it keeps that of sCfg.   *)
(***************************************************************************)
\* A child in a cache that has heard of everything is the child in the API.
ChildCopiesAreCurrent ==
  \A s \in Servers, k \in Kinds : k \in kidFresh[s] => kidC[s][k] = kid[s][k]

\* Past its Deployment, a reconcile has it deployed, unless someone deleted it.
IsDeployed ==
  sPc \in {"Service", "status"} =>
    \/ kid[sKey]["Deployment"] = Absent
    \/ kid[sKey]["Deployment"].data = sCfg

HashesFit == ChildCopiesAreCurrent /\ IsDeployed

\* The operator starts with no reconcile, and with nothing to hear of.
LEMMA HashesFitInit == Init => HashesFit
BY DEF Init, ClusterInit, ServerInit, HashesFit, ChildCopiesAreCurrent,
   IsDeployed

\* A write of a child takes the copy of that child out of date.
LEMMA PutChildKeepsCopies ==
  ASSUME TypeOK, ChildCopiesAreCurrent, NEW s \in Servers, NEW k \in Kinds,
         NEW o, PutChild(s, k, o), kidC' = kidC
  PROVE  ChildCopiesAreCurrent'
<1>1. ChildrenTyped
  BY DEF TypeOK, ClusterTypeOK
<1> QED
  BY <1>1 DEF ChildrenTyped, PutChild, ChildCopiesAreCurrent

\* Whatever the reply.
LEMMA WriteChildKeepsCopies ==
  ASSUME TypeOK, ChildCopiesAreCurrent, NEW s \in Servers, NEW k \in Kinds,
         NEW o, NEW reply, WriteChild(s, k, o, reply)
  PROVE  ChildCopiesAreCurrent'
<1>1. CASE Applied(reply)
  BY <1>1, PutChildKeepsCopies DEF WriteChild
<1>2. CASE ~Applied(reply)
  BY <1>2 DEF WriteChild, ChildCopiesAreCurrent
<1> QED
  BY <1>1, <1>2

\* A write that succeeds leaves the Deployment it was to write, also when
\* there was nothing to change: then the cached copy was the current one.
LEMMA SucceededIsDeployed ==
  ASSUME TypeOK, ChildCopiesAreCurrent, sPc = "Deployment",
         NEW reply, Succeeded(reply),
         LET existing == kidC[sKey]["Deployment"]
         IN IF Present(existing) THEN UpdateChild(sKey, "Deployment", reply)
                                 ELSE CreateChild(sKey, "Deployment", reply)
  PROVE  kid'[sKey]["Deployment"].data = sCfg
<1>1. ChildrenTyped /\ sKey \in Servers /\ "Deployment" \in Kinds
  BY ClusterAssumption DEF TypeOK, ClusterTypeOK, ServerTypeOK
<1>2. Desired("Deployment") = sCfg
  BY DEF Desired
<1>3. CASE /\ ~Present(kidC[sKey]["Deployment"])
           /\ CreateChild(sKey, "Deployment", reply)
  <2>1. reply = "ok"
    BY <1>3 DEF CreateChild, Replies, Succeeded
  <2> QED
    BY <1>1, <1>2, <1>3, <2>1
       DEF CreateChild, WriteChild, Applied, PutChild, ChildrenTyped
<1>4. CASE /\ Present(kidC[sKey]["Deployment"])
           /\ UpdateChild(sKey, "Deployment", reply)
  <2> DEFINE new == [kidC[sKey]["Deployment"] EXCEPT !.data = sCfg]
  <2>1. kidC[sKey]["Deployment"] \in Child("Deployment")
    BY <1>1, <1>4 DEF ChildrenTyped, Present
  <2>2. new.data = sCfg
    BY <2>1 DEF Child
  <2>3. CASE reply = "ok"
    <3>1. PutChild(sKey, "Deployment", new)
      BY <1>2, <1>4, <2>3 DEF UpdateChild, WriteChild, Applied
    <3> HIDE DEF new
    <3>2. kid'[sKey]["Deployment"] = new
      BY <1>1, <3>1 DEF PutChild, ChildrenTyped
    <3> QED
      BY <2>2, <3>2
  <2>4. CASE reply = "noop"
    <3>1. "Deployment" \in kidFresh[sKey] /\ new = kidC[sKey]["Deployment"]
      BY <1>2, <1>4, <2>4 DEF UpdateChild, Replies
    <3>2. kid' = kid
      BY <1>4, <2>4 DEF UpdateChild, WriteChild, Applied
    <3>3. kidC[sKey]["Deployment"] = kid[sKey]["Deployment"]
      BY <1>1, <3>1 DEF ChildCopiesAreCurrent
    <3> QED
      BY <2>2, <3>1, <3>2, <3>3
  <2> QED
    BY <2>3, <2>4 DEF Succeeded
<1> QED
  BY <1>3, <1>4

\* A reconcile comes past its Deployment by writing it only.
LEMMA ServerStepKeepsHashes ==
  ASSUME TypeOK, HashesFit, ServerStep PROVE HashesFit'
<1>1. ChildCopiesAreCurrent /\ IsDeployed
  BY DEF HashesFit
<1>2. sPc # "idle" => sKey \in Servers
  BY DEF TypeOK, ServerTypeOK
<1>3. ASSUME UNCHANGED kidVars, sPc' \notin {"Service", "status"}
      PROVE  HashesFit'
  BY <1>1, <1>3 DEF HashesFit, ChildCopiesAreCurrent, IsDeployed, kidVars
<1>4. CASE \/ ServerHandleDeletion \/ ServerAddFinalizer \/ ServerNotValid
           \/ ServerNotGenerated \/ UpdateStatus
  BY <1>3, <1>4 DEF ServerHandleDeletion, ServerAddFinalizer, ServerNotValid,
     ServerNotGenerated, UpdateStatus, ServerReturn
<1>5. CASE GenerateFullConfig
  BY <1>3, <1>5 DEF GenerateFullConfig, clusterVars
<1>6. ASSUME NEW k \in Kinds, ReconcileChild(k) PROVE HashesFit'
  <2>1. sPc = k /\ sKey \in Servers /\ k \in {"ConfigMap", "Deployment", "Service"}
    BY <1>2, <1>6, ClusterAssumption DEF ReconcileChild
  <2>2. ChildCopiesAreCurrent'
    BY <1>1, <1>6, <2>1, WriteChildKeepsCopies
       DEF ReconcileChild, UpdateChild, CreateChild, kidVars,
           ChildCopiesAreCurrent
  <2>3. CASE k = "ConfigMap"
    <3>1. sPc' \notin {"Service", "status"}
      BY <1>6, <2>3 DEF ReconcileChild, StepAfter, ServerContinue, ServerReturn
    <3> QED
      BY <2>2, <3>1 DEF HashesFit, IsDeployed
  <2>4. CASE k = "Deployment"
    <3>1. CASE sPc' = "idle"
      BY <2>2, <3>1 DEF HashesFit, IsDeployed
    <3>2. CASE sPc' # "idle"
      <4>1. PICK reply :
              /\ Succeeded(reply) /\ UNCHANGED <<sKey, sCfg>>
              /\ LET existing == kidC[sKey]["Deployment"]
                 IN IF Present(existing)
                      THEN UpdateChild(sKey, "Deployment", reply)
                      ELSE CreateChild(sKey, "Deployment", reply)
        BY <1>6, <2>4, <3>2
           DEF ReconcileChild, NeedsUpdate, ServerContinue, ServerReturn
      <4>2. kid'[sKey]["Deployment"].data = sCfg
        BY <1>1, <2>1, <2>4, <4>1, SucceededIsDeployed
      <4> QED
        BY <2>2, <4>1, <4>2 DEF HashesFit, IsDeployed
    <3> QED
      BY <3>1, <3>2
  <2>5. CASE k = "Service"
    <3>9. \/ UNCHANGED kid
          \/ \E o : kid' = [kid EXCEPT ![sKey]["Service"] = o]
      BY <1>6, <2>5 DEF ReconcileChild, UpdateChild, CreateChild, WriteChild,
         PutChild, kidVars
    <3>1. kid'[sKey]["Deployment"] = kid[sKey]["Deployment"]
      BY <2>1, <3>9, ClusterAssumption
         DEF TypeOK, ClusterTypeOK, ChildrenTyped
    <3>2. sPc' = "idle" \/ UNCHANGED <<sKey, sCfg>>
      BY <1>6 DEF ReconcileChild, ServerContinue, ServerReturn
    <3> QED
      BY <1>1, <2>1, <2>2, <2>5, <3>1, <3>2 DEF HashesFit, IsDeployed
  <2> QED
    BY <2>1, <2>3, <2>4, <2>5
<1> QED
  BY <1>4, <1>5, <1>6 DEF ServerStep

\* HashesFit survives every step: around the controller, a Deployment is
\* deleted, or made ready, but not given other data.
LEMMA HashesFitNext ==
  ASSUME TypeOK, HashesFit, [Next]_vars PROVE HashesFit'
<1>1. ChildCopiesAreCurrent /\ IsDeployed /\ ChildrenTyped
  BY DEF HashesFit, TypeOK, ClusterTypeOK
<1>2. sPc # "idle" => sKey \in Servers
  BY DEF TypeOK, ServerTypeOK
<1>3. ASSUME UNCHANGED <<kidVars, serverLocals>> PROVE HashesFit'
  BY <1>1, <1>3 DEF HashesFit, ChildCopiesAreCurrent, IsDeployed, kidVars,
     serverLocals
<1>4. ASSUME NEW s \in Servers, NEW k \in Kinds, PutChild(s, k, Absent),
             kidC' = kidC, UNCHANGED serverLocals
      PROVE  HashesFit'
  <2>1. ChildCopiesAreCurrent'
    BY <1>1, <1>4, PutChildKeepsCopies
  <2>2. \A t \in Servers : \/ kid'[t]["Deployment"] = kid[t]["Deployment"]
                           \/ kid'[t]["Deployment"] = Absent
    BY <1>1, <1>4, ClusterAssumption DEF PutChild, ChildrenTyped
  <2>3. IsDeployed'
    BY <1>1, <1>2, <1>4, <2>2 DEF IsDeployed, serverLocals
  <2> QED
    BY <2>1, <2>3 DEF HashesFit
<1>5. CASE ServerController
  <2>1. ASSUME NEW s \in Servers, FetchServer(s) PROVE HashesFit'
    <3>1. UNCHANGED kidVars
      BY <2>1 DEF FetchServer
    <3>2. sPc' \notin {"Service", "status"}
      BY <2>1 DEF FetchServer, FirstServerStep, serverLocals
    <3> QED
      BY <1>1, <3>1, <3>2 DEF HashesFit, ChildCopiesAreCurrent, IsDeployed,
         kidVars
  <2> QED
    BY <1>5, <2>1, ServerStepKeepsHashes DEF ServerController
<1>6. CASE RouteController
  <2>1. UNCHANGED serverLocals
    BY <1>6 DEF RouteController, serverControllerVars
  <2>2. UNCHANGED kidVars
    BY <1>6, RouteStepTyped DEF RouteController, FetchRoute
  <2> QED
    BY <1>3, <2>1, <2>2
<1>12. CASE UpstreamController
  <2>1. UNCHANGED serverLocals
    BY <1>12 DEF UpstreamController, serverControllerVars
  <2>2. UNCHANGED kidVars
    BY <1>12, UpstreamStepTyped DEF UpstreamController, FetchUpstream
  <2> QED
    BY <1>3, <2>1, <2>2
<1>7. CASE Environment
  <2>1. UNCHANGED serverLocals
    BY <1>7 DEF Environment, serverControllerVars
  <2>2. CASE Users
    <3>1. \/ UNCHANGED kidVars
          \/ \E s \in Servers, k \in Kinds : PutChild(s, k, Absent) /\ kidC' = kidC
      BY <2>2 DEF Users, CreateServer, EditServer, DeleteServer, CreateRoute,
         EditRoute, DeleteRoute, CreateUpstream, EditUpstream, DeleteUpstream,
         ScaleService, Tamper
    <3> QED
      BY <1>3, <1>4, <2>1, <3>1
  <2>3. ASSUME NEW s \in Servers, NEW k \in Kinds, CollectGarbage(s, k)
        PROVE  HashesFit'
    BY <1>4, <2>1, <2>3 DEF CollectGarbage
  <2>4. ASSUME NEW s \in Servers, Terminate(s) PROVE HashesFit'
    BY <1>3, <2>1, <2>4 DEF Terminate
  <2>5. ASSUME NEW s \in Servers, NEW b \in BOOLEAN, kidC' = kidC,
               Present(kid[s]["Deployment"]),
               PutChild(s, "Deployment", [kid[s]["Deployment"] EXCEPT !.ready = b])
        PROVE  HashesFit'
    <3> DEFINE d == kid[s]["Deployment"]
               o == [d EXCEPT !.ready = b]
    <3>1. ChildCopiesAreCurrent'
      BY <1>1, <2>5, PutChildKeepsCopies, ClusterAssumption
    <3>2. d \in Child("Deployment")
      BY <1>1, <2>5, ClusterAssumption DEF ChildrenTyped, Present
    <3>3. o.data = d.data
      BY <3>2 DEF Child
    <3>4. \A t \in Servers : t # s => kid'[t] = kid[t]
      BY <1>1, <2>5 DEF PutChild, ChildrenTyped
    <3>5. kid'[s]["Deployment"].data = d.data
      BY <1>1, <2>5, <3>3, ClusterAssumption DEF PutChild, ChildrenTyped
    <3>6. IsDeployed'
      BY <1>1, <1>2, <2>1, <2>5, <3>4, <3>5 DEF IsDeployed, serverLocals, Present
    <3> QED
      BY <3>1, <3>6 DEF HashesFit
  <2>6. ASSUME NEW s \in Servers, Surge(s) \/ Rollout(s) PROVE HashesFit'
    BY <2>5, <2>6 DEF Surge, Rollout
  <2> QED
    BY <1>7, <2>2, <2>3, <2>4, <2>6 DEF Environment, Kubernetes
<1>8. ASSUME NEW s \in Servers, NEW k \in Kinds, ChildEvent(s, k)
      PROVE  HashesFit'
  <2>1. ChildCopiesAreCurrent'
    BY <1>1, <1>8 DEF ChildEvent, CatchUpChild, ChildCopiesAreCurrent,
       ChildrenTyped
  <2>2. IsDeployed'
    BY <1>1, <1>8 DEF ChildEvent, CatchUpChild, IsDeployed, serverLocals
  <2> QED
    BY <2>1, <2>2 DEF HashesFit
<1>9. CASE \/ \E s \in Servers : ServerEvent(s)
           \/ \E r \in Routes : RouteEvent(r)
           \/ \E u \in Upstreams : UpstreamEvent(u)
  BY <1>3, <1>9 DEF ServerEvent, CatchUpServer, RouteEvent, CatchUpRoute,
     UpstreamEvent, CatchUpUpstream, serverControllerVars
<1>10. CASE Restart
  BY <1>10 DEF Restart, RelistAll, HashesFit, ChildCopiesAreCurrent, IsDeployed
<1>11. CASE UNCHANGED vars
  BY <1>3, <1>11 DEF vars, clusterVars, serverControllerVars
<1> QED
  BY <1>5, <1>6, <1>7, <1>8, <1>9, <1>10, <1>11, <1>12
     DEF Next, Events

-----------------------------------------------------------------------------
(***************************************************************************)
(* Only updateStatus gives a server, as it is, another hash.               *)
(***************************************************************************)
\* A write that keeps the hash cannot be one that changes it.
LEMMA KeptHash ==
  ASSUME ServersTyped, NEW t \in Servers, NEW o \in Server, PutServer(t, o),
         Present(srv[t]) => o.status.hash = srv[t].status.hash,
         NEW s \in Servers, Present(srv[s]), Present(srv'[s])
  PROVE  srv'[s].status.hash = srv[s].status.hash
<1>1. CASE s = t
  <2>1. srv'[s] = o
    BY <1>1 DEF PutServer, ServersTyped, Stored, Present
  <2> QED
    BY <1>1, <2>1
<1>2. CASE s # t
  BY <1>2 DEF PutServer, ServersTyped
<1> QED
  BY <1>1, <1>2

\* What users do keeps the hash of a server that is there before and after.
LEMMA UsersKeepHashes ==
  ASSUME TypeOK, Users, NEW s \in Servers, Present(srv[s]), Present(srv'[s])
  PROVE  srv'[s].status.hash = srv[s].status.hash
<1>1. ServersTyped /\ born \in [Servers -> Nat]
  BY DEF TypeOK, ClusterTypeOK, EnvironmentTyped
<1>2. \A t \in Servers : Present(srv[t]) => srv[t] \in Server
  BY <1>1 DEF ServersTyped, Present
<1>3. ASSUME NEW t \in Servers, NEW spec \in ServerSpecs, CreateServer(t, spec)
      PROVE  srv'[s].status.hash = srv[s].status.hash
  <2>1. NewServer(born[t] + 1, spec) \in Server
    BY <1>1 DEF NewServer, Server, ServerStatus, Conditions
  <2> QED
    BY <1>1, <1>3, <2>1, KeptHash DEF CreateServer
<1>4. ASSUME NEW t \in Servers, NEW spec \in ServerSpecs, EditServer(t, spec)
      PROVE  srv'[s].status.hash = srv[s].status.hash
  <2> DEFINE o == [srv[t] EXCEPT !.spec = spec, !.status.seen = FALSE]
  <2>1. srv[t] \in Server /\ PutServer(t, o)
    BY <1>2, <1>4 DEF EditServer
  <2>2. o \in Server /\ o.status.hash = srv[t].status.hash
    BY <2>1 DEF Server, ServerStatus
  <2> HIDE DEF o
  <2> QED
    BY <1>1, <2>1, <2>2, KeptHash
<1>5. ASSUME NEW t \in Servers, DeleteServer(t)
      PROVE  srv'[s].status.hash = srv[s].status.hash
  <2> DEFINE o == [srv[t] EXCEPT !.deleting = TRUE]
  <2>1. srv[t] \in Server /\ PutServer(t, o)
    BY <1>2, <1>5 DEF DeleteServer
  <2>2. o \in Server /\ o.status.hash = srv[t].status.hash
    BY <2>1 DEF Server
  <2> HIDE DEF o
  <2> QED
    BY <1>1, <2>1, <2>2, KeptHash
<1>6. CASE \/ \E r \in Routes, spec \in RouteSpecs :
                CreateRoute(r, spec) \/ EditRoute(r, spec)
           \/ \E r \in Routes : DeleteRoute(r)
           \/ UsersOnUpstreams
           \/ \E t \in Servers, k \in Kinds : Tamper(t, k)
  BY <1>6 DEF UsersOnUpstreams, CreateRoute, EditRoute, DeleteRoute,
     CreateUpstream, EditUpstream, DeleteUpstream, ScaleService, Tamper,
     serverVars
<1> QED
  BY <1>3, <1>4, <1>5, <1>6 DEF Users, UsersOnUpstreams

\* Of the steps of a server's reconcile, only updateStatus brings a new hash.
LEMMA ServerStepHashes ==
  ASSUME TypeOK, ServersFit, ServerStep,
         NEW s \in Servers, Present(srv[s]), Present(srv'[s]),
         srv'[s].status.hash # srv[s].status.hash
  PROVE  sPc = "status" /\ s = sKey /\ srv'[s].status.hash = sCfg
<1>1. ServersTyped /\ ServerTypeOK /\ ServerCurrent \in BOOLEAN
  BY DEF TypeOK, ClusterTypeOK, ServerCurrent
<1>2. sPc # "idle" => /\ sKey \in Servers /\ sObj \in Server
                      /\ sObj.status \in ServerStatus
  BY <1>1 DEF ServerTypeOK, Server
<1>3. ASSUME NEW effects \in SUBSET {"ok", "noop"},
             NEW reply \in Replies(ServerCurrent, effects), Applied(reply),
             sPc # "idle"
      PROVE  sObj = srv[sKey]
  <2>1. ServerCurrent
    BY <1>1, <1>3, AppliedIsCurrent
  <2> QED
    BY <1>2, <1>3, <2>1 DEF ServersFit, ServerCopiesAreCurrent, ServerCurrent
<1>4. ASSUME sPc # "idle", NEW o \in Server, NEW reply,
             WriteServer(sKey, o, reply, {"reconciler"}),
             \E effects \in SUBSET {"ok", "noop"} :
               reply \in Replies(ServerCurrent, effects)
      PROVE  s = sKey /\ srv'[s] = o /\ o.status.hash # sObj.status.hash
  <2>1. Applied(reply)
    BY <1>4 DEF WriteServer
  <2>2. PutServer(sKey, o)
    BY <1>4, <2>1 DEF WriteServer
  <2>3. sObj = srv[sKey]
    BY <1>3, <1>4, <2>1
  <2>4. o.status.hash # sObj.status.hash
    BY <1>1, <1>2, <1>4, <2>2, <2>3, KeptHash
  <2>5. s = sKey
    BY <1>1, <1>2, <1>4, <2>2 DEF PutServer, ServersTyped
  <2>6. srv'[s] = o
    BY <1>1, <2>2, <2>5 DEF PutServer, ServersTyped, Stored, Present
  <2> QED
    BY <2>4, <2>5, <2>6
<1>5. ASSUME NEW b \in BOOLEAN, sPc # "idle",
             NEW reply \in Replies(ServerCurrent, {"ok"}),
             WriteServer(sKey, UpdatedServer([sObj EXCEPT !.fin = b]), reply,
                         {"reconciler"})
      PROVE  FALSE
  <2> DEFINE c == [sObj EXCEPT !.fin = b]
             o == UpdatedServer(c)
  <2>0. c \in Server /\ c.status = sObj.status
    BY <1>2, <1>5 DEF Server
  <2> HIDE DEF c
  <2>1. o \in Server /\ o.status.hash = sObj.status.hash
    BY <2>0, UpdatedServerTyped
  <2> USE DEF c
  <2>2. /\ WriteServer(sKey, o, reply, {"reconciler"})
        /\ \E effects \in SUBSET {"ok", "noop"} :
             reply \in Replies(ServerCurrent, effects)
    BY <1>5
  <2> HIDE DEF o
  <2> QED
    BY <1>4, <1>5, <2>1, <2>2
<1>6. ASSUME sPc # "idle", NEW status \in ServerStatus, NEW stamped, NEW reply,
             WriteServerStatus(status, stamped, reply)
      PROVE  /\ s = sKey /\ srv'[s].status.hash = status.hash
             /\ status.hash # sObj.status.hash
  <2> DEFINE o == [sObj EXCEPT !.status = status]
  <2>1. o \in Server /\ o.status = status
    BY <1>2, <1>6 DEF Server
  <2>2. /\ WriteServer(sKey, o, reply, {"reconciler"})
        /\ \E effects \in SUBSET {"ok", "noop"} :
             reply \in Replies(ServerCurrent, effects)
    BY <1>6 DEF WriteServerStatus, StatusReplies
  <2> HIDE DEF o
  <2> QED
    BY <1>4, <1>6, <2>1, <2>2
<1>7. CASE ServerHandleDeletion \/ ServerAddFinalizer
  BY <1>5, <1>7 DEF ServerHandleDeletion, ServerAddFinalizer
<1>8. CASE ServerNotValid
  <2> DEFINE status == [sObj.status EXCEPT !.Ready = "False", !.seen = TRUE]
  <2>1. sPc # "idle" /\ \E reply : WriteServerStatus(status, FALSE, reply)
    BY <1>8 DEF ServerNotValid
  <2>2. status \in ServerStatus /\ status.hash = sObj.status.hash
    BY <1>2, <2>1 DEF ServerStatus, Conditions
  <2> HIDE DEF status
  <2> QED
    BY <1>6, <2>1, <2>2
<1>9. CASE ServerNotGenerated
  <2> DEFINE status == [sObj.status EXCEPT !.ConfigValid = "False"]
  <2>1. sPc # "idle" /\ \E reply : WriteServerStatus(status, TRUE, reply)
    BY <1>9 DEF ServerNotGenerated
  <2>2. status \in ServerStatus /\ status.hash = sObj.status.hash
    BY <1>2, <2>1 DEF ServerStatus, Conditions
  <2> HIDE DEF status
  <2> QED
    BY <1>6, <2>1, <2>2
<1>10. CASE UpdateStatus
  <2>1. sPc = "status" /\ sPc # "idle"
    BY <1>10 DEF UpdateStatus
  <2>2. sCfg \in Configs
    BY <1>1, <2>1 DEF ServerTypeOK
  <2>3. PICK b \in {"True", "False"},
              reply \in {"ok", "noop", "conflict", "error", "lost"} :
          WriteServerStatus([Ready |-> b, ConfigValid |-> "True",
                             seen |-> TRUE, hash |-> sCfg], TRUE, reply)
    BY <1>10 DEF UpdateStatus
  <2>4. [Ready |-> b, ConfigValid |-> "True", seen |-> TRUE, hash |-> sCfg]
          \in ServerStatus
    BY <2>2 DEF ServerStatus, Conditions
  <2> QED
    BY <1>6, <2>1, <2>3, <2>4
<1>11. CASE GenerateFullConfig \/ \E k \in Kinds : ReconcileChild(k)
  BY <1>11 DEF GenerateFullConfig, ReconcileChild, clusterVars, serverVars
<1> QED
  BY <1>7, <1>8, <1>9, <1>10, <1>11 DEF ServerStep

\* Nor does a touch, or anything else the other controllers do.
LEMMA OtherStepKeepsHashes ==
  ASSUME TypeOK, ServersFit, RouteStep \/ UpstreamStep,
         NEW s \in Servers, Present(srv[s]), Present(srv'[s])
  PROVE  srv'[s].status.hash = srv[s].status.hash
<1>1. ServersTyped
  BY DEF TypeOK, ClusterTypeOK
<1>2. ASSUME NEW t \in Servers, Present(srvC[t]), NEW reply,
             TriggerServerReconcile(t, reply)
      PROVE  srv'[s].status.hash = srv[s].status.hash
  <2>1. CASE Applied(reply)
    <3>1. PutServer(t, UpdatedServer(srvC[t]))
      BY <1>2, <2>1 DEF TriggerServerReconcile, WriteServer
    <3>2. "cache" \in srvFresh[t]
      BY <1>2, <2>1 DEF TriggerServerReconcile, Replies, Applied
    <3>3. srvC[t] = srv[t] /\ srvC[t] \in Server
      BY <1>1, <1>2, <3>2
         DEF ServersFit, ServerCopiesAreCurrent, ServersTyped, Present
    <3>4. /\ UpdatedServer(srvC[t]) \in Server
          /\ UpdatedServer(srvC[t]).status.hash = srv[t].status.hash
      BY <3>3, UpdatedServerTyped
    <3> QED
      BY <1>1, <3>1, <3>3, <3>4, KeptHash
  <2>2. CASE ~Applied(reply)
    BY <1>2, <2>2 DEF TriggerServerReconcile, WriteServer
  <2> QED
    BY <2>1, <2>2
<1> QED
  BY <1>2, RouteStepOnServers, UpstreamStepOnServers DEF serverVars

\* Whatever its interleaving with users, caches, failures and restarts, a
\* reconcile publishes in status.configHash only what the Deployment carries
\* at that moment, unless someone has deleted the Deployment.
THEOREM PublishedHashesAreDeployed == Spec => PublishedHashIsDeployed
<1> DEFINE Sound(s) ==
      LET d == kid[s]["Deployment"]
      IN /\ Present(srv[s]) /\ Present(srv'[s]) /\ Present(d)
         /\ srv'[s].uid = srv[s].uid
         /\ srv'[s].status.hash # srv[s].status.hash
         => d.data = srv'[s].status.hash
<1>1. Init => TypeOK /\ ServersFit /\ HashesFit
  BY TypeOKInit, ServersFitInit, HashesFitInit
<1>2. TypeOK /\ ServersFit /\ HashesFit /\ [Next]_vars
        => TypeOK' /\ ServersFit' /\ HashesFit'
  BY TypeOKNext, ServersFitNext, HashesFitNext
<1>3. TypeOK /\ ServersFit /\ HashesFit /\ [Next]_vars
        => [\A s \in Servers : Sound(s)]_vars
  <2> SUFFICES ASSUME TypeOK, ServersFit, HashesFit, Next, NEW s \in Servers,
                      Present(srv[s]), Present(srv'[s]),
                      Present(kid[s]["Deployment"]),
                      srv'[s].status.hash # srv[s].status.hash
               PROVE  kid[s]["Deployment"].data = srv'[s].status.hash
    OBVIOUS
  <2>1. srv' # srv
    OBVIOUS
  <2>2. CASE ServerStep
    <3>1. sPc = "status" /\ s = sKey /\ srv'[s].status.hash = sCfg
      BY <2>2, ServerStepHashes
    <3> QED
      BY <3>1 DEF HashesFit, IsDeployed, Present
  <2>3. /\ ~(\E t \in Servers : FetchServer(t)) /\ ~(\E r \in Routes : FetchRoute(r))
        /\ ~(\E u \in Upstreams : FetchUpstream(u))
    BY <2>1 DEF FetchServer, FetchRoute, FetchUpstream, serverVars
  <2>4. CASE RouteStep \/ UpstreamStep \/ Users
    BY <2>4, OtherStepKeepsHashes, UsersKeepHashes
  <2>5. ~Kubernetes /\ ~Events /\ ~Restart
    BY <2>1 DEF Kubernetes, Surge, Rollout, Terminate, CollectGarbage, Events,
       ServerEvent, CatchUpServer, RouteEvent, CatchUpRoute, UpstreamEvent,
       CatchUpUpstream, ChildEvent, CatchUpChild, Restart, RelistAll, serverVars
  <2> QED
    BY <2>2, <2>3, <2>4, <2>5
       DEF Next, ServerController, RouteController, UpstreamController, Environment
<1> QED
  BY <1>1, <1>2, <1>3, PTL DEF Spec, PublishedHashIsDeployed
=============================================================================
