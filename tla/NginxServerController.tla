----------------------- MODULE NginxServerController -----------------------
(***************************************************************************)
(* NginxServerReconciler: from an NginxServer and the NginxRoutes and      *)
(* NginxUpstreams that reference it, render one configuration and keep a   *)
(* ConfigMap, a Deployment and a Service in line.  One worker takes keys   *)
(* off the workqueue; a step is all Reconcile does up to and including its *)
(* next API write, so that users, caches and the other controllers move    *)
(* between any two writes.  A requeue, delayed or not, puts the key back.  *)
(***************************************************************************)
EXTENDS Cluster

VARIABLES
  sQ,     \* workqueue: keys of NginxServers
  sPc,    \* what the running reconcile does next; "idle" when none runs
  sKey,   \* the key it runs for
  sObj,   \* its copy of the NginxServer
  sCfg    \* fullConfig

serverLocals == <<sPc, sKey, sObj, sCfg>>
serverControllerVars == <<sQ, serverLocals>>

ServerSteps == {"idle", "removeFinalizer", "addFinalizer", "notValid", "list",
                "notGenerated", "ConfigMap", "Deployment", "Service", "status"}

ServerInit == /\ sQ = {s \in Servers : Present(srv[s])}
              /\ sPc = "idle" /\ sKey = Absent /\ sObj = Absent /\ sCfg = Absent

ServerCurrent == "reconciler" \in srvFresh[sKey]

\* Mutant: errors are swallowed.
ServerReturnForGood(requeue) ==
  /\ sPc' = "idle" /\ sKey' = Absent /\ sObj' = Absent /\ sCfg' = Absent
  /\ UNCHANGED sQ

\* Reconcile returns; the key goes back on the queue if it asked for that.
ServerReturn(requeue) ==
  /\ sPc' = "idle" /\ sKey' = Absent /\ sObj' = Absent /\ sCfg' = Absent
  /\ sQ' = IF requeue THEN sQ \cup {sKey} ELSE sQ

ServerContinue(pc) == sPc' = pc /\ UNCHANGED <<sQ, sKey, sObj, sCfg>>

-----------------------------------------------------------------------------
\* Which checks it makes is left out.
ValidateNginxServer(o) == o.spec \in ValidServerSpecs

FirstServerStep(o) == IF o.deleting THEN "removeFinalizer"
                      ELSE IF ~o.fin THEN "addFinalizer"
                      ELSE IF ~ValidateNginxServer(o) THEN "notValid"
                      ELSE "list"

FetchServer(s) ==
  /\ sPc = "idle" /\ s \in sQ
  /\ sQ' = sQ \ {s}
  /\ IF ~Present(srvC[s]) \/ (srvC[s].deleting /\ ~srvC[s].fin)
       THEN UNCHANGED <<serverLocals, srvFresh>>
       ELSE /\ sPc' = FirstServerStep(srvC[s])
            /\ sKey' = s /\ sObj' = srvC[s] /\ sCfg' = Absent
            /\ srvFresh' = TakeCopy(srvFresh, s)
  /\ UNCHANGED <<srv, srvC, routeVars, upstreamVars, kidVars, envVars, faults>>

\* handleDeletion: the children are left to the garbage collector.
ServerHandleDeletion ==
  /\ sPc = "removeFinalizer"
  /\ \E reply \in Replies(ServerCurrent, {"ok"}) :
       /\ WriteServer(sKey, UpdatedServer([sObj EXCEPT !.fin = FALSE]), reply,
                      {"reconciler"})
       /\ ServerReturn(~Succeeded(reply))
  /\ UNCHANGED <<routeVars, upstreamVars, kidVars, envVars>>

ServerAddFinalizer ==
  /\ sPc = "addFinalizer"
  /\ \E reply \in Replies(ServerCurrent, {"ok"}) :
       WriteServer(sKey, UpdatedServer([sObj EXCEPT !.fin = TRUE]), reply,
                   {"reconciler"})
  /\ ServerReturn(TRUE)
  /\ UNCHANGED <<routeVars, upstreamVars, kidVars, envVars>>

-----------------------------------------------------------------------------
(***************************************************************************)
(* Status().Update.  A condition that already has the value keeps its      *)
(* transition time, so that the write changes nothing; LastReloadTime has  *)
(* a resolution of a second and may or may not differ from the last one.   *)
(***************************************************************************)
StatusReplies(current, old, new, stamped) ==
  Replies(current, IF old # new THEN {"ok"}
                   ELSE IF stamped THEN {"ok", "noop"} ELSE {"noop"})

WriteServerStatus(status, stamped, reply) ==
  /\ reply \in StatusReplies(ServerCurrent, sObj.status, status, stamped)
  /\ WriteServer(sKey, [sObj EXCEPT !.status = status], reply, {"reconciler"})

\* Validation failed: only an error of the write itself requeues.
ServerNotValid ==
  /\ sPc = "notValid"
  /\ \E reply \in {"ok", "noop", "conflict", "error", "lost"} :
       /\ WriteServerStatus([sObj.status EXCEPT !.Ready = "False",
                                                  !.seen = TRUE], FALSE, reply)
       /\ ServerReturn(~Succeeded(reply))
  /\ UNCHANGED <<routeVars, upstreamVars, kidVars, envVars>>

\* Generation failed: RequeueAfter 30s, the write's own error is only logged.
\* The message names one of the references, the same as last time or not.
ServerNotGenerated ==
  /\ sPc = "notGenerated"
  /\ \E reply \in {"ok", "noop", "conflict", "error", "lost"} :
       WriteServerStatus([sObj.status EXCEPT !.ConfigValid = "False"],
                         TRUE, reply)
  /\ ServerReturn(TRUE)
  /\ UNCHANGED <<routeVars, upstreamVars, kidVars, envVars>>

-----------------------------------------------------------------------------
(***************************************************************************)
(* List and generate.  Neither the deletion timestamp of a route or an     *)
(* upstream nor what its own validation says keeps it out.  The cache      *)
(* lists in any order.  Upstreams are rendered as they come; sort.Slice is *)
(* not stable, so that routes of one priority come in any order too.       *)
(***************************************************************************)
\* Mutant: only routes that are Ready are rendered.
ListReadyRoutes(s, routes) ==
  {[route |-> r, spec |-> routes[r].spec] :
     r \in {x \in Routes : /\ Present(routes[x]) /\ routes[x].spec.serverRef = s
                           /\ routes[x].Ready = "True"}}

ListRoutes(s, routes) ==
  {[route |-> r, spec |-> routes[r].spec] :
     r \in {x \in Routes : Present(routes[x]) /\ routes[x].spec.serverRef = s}}

ListUpstreams(s, upstreams) ==
  {[upstream |-> u, backends |-> upstreams[u].spec.backends] :
     u \in {x \in Upstreams : /\ Present(upstreams[x])
                              /\ upstreams[x].spec.serverRef = s}}

Orders(S) == {p \in [1..Cardinality(S) -> S] :
                \A x \in S : \E i \in DOMAIN p : p[i] = x}

ByPriority(blocks) ==
  {p \in Orders(blocks) :
     \A i, j \in DOMAIN p : i < j => p[i].spec.priority <= p[j].spec.priority}

Renderings(spec, ups, blocks) ==
  {[spec |-> spec, upstreams |-> p, blocks |-> q] :
     p \in Orders(ups), q \in ByPriority(blocks)}

\* A route may refer to the upstreams of its own server only.
ReferencesAreListed(ups, blocks) ==
  \A b \in blocks : b.spec.upstreamRefs \subseteq {x.upstream : x \in ups}

GenerateFullConfig ==
  /\ sPc = "list"
  /\ LET blocks == ListRoutes(sKey, rtC)
         ups == ListUpstreams(sKey, upC)
     IN IF ~ReferencesAreListed(ups, blocks)
          THEN sPc' = "notGenerated" /\ UNCHANGED sCfg
          ELSE /\ sPc' = "ConfigMap"
               /\ sCfg' \in Renderings(sObj.spec, ups, blocks)
  /\ UNCHANGED <<sQ, sKey, sObj, clusterVars>>

-----------------------------------------------------------------------------
(***************************************************************************)
(* reconcileConfigMap, reconcileDeployment, reconcileService: Get from the *)
(* cache, then Create, Update or leave alone.  An Update keeps the owner   *)
(* the object has.  The Deployment the API returns has its defaults filled *)
(* in, never equals the one built, and is always written back.             *)
(***************************************************************************)
DesiredConfig(k) == sCfg   \* mutant: the Service gets the configuration too

Desired(k) == IF k = "Service" THEN sObj.spec ELSE sCfg

\* Mutant: the Deployment is compared with the cached one, as the others are.
NeedsUpdateIfDiffers(k, existing) == existing.data # Desired(k)

NeedsUpdate(k, existing) == k = "Deployment" \/ existing.data # Desired(k)

StepAfter(k) == CASE k = "ConfigMap" -> "Deployment"
                  [] k = "Deployment" /\ "Service" \in Kinds -> "Service"
                  [] OTHER -> "status"

\* Mutant: SetOwnerReference forgotten.
CreateChildUnowned(s, k, reply) ==
  /\ reply \in Replies(~Present(kid[s][k]), {"ok"})
  /\ WriteChild(s, k, [data |-> Desired(k), owner |-> 0, ready |-> FALSE], reply)

CreateChild(s, k, reply) ==
  /\ reply \in Replies(~Present(kid[s][k]), {"ok"})
  /\ WriteChild(s, k, [data |-> Desired(k), owner |-> sObj.uid,
                       ready |-> FALSE], reply)

UpdateChild(s, k, reply) ==
  LET new == [kidC[s][k] EXCEPT !.data = Desired(k)]
  IN /\ reply \in Replies(k \in kidFresh[s],
                  IF new = kidC[s][k] THEN {"noop"} ELSE {"ok"})
     /\ WriteChild(s, k, new, reply)

ReconcileChild(k) ==
  /\ sPc = k
  /\ LET existing == kidC[sKey][k]
     IN IF Present(existing) /\ ~NeedsUpdate(k, existing)
          THEN ServerContinue(StepAfter(k)) /\ UNCHANGED <<kidVars, faults>>
          ELSE \E reply \in {"ok", "noop", "conflict", "error", "lost"} :
                 /\ IF Present(existing) THEN UpdateChild(sKey, k, reply)
                                         ELSE CreateChild(sKey, k, reply)
                 /\ IF Succeeded(reply) THEN ServerContinue(StepAfter(k))
                    ELSE /\ ServerReturn(TRUE)
  /\ UNCHANGED <<srv, srvC, routeVars, upstreamVars, envVars>>
  /\ srvFresh' = IF sPc' = "idle"
                   THEN [srvFresh EXCEPT ![sKey] = @ \ {"reconciler"}]
                   ELSE srvFresh

\* Mutant: the status goes onto the copy the cache then has.
UpdateStatusOfCached ==
  /\ sPc = "status" /\ Present(srvC[sKey])
  /\ LET d == kidC[sKey]["Deployment"]
         ready == Present(d) /\ d.ready
         status == [Ready |-> IF ready THEN "True" ELSE "False",
                    ConfigValid |-> "True", seen |-> TRUE, hash |-> sCfg]
     IN \E reply \in Replies("cache" \in srvFresh[sKey], {"ok"}) :
          /\ WriteServer(sKey, [srvC[sKey] EXCEPT !.status = status],
                         reply, {"reconciler"})
          /\ ServerReturn(~Succeeded(reply) \/ ~ready)
  /\ UNCHANGED <<routeVars, upstreamVars, kidVars, envVars>>

\* Mutant: a Deployment that is not ready yet is not looked at again.
UpdateStatusOnce ==
  /\ sPc = "status"
  /\ LET d == kidC[sKey]["Deployment"]
         ready == Present(d) /\ d.ready
         status == [Ready |-> IF ready THEN "True" ELSE "False",
                    ConfigValid |-> "True", seen |-> TRUE, hash |-> sCfg]
     IN \E reply \in {"ok", "noop", "conflict", "error", "lost"} :
          /\ WriteServerStatus(status, TRUE, reply)
          /\ ServerReturn(~Succeeded(reply))
  /\ UNCHANGED <<routeVars, upstreamVars, kidVars, envVars>>

\* updateStatus: ready is what the cached Deployment's status says.
UpdateStatus ==
  /\ sPc = "status"
  /\ LET d == kidC[sKey]["Deployment"]
         ready == Present(d) /\ d.ready
         status == [Ready |-> IF ready THEN "True" ELSE "False",
                    ConfigValid |-> "True", seen |-> TRUE, hash |-> sCfg]
     IN \E reply \in {"ok", "noop", "conflict", "error", "lost"} :
          /\ WriteServerStatus(status, TRUE, reply)
          /\ ServerReturn(~Succeeded(reply) \/ ~ready)
  /\ UNCHANGED <<routeVars, upstreamVars, kidVars, envVars>>

-----------------------------------------------------------------------------
ServerStep == \/ ServerHandleDeletion \/ ServerAddFinalizer \/ ServerNotValid
              \/ GenerateFullConfig \/ ServerNotGenerated
              \/ \E k \in Kinds : ReconcileChild(k)
              \/ UpdateStatus

ServerTypeOK ==
  /\ sQ \subseteq Servers
  /\ sPc \in ServerSteps
  /\ sPc # "idle" => sKey \in Servers /\ sObj \in Server
  /\ sPc \in Kinds \cup {"status"} => sCfg \in Configs
=============================================================================
