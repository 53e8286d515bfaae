------------------------------ MODULE Operator ------------------------------
(***************************************************************************)
(* The operator process: the server, the route and the upstream controller *)
(* run side by side against one API and one set of informer caches, and    *)
(* wake each other only through the events of the objects they write.      *)
(***************************************************************************)
EXTENDS NginxServerController, NginxRouteController, NginxUpstreamController

vars == <<clusterVars, serverControllerVars, routeControllerVars,
          upstreamControllerVars>>

Init == ClusterInit /\ ServerInit /\ RouteInit /\ UpstreamInit

-----------------------------------------------------------------------------
(***************************************************************************)
(* Watches.  A server event wakes the server reconciler and, through       *)
(* findRoutesForServer and findUpstreamsForServer, that of every cached    *)
(* route and upstream naming the server; a route or an upstream event      *)
(* wakes its own reconciler only; the event of a child wakes the           *)
(* reconciler of the server that owns it.                                  *)
(***************************************************************************)
FindNoRoutes(s) == {}   \* mutant: no Watches of the route controller

FindRoutesForServer(s) ==
  {r \in Routes : Present(rtC[r]) /\ rtC[r].spec.serverRef = s}

FindUpstreamsForServer(s) ==
  {u \in Upstreams : Present(upC[u]) /\ upC[u].spec.serverRef = s}

ServerEvent(s) == /\ CatchUpServer(s)
                  /\ sQ' = sQ \cup {s}
                  /\ rQ' = rQ \cup FindRoutesForServer(s)
                  /\ uQ' = uQ \cup FindUpstreamsForServer(s)
                  /\ UNCHANGED <<serverLocals, routeLocals, upstreamLocals>>

RouteEvent(r) == /\ CatchUpRoute(r)
                 /\ rQ' = rQ \cup {r}
                 /\ UNCHANGED <<serverControllerVars, routeLocals,
                                upstreamControllerVars>>

UpstreamEvent(u) == /\ CatchUpUpstream(u)
                    /\ uQ' = uQ \cup {u}
                    /\ UNCHANGED <<serverControllerVars, routeControllerVars,
                                   upstreamLocals>>

\* Mutant: no Owns of the server controller.
ChildEventUnwatched(s, k) ==
  /\ CatchUpChild(s, k)
  /\ UNCHANGED <<serverControllerVars, routeControllerVars,
                 upstreamControllerVars>>

ChildEvent(s, k) == /\ CatchUpChild(s, k)
                    /\ sQ' = sQ \cup {s}
                    /\ UNCHANGED <<serverLocals, routeControllerVars,
                                   upstreamControllerVars>>

\* The process dies with its queues, caches and running reconciles; the new
\* one lists every object and is told of each as of an addition.
Restart ==
  /\ RelistAll
  /\ sPc' = "idle" /\ sKey' = Absent /\ sObj' = Absent /\ sCfg' = Absent
  /\ rPc' = "idle" /\ rKey' = Absent /\ rObj' = Absent
  /\ uPc' = "idle" /\ uKey' = Absent /\ uObj' = Absent
  /\ sQ' = {s \in Servers : \/ Present(srv[s])
                            \/ \E k \in Kinds : Present(kid[s][k])}
  /\ rQ' = {r \in Routes : Present(rt[r])}
  /\ uQ' = {u \in Upstreams : Present(up[u])}

-----------------------------------------------------------------------------
Events == \/ \E s \in Servers : ServerEvent(s)
          \/ \E r \in Routes : RouteEvent(r)
          \/ \E u \in Upstreams : UpstreamEvent(u)
          \/ \E s \in Servers, k \in Kinds : ChildEvent(s, k)

ServerController == /\ \/ \E s \in Servers : FetchServer(s)
                       \/ ServerStep
                    /\ UNCHANGED <<routeControllerVars, upstreamControllerVars>>

RouteController == /\ \/ \E r \in Routes : FetchRoute(r)
                      \/ RouteStep
                   /\ UNCHANGED <<serverControllerVars, upstreamControllerVars>>

UpstreamController == /\ \/ \E u \in Upstreams : FetchUpstream(u)
                         \/ UpstreamStep
                      /\ UNCHANGED <<serverControllerVars, routeControllerVars>>

Environment == /\ Users \/ Kubernetes
               /\ UNCHANGED <<serverControllerVars, routeControllerVars,
                              upstreamControllerVars>>

Next == \/ ServerController \/ RouteController \/ UpstreamController
        \/ Events \/ Restart \/ Environment

Spec == Init /\ [][Next]_vars

(***************************************************************************)
(* Fairness.  Workers, informers and the controllers of Kubernetes always  *)
(* go on.  The workqueue is first in, first out: a key that waits is       *)
(* taken, although other keys come and go.  Users owe nothing.             *)
(***************************************************************************)
\* The keys that others can come before in a queue: all, unless there is one.
Rivals(keys) == {x \in keys : keys # {x}}

ControllerFairness ==
  /\ WF_vars(ServerController)
  /\ WF_vars(RouteController)
  /\ WF_vars(UpstreamController)
  /\ \A s \in Rivals(Servers) : SF_vars(ServerController /\ FetchServer(s))
  /\ \A r \in Rivals(Routes) : SF_vars(RouteController /\ FetchRoute(r))
  /\ \A u \in Rivals(Upstreams) : SF_vars(UpstreamController /\ FetchUpstream(u))

ClusterFairness ==
  /\ \A s \in Servers : WF_vars(ServerEvent(s))
  /\ \A r \in Routes : WF_vars(RouteEvent(r))
  /\ \A u \in Upstreams : WF_vars(UpstreamEvent(u))
  /\ \A s \in Servers, k \in Kinds : WF_vars(ChildEvent(s, k))
  /\ WF_vars(Environment /\ Kubernetes)

(***************************************************************************)
(* Retries.  A write made right after the Get it is based on, milliseconds *)
(* later, is repeated until it succeeds, and does not lose the race against *)
(* other writers for ever: finalizers, and the touch of a server that the  *)
(* periodic refresh of an upstream waits for.  Nothing of the kind is      *)
(* assumed of updateStatus, which comes after three other writes.          *)
(***************************************************************************)
Finalize(s) == /\ sKey = s
               /\ ServerAddFinalizer \/ ServerHandleDeletion
               /\ UNCHANGED <<routeControllerVars, upstreamControllerVars>>

Refresh(u) == uKey = u /\ UpstreamController /\ ResolveAndTrigger

RetryFairness ==
  /\ \A s \in Servers :
       []<><<Finalize(s)>>_vars => []<><<Finalize(s) /\ srv'[s] # srv[s]>>_vars
  /\ \A u \in Upstreams :
       []<><<Refresh(u)>>_vars => []<><<Refresh(u) /\ uPc' # "idle">>_vars

FairSpec == Spec /\ ControllerFairness /\ ClusterFairness /\ RetryFairness

-----------------------------------------------------------------------------
TypeOK == ClusterTypeOK /\ ServerTypeOK /\ RouteTypeOK /\ UpstreamTypeOK

(***************************************************************************)
(* Refinement.                                                             *)
(***************************************************************************)
ServerLives == [s \in Servers |-> Life(srv[s])]
RouteLives == [r \in Routes |-> Life(rt[r])]
UpstreamLives == [u \in Upstreams |-> Life(up[u])]

ServerLife == INSTANCE ResourceLifecycle
  WITH Names <- Servers, Specs <- ServerSpecs, Defaults <- ServerDefaults,
       objects <- ServerLives, requests <- ops
RouteLife == INSTANCE ResourceLifecycle
  WITH Names <- Routes, Specs <- RouteSpecs, Defaults <- RouteDefaults,
       objects <- RouteLives, requests <- ops
UpstreamLife == INSTANCE ResourceLifecycle
  WITH Names <- Upstreams, Specs <- UpstreamSpecs, Defaults <- UpstreamDefaults,
       objects <- UpstreamLives, requests <- ops

\* Three controllers and the users write the same NginxServer, the controllers
\* from copies that may be old.  No write of a controller takes a spec back to an
\* earlier one or changes more of it than its zero values, undoes a deletion,
\* adopts a dying resource, or lets one go that nobody deleted.
ServerLifecycle == ServerLife!Spec

\* The same of the NginxRoutes, which the route controller and users write.
RouteLifecycle == RouteLife!Spec

\* The same of the NginxUpstreams.  What the controller discovers, and puts in
\* the spec of its own copy, never gets into the spec the user has written.
UpstreamLifecycle == UpstreamLife!Spec

\* The touch forces a reconcile "by updating an annotation" (triggerServerReconcile
\* in nginxroute_controller.go): what a user has set in a spec no controller
\* changes, a false or a zero least of all.
OnlyUsersEdit ==
  [][\A s \in Servers :
       Present(srv[s]) /\ Present(srv'[s]) /\ srv'[s].uid = srv[s].uid
         /\ ops' = ops => srv'[s].spec = srv[s].spec]_vars

-----------------------------------------------------------------------------
(***************************************************************************)
(* Safety.                                                                 *)
(***************************************************************************)
\* updateStatus publishes a config hash several writes after it was computed.
\* The Deployment then carries that very hash, unless it has been deleted.
PublishedHashIsDeployed ==
  [][\A s \in Servers :
       LET d == kid[s]["Deployment"]
       IN /\ Present(srv[s]) /\ Present(srv'[s]) /\ Present(d)
          /\ srv'[s].uid = srv[s].uid
          /\ srv'[s].status.hash # srv[s].status.hash
          => d.data = srv'[s].status.hash]_vars

\* A Ready condition carries the generation it is about, and is written several
\* API calls after the reconcile has read the resource.  One that is True of the
\* generation a server is at goes with the hash of a configuration of that very
\* spec, an accepted one - also after a later generation of it has failed,
\* which leaves Ready and the hash as they were.
ServerReadyForItsSpec ==
  \A s \in Servers :
    Present(srv[s]) /\ srv[s].status.seen /\ srv[s].status.Ready = "True"
      => /\ srv[s].spec \in ValidServerSpecs
         /\ srv[s].status.hash \in Configs
         /\ srv[s].status.hash.spec = srv[s].spec

\* Likewise of routes and upstreams: no edit slips in between validation and the
\* status.
ReadyForAcceptedSpecs ==
  /\ \A r \in Routes : Present(rt[r]) /\ rt[r].seen /\ rt[r].Ready = "True"
       => rt[r].spec.valid
  /\ \A u \in Upstreams : Present(up[u]) /\ up[u].seen /\ up[u].Ready = "True"
       => up[u].spec.valid

(***************************************************************************)
(* At rest.  A resource is settled when its key waits nowhere, no reconcile *)
(* runs for it and the caches have heard of all that was written to it.    *)
(* Nothing will then make its controller look at it again, so that nothing *)
(* may be left to do: the keys that ServerReturn and the events put back   *)
(* are enough, whatever failed, conflicted or came while it was running.   *)
(***************************************************************************)
ServerSettled(s) == /\ s \notin sQ /\ (sPc = "idle" \/ sKey # s)
                    /\ "cache" \in srvFresh[s] /\ kidFresh[s] = Kinds
RouteSettled(r) == /\ r \notin rQ /\ (rPc = "idle" \/ rKey # r)
                   /\ "cache" \in rtFresh[r]
UpstreamSettled(u) == /\ u \notin uQ /\ (uPc = "idle" \/ uKey # u)
                      /\ "cache" \in upFresh[u]

\* Adopted and alive, with a status about its generation; and with children that
\* are all there, with the configuration, and of the spec, that the status
\* publishes.  One with a spec that is refused says so.
ServerInLine(s) ==
  LET o == srv[s]
  IN /\ ~o.deleting /\ o.fin /\ o.status.seen
     /\ o.spec \notin ValidServerSpecs => o.status.Ready = "False"
     /\ o.spec \in ValidServerSpecs =>
          /\ o.status.Ready = "True" /\ o.status.hash.spec = o.spec
          /\ \A k \in Kinds :
               /\ Present(kid[s][k])
               /\ kid[s][k].data = IF k = "Service" THEN o.spec ELSE o.status.hash

\* Ready just if its spec was accepted and the operator knows its server.
RouteInLine(r) ==
  LET o == rt[r]
  IN /\ ~o.deleting /\ o.fin /\ o.seen
     /\ o.Ready = IF o.spec.valid /\ Present(srvC[o.spec.serverRef])
                    THEN "True" ELSE "False"

\* Likewise, with the reason.  One that discovers its backends comes back by
\* itself, unless its Service had no Endpoints object.
UpstreamInLine(u) ==
  LET o == up[u]
  IN /\ ~o.deleting /\ o.fin /\ o.seen
     /\ o.Ready = IF ~o.spec.valid THEN "Failed"
                  ELSE IF ~Present(srvC[o.spec.serverRef]) THEN "ServerNotFound"
                  ELSE IF Discovers(o) THEN "DependencyNotReady" ELSE "True"

\* A server with nothing to come is one with nothing to do: each of its writes
\* that was not the last makes an event, and every other end of a reconcile
\* puts the key back - but for a spec that is refused.
SettledServersAreInLine ==
  \A s \in Servers : ServerSettled(s) /\ Present(srv[s]) => ServerInLine(s)

\* The same of routes, although no event of their own tells them that their
\* server comes or goes: findRoutesForServer does.
SettledRoutesAreInLine ==
  \A r \in Routes : RouteSettled(r) /\ Present(rt[r]) => RouteInLine(r)

\* The same of upstreams, whose server findUpstreamsForServer tells of.
SettledUpstreamsAreInLine ==
  \A u \in Upstreams : UpstreamSettled(u) /\ Present(up[u]) => UpstreamInLine(u)

\* A route or an upstream that is Ready, of the generation it is at, was reported
\* so after a mere touch of its server, whose own reconciler reads other caches
\* later.  Whenever that server is settled with a spec that is accepted, its
\* ConfigMap has the very block that the resource declares - also if the server,
\* or the resource, has been deleted and made anew, edited and edited back.
ReadyIsServed ==
  \A s \in Servers :
    ServerSettled(s) /\ Present(srv[s]) /\ srv[s].spec \in ValidServerSpecs =>
      LET cfg == kid[s]["ConfigMap"].data
      IN /\ \A r \in Routes :
              /\ Present(rt[r]) /\ rt[r].seen /\ rt[r].Ready = "True"
              /\ rt[r].spec.serverRef = s
              => \E i \in DOMAIN cfg.blocks :
                   cfg.blocks[i] = [route |-> r, spec |-> rt[r].spec]
         /\ \A u \in Upstreams :
              /\ Present(up[u]) /\ up[u].seen /\ up[u].Ready = "True"
              /\ up[u].spec.serverRef = s
              => \E i \in DOMAIN cfg.upstreams :
                   cfg.upstreams[i] = [upstream |-> u,
                                       backends |-> up[u].spec.backends]

\* No reconcile runs, none is due and no event is on its way.
Quiet == /\ sPc = "idle" /\ rPc = "idle" /\ uPc = "idle"
         /\ sQ = {} /\ rQ = {} /\ uQ = {}
         /\ \A s \in Servers : /\ "cache" \in srvFresh[s]
                               /\ kidFresh[s] = Kinds
         /\ \A r \in Routes : "cache" \in rtFresh[r]
         /\ \A u \in Upstreams : "cache" \in upFresh[u]

\* The server's blocks as the resources now declare them.
DeclaredBlocks(s) == ListRoutes(s, rt)
DeclaredUpstreams(s) == ListUpstreams(s, up)

\* NginxRouteFinalizer is there "to ensure config removal" (conditions.go):
\* once the operator rests, no configuration has a block nobody declares.
NoLeftoverBlocks ==
  Quiet => \A s \in Servers :
    Present(kid[s]["ConfigMap"]) =>
      LET blocks == kid[s]["ConfigMap"].data.blocks
      IN \A i \in DOMAIN blocks : blocks[i].route \in
           {b.route : b \in DeclaredBlocks(s)}

\* AnnotationConfigHash "stores the SHA-256 hash of the current NGINX
\* configuration" (conditions.go): once the operator rests and the pods have
\* rolled out, they run the configuration they are labelled with.
PodsRunWhatTheyAreLabelled ==
  Quiet => \A s \in Servers :
    Present(pods[s]) /\ Present(kid[s]["Deployment"])
      /\ pods[s].hash = kid[s]["Deployment"].data
      => pods[s].conf = pods[s].hash

\* The hash is "used for change detection to avoid unnecessary NGINX reloads"
\* (generator.go): the pods are replaced only for a new set of blocks or spec.
Contents(cfg) == <<cfg.spec, {cfg.upstreams[i] : i \in DOMAIN cfg.upstreams},
                   {cfg.blocks[i] : i \in DOMAIN cfg.blocks}>>
NoRolloutWithoutChange ==
  [][\A s \in Servers :
       LET d == kid[s]["Deployment"]
           e == kid'[s]["Deployment"]
       IN Present(d) /\ Present(e) /\ d.data # e.data
          => Contents(d.data) # Contents(e.data)]_vars

\* ConditionReady "indicates the resource is fully reconciled and operational"
\* (conditions.go): when it is True, pods run the configuration of the status.
ReadyMeansServing ==
  \A s \in Servers :
    Present(srv[s]) /\ srv[s].status.Ready = "True"
      => Present(pods[s]) /\ pods[s].hash = srv[s].status.hash

-----------------------------------------------------------------------------
(***************************************************************************)
(* Liveness, once users have stopped.                                      *)
(***************************************************************************)
Renderable(s) == /\ Present(srv[s]) /\ ~srv[s].deleting
                 /\ srv[s].spec \in ValidServerSpecs
                 /\ \A b \in DeclaredBlocks(s) : b.spec.valid
                 /\ \A x \in DeclaredUpstreams(s) :
                      up[x.upstream].spec.valid /\ Resolvable(up[x.upstream])
                 /\ ReferencesAreListed(DeclaredUpstreams(s), DeclaredBlocks(s))

\* What is left of a configuration without the blocks of deleted resources,
\* which may stay behind: see NoLeftoverBlocks.
WithoutLeftovers(cfg) ==
  [cfg EXCEPT !.upstreams = SelectSeq(@, LAMBDA x : Present(up[x.upstream])),
              !.blocks = SelectSeq(@, LAMBDA x : Present(rt[x.route]))]

\* Whatever events are merged, whichever write conflicts, fails or loses its
\* reply: the ConfigMap and the Deployment of a server end up with the
\* configuration its resources declare, and under an owner that exists.
Converged(s) ==
  \A k \in {"ConfigMap", "Deployment"} :
    /\ Present(kid[s][k])
    /\ WithoutLeftovers(kid[s][k].data)
         \in Renderings(srv[s].spec, DeclaredUpstreams(s), DeclaredBlocks(s))
    /\ kid[s][k].owner = srv[s].uid
ConfigConverges == <>[](\A s \in Servers : Renderable(s) => Converged(s))

\* handleDeletion leaves the children to the garbage collector, while a
\* reconcile that read an old cache may still create them again.  In the end
\* none outlives its server, also if a server of that name is created anew.
NoOrphans ==
  <>[](\A s \in Servers, k \in Kinds :
         Present(kid[s][k]) => /\ Present(srv[s])
                               /\ kid[s][k].owner = srv[s].uid)

\* findRoutesForServer is what tells a route that its server came or went: in
\* the end no live route claims to be Ready that is invalid or has no server.
ReadyRoutesHaveServers ==
  <>[](\A r \in Routes :
         Present(rt[r]) /\ ~rt[r].deleting /\ rt[r].Ready = "True"
           => rt[r].spec.valid /\ Present(srv[rt[r].spec.serverRef]))

\* findUpstreamsForServer likewise of upstreams, whose reconciler also comes
\* back by itself, but only after a success: no live upstream stays Ready that
\* is invalid, has no server, or reports other endpoints than its Service has.
ReadyUpstreamsAreBacked ==
  <>[](\A u \in Upstreams :
         Present(up[u]) /\ ~up[u].deleting /\ up[u].Ready = "True"
           => /\ up[u].spec.valid /\ Present(srv[up[u].spec.serverRef])
              /\ Discovers(up[u]) =>
                   up[u].discovered = endpoints[up[u].spec.service])

\* "When enabled, Backends field is ignored and endpoints are auto-populated"
\* (nginxupstream_types.go): in the end the upstream blocks list the backends
\* that are discovered, if their upstream is to discover any.
DiscoveredBackendsAreServed ==
  <>[](\A s \in Servers : Renderable(s) /\ Present(kid[s]["ConfigMap"]) =>
         LET ups == kid[s]["ConfigMap"].data.upstreams
         IN \A i \in DOMAIN ups :
              LET o == up[ups[i].upstream]
              IN Present(o) /\ Discovers(o) =>
                   ups[i].backends = endpoints[o.spec.service])

\* "When an NginxRoute is created, updated, or deleted, this controller
\* triggers a re-reconciliation" (nginxroute_controller.go): when nobody
\* creates, updates or deletes any more, the operator comes to rest.
ComesToRest == <>[]Quiet

\* Reconcile "6. Updates status with current state" (nginxserver_controller.go):
\* in the end the status of a live server carries its Deployment's hash.
StatusConverges ==
  <>[](\A s \in Servers : Renderable(s) /\ Present(kid[s]["Deployment"])
         => srv[s].status.hash = kid[s]["Deployment"].data)
=============================================================================
