----------------------- MODULE UpstreamLifecycleProofs ----------------------
(***************************************************************************)
(* Operator implements ResourceLifecycle for the NginxUpstreams, for every *)
(* value of the constants.                                                 *)
(***************************************************************************)
EXTENDS LifecycleProofs

-----------------------------------------------------------------------------
(***************************************************************************)
(* The inductive invariant.  Unlike the other reconcilers, that of an      *)
(* upstream changes the spec of its copy before it writes: what it has     *)
(* discovered takes the place of the backends.  Until the step that does,  *)
(* the copy is what it took; and of the write that follows the API takes   *)
(* the status only.                                                        *)
(***************************************************************************)
\* A copy and the upstream it was taken of, whatever backends they list.
Agree(o, p) ==
  /\ o.spec.serverRef = p.spec.serverRef /\ o.spec.service = p.spec.service
  /\ o.spec.valid = p.spec.valid
  /\ o.fin = p.fin /\ o.deleting = p.deleting

\* Who holds a current copy holds what the API holds, but for discoveries.
UpstreamCopiesAreCurrent ==
  \A u \in Upstreams :
    /\ "cache" \in upFresh[u] => upC[u] = up[u]
    /\ "reconciler" \in upFresh[u] =>
         /\ uPc # "idle" /\ uKey = u
         /\ Present(up[u]) /\ Agree(uObj, up[u])
         /\ uPc # "status" => uObj = up[u]

\* The step about to be taken fits the copy it is taken for.
UpstreamStepFits ==
  /\ uPc \in DeletionSteps => uObj.deleting /\ uObj.fin
  /\ uPc \notin DeletionSteps \cup {"idle"} => ~uObj.deleting

\* An upstream that is being deleted is there for its finalizer only.
DyingUpstreamsAreHeld ==
  \A u \in Upstreams : Present(up[u]) /\ up[u].deleting => up[u].fin

UpstreamsFit ==
  UpstreamCopiesAreCurrent /\ UpstreamStepFits /\ DyingUpstreamsAreHeld

\* The operator starts with a cache that is current, and no reconcile.
LEMMA UpstreamsFitInit == Init => UpstreamsFit
<1> SUFFICES ASSUME Init PROVE UpstreamsFit
  OBVIOUS
<1>1. PICK start \in Starts :
        up = [u \in Upstreams |->
                IF Present(start.upstreams[u])
                THEN [NewUpstream(start.upstreams[u]) EXCEPT !.fin = Adopted]
                ELSE Absent]
  BY DEF Init, ClusterInit
<1>2. DyingUpstreamsAreHeld
  BY <1>1 DEF DyingUpstreamsAreHeld, NewUpstream, Present
<1>3. UpstreamCopiesAreCurrent /\ UpstreamStepFits
  BY DEF Init, ClusterInit, UpstreamInit, UpstreamCopiesAreCurrent, UpstreamStepFits,
     DeletionSteps
<1> QED
  BY <1>2, <1>3 DEF UpstreamsFit

\* Whoever else stores an upstream takes everyone's copy out of date.
LEMMA PutUpstreamFits ==
  ASSUME TypeOK, UpstreamsFit, NEW u \in Upstreams, NEW o \in Upstream,
         PutUpstream(u, o), UNCHANGED <<upC, upstreamLocals>>
  PROVE  UpstreamsFit'
<1>1. UpstreamsTyped
  BY DEF TypeOK, ClusterTypeOK
<1>2. DyingUpstreamsAreHeld'
  BY <1>1 DEF PutUpstream, Stored, UpstreamsFit, DyingUpstreamsAreHeld, Present,
     UpstreamsTyped, Upstream
<1>3. UpstreamCopiesAreCurrent'
  BY <1>1 DEF PutUpstream, UpstreamsFit, UpstreamCopiesAreCurrent, UpstreamsTyped,
     upstreamLocals
<1>4. UpstreamStepFits'
  BY DEF UpstreamsFit, UpstreamStepFits, upstreamLocals
<1> QED
  BY <1>2, <1>3, <1>4 DEF UpstreamsFit

\* The upstream reconciler writes, whatever comes of it, and returns.
LEMMA WriteUpstreamFits ==
  ASSUME TypeOK, UpstreamsFit, uPc # "idle", NEW o, NEW reply,
         Applied(reply) => o \in Upstream,
         WriteUpstream(uKey, o, reply), NEW requeue, UpstreamReturn(requeue)
  PROVE  UpstreamsFit'
<1>1. UpstreamsTyped /\ uKey \in Upstreams
  BY DEF TypeOK, ClusterTypeOK, UpstreamTypeOK
<1>2. uPc' = "idle" /\ upC' = upC
  BY DEF UpstreamReturn, WriteUpstream
<1>3. UpstreamStepFits'
  BY <1>2 DEF UpstreamStepFits, DeletionSteps
<1>4. CASE Applied(reply)
  <2>1. PutUpstream(uKey, o)
    BY <1>4 DEF WriteUpstream
  <2>2. DyingUpstreamsAreHeld'
    BY <1>1, <1>4, <2>1 DEF PutUpstream, Stored, UpstreamsFit,
       DyingUpstreamsAreHeld, Present, UpstreamsTyped, Upstream
  <2>3. UpstreamCopiesAreCurrent'
    BY <1>1, <1>2, <2>1 DEF PutUpstream, UpstreamsFit, UpstreamCopiesAreCurrent,
       UpstreamsTyped
  <2> QED
    BY <1>3, <2>2, <2>3 DEF UpstreamsFit
<1>5. CASE ~Applied(reply)
  <2>1. /\ upFresh' = [upFresh EXCEPT ![uKey] = @ \ {"reconciler"}]
        /\ up' = up
    BY <1>5 DEF WriteUpstream
  <2>2. UpstreamCopiesAreCurrent'
    BY <1>1, <1>2, <2>1 DEF UpstreamsFit, UpstreamCopiesAreCurrent, UpstreamsTyped
  <2> QED
    BY <1>3, <2>1, <2>2 DEF UpstreamsFit, DyingUpstreamsAreHeld
<1> QED
  BY <1>4, <1>5

\* A Get takes as good a copy as the cache has, and the step that fits it.
LEMMA FetchUpstreamFits ==
  ASSUME TypeOK, UpstreamsFit, NEW u \in Upstreams, FetchUpstream(u)
  PROVE  UpstreamsFit'
<1>1. UpstreamsTyped /\ uPc = "idle" /\ UNCHANGED <<up, upC>>
  BY DEF TypeOK, ClusterTypeOK, FetchUpstream
<1>2. DyingUpstreamsAreHeld'
  BY <1>1 DEF UpstreamsFit, DyingUpstreamsAreHeld
<1>3. CASE UNCHANGED <<upstreamLocals, upFresh>>
  BY <1>1, <1>2, <1>3 DEF UpstreamsFit, UpstreamCopiesAreCurrent, UpstreamStepFits,
     upstreamLocals
<1>4. CASE /\ ~(upC[u].deleting /\ ~upC[u].fin) /\ Present(upC[u])
           /\ uPc' = FirstUpstreamStep(upC[u])
           /\ uKey' = u /\ uObj' = upC[u]
           /\ upFresh' = TakeCopy(upFresh, u)
  <2>1. upC[u] \in Upstream
    BY <1>1, <1>4 DEF UpstreamsTyped, Present
  <2>2. UpstreamStepFits' /\ uPc' # "idle"
    BY <1>4, <2>1 DEF UpstreamStepFits, FirstUpstreamStep, DeletionSteps, Upstream
  <2>3. \A t \in Upstreams : "reconciler" \notin upFresh[t]
    BY <1>1 DEF UpstreamsFit, UpstreamCopiesAreCurrent
  <2>4. UpstreamCopiesAreCurrent'
    BY <1>1, <1>4, <2>2, <2>3 DEF UpstreamsFit, UpstreamCopiesAreCurrent,
       UpstreamsTyped, TakeCopy, Present, Agree
  <2> QED
    BY <1>2, <2>2, <2>4 DEF UpstreamsFit
<1> QED
  BY <1>3, <1>4 DEF FetchUpstream

\* What is discovered takes the place of backends, and of nothing else.
LEMMA DiscoveryAgrees ==
  ASSUME NEW o \in Upstream
  PROVE  Agree(ResolveServiceEndpoints(o), o)
<1>1. CASE Discovers(o)
  <2> DEFINE b == endpoints[o.spec.service]
  <2>1. ResolveServiceEndpoints(o) =
          [o EXCEPT !.spec.backends = b, !.discovered = b]
    BY <1>1 DEF ResolveServiceEndpoints
  <2>2. o.spec \in UpstreamSpecType
    BY ClusterAssumption DEF Upstream
  <2> HIDE DEF b
  <2> QED
    BY <2>1, <2>2 DEF Agree, Upstream, UpstreamSpecType
<1>2. CASE ~Discovers(o)
  BY <1>2 DEF ResolveServiceEndpoints, Agree
<1> QED
  BY <1>1, <1>2

\* Of the copy the API takes the status only, if it takes the write at all.
LEMMA ReportedTyped ==
  ASSUME TypeOK, uPc # "idle", UpstreamCurrent, NEW ready \in UpstreamConditions
  PROVE  /\ up[uKey] \in Upstream /\ Reported(ready) \in Upstream
         /\ Reported(ready).spec = up[uKey].spec
         /\ Reported(ready).fin = up[uKey].fin
         /\ Reported(ready).deleting = up[uKey].deleting
<1>1. /\ UpstreamsTyped /\ uKey \in Upstreams /\ uObj \in UpstreamCopy
  BY DEF TypeOK, ClusterTypeOK, UpstreamTypeOK
<1>2. up[uKey] \in Upstream
  BY <1>1 DEF UpstreamsTyped, UpstreamCurrent, Present
<1>3. uObj.discovered \in Backends
  BY <1>1 DEF UpstreamCopy
<1> QED
  BY <1>2, <1>3 DEF Reported, Upstream

\* The steps of an upstream's reconcile.
LEMMA UpstreamStepKeepsFit ==
  ASSUME TypeOK, UpstreamsFit, UpstreamStep PROVE UpstreamsFit'
<1>1. UpstreamsTyped
  BY DEF TypeOK, ClusterTypeOK
<1>2. /\ uPc # "idle" => uKey \in Upstreams
      /\ uPc \notin {"idle", "status"} => uObj \in Upstream
  BY DEF TypeOK, UpstreamTypeOK
<1>3. CASE UpstreamAddFinalizer \/ UpstreamRemoveFinalizer
  <2>1. uPc \notin {"idle", "status"}
    BY <1>3 DEF UpstreamAddFinalizer, UpstreamRemoveFinalizer
  <2>2. \A b \in BOOLEAN : UpdatedUpstream([uObj EXCEPT !.fin = b]) \in Upstream
    <3> TAKE b \in BOOLEAN
    <3>1. [uObj EXCEPT !.fin = b] \in Upstream
      BY <1>2, <2>1 DEF Upstream
    <3> QED
      BY <3>1, UpdatedUpstreamTyped
  <2> QED
    BY <1>3, <2>1, <2>2, WriteUpstreamFits
       DEF UpstreamAddFinalizer, UpstreamRemoveFinalizer
<1>4. ASSUME uPc # "idle", NEW ready \in UpstreamConditions, NEW stamped,
             NEW again, WriteUpstreamStatus(ready, stamped, again)
      PROVE  UpstreamsFit'
  <2>1. PICK effects \in SUBSET {"ok", "noop"} :
          \E reply \in Replies(UpstreamCurrent, effects) :
            /\ WriteUpstream(uKey, Reported(ready), reply)
            /\ UpstreamReturn(~Succeeded(reply) \/ again)
    BY <1>4 DEF WriteUpstreamStatus
  <2>2. PICK reply \in Replies(UpstreamCurrent, effects) :
          /\ WriteUpstream(uKey, Reported(ready), reply)
          /\ UpstreamReturn(~Succeeded(reply) \/ again)
    BY <2>1
  <2>2a. UpstreamCurrent \in BOOLEAN
    BY DEF UpstreamCurrent
  <2>3. Applied(reply) => Reported(ready) \in Upstream
    BY <1>4, <2>2, <2>2a, ReportedTyped, AppliedIsCurrent
  <2> QED
    BY <1>4, <2>2, <2>3, WriteUpstreamFits
<1>5. CASE UpstreamNotReady \/ UpstreamReady
  <2>1. {"Failed", "ServerNotFound", "DependencyNotReady", "True"}
          \subseteq UpstreamConditions
    BY DEF UpstreamConditions
  <2> QED
    BY <1>4, <1>5, <2>1 DEF UpstreamNotReady, UpstreamReady
<1>6. CASE ResolveAndTrigger
  <2>1. /\ uPc = "trigger" /\ uKey \in Upstreams /\ uObj \in Upstream
        /\ UNCHANGED <<up, upC>>
    BY <1>2, <1>6 DEF ResolveAndTrigger
  <2>2. Agree(ResolveServiceEndpoints(uObj), uObj)
    BY <2>1, DiscoveryAgrees
  <2>3. \/ /\ uPc' \in {"notResolved", "noServer", "status"}
           /\ Agree(uObj', uObj) /\ UNCHANGED <<uKey, upFresh>>
           /\ uPc' # "status" => uObj' = uObj
        \/ /\ uPc' = "idle"
           /\ upFresh' = [upFresh EXCEPT ![uKey] = @ \ {"reconciler"}]
    BY <1>6, <2>2 DEF ResolveAndTrigger, UpstreamContinue, UpstreamReturn, Agree
  <2>4. UpstreamCopiesAreCurrent'
    BY <1>1, <2>1, <2>3
       DEF UpstreamsFit, UpstreamCopiesAreCurrent, UpstreamsTyped, Agree
  <2>5. UpstreamStepFits' /\ DyingUpstreamsAreHeld'
    BY <2>1, <2>3 DEF UpstreamsFit, UpstreamStepFits, DyingUpstreamsAreHeld,
       DeletionSteps, Agree
  <2> QED
    BY <2>4, <2>5 DEF UpstreamsFit
<1>7. CASE UpstreamTriggerThenRemove
  <2>1. /\ uPc = "triggerThenRemove" /\ uPc' = "removeFinalizer"
        /\ UNCHANGED <<uKey, uObj, up, upC, upFresh>>
    BY <1>7 DEF UpstreamTriggerThenRemove, UpstreamContinue, upstreamVars
  <2> QED
    BY <2>1 DEF UpstreamsFit, UpstreamCopiesAreCurrent, UpstreamStepFits,
       DyingUpstreamsAreHeld, DeletionSteps
<1> QED
  BY <1>3, <1>5, <1>6, <1>7 DEF UpstreamStep

\* What users do that is about anything else.
UsersElsewhere ==
  \/ \E s \in Servers, spec \in ServerSpecs :
       CreateServer(s, spec) \/ EditServer(s, spec)
  \/ \E s \in Servers : DeleteServer(s)
  \/ \E r \in Routes, spec \in RouteSpecs :
       CreateRoute(r, spec) \/ EditRoute(r, spec)
  \/ \E r \in Routes : DeleteRoute(r)
  \/ \E sv \in Services, b \in Backends \cup {Absent} : ScaleService(sv, b)
  \/ \E s \in Servers, k \in Kinds : Tamper(s, k)

\* It leaves the upstreams alone.
LEMMA UsersElsewhereKeepUpstreams ==
  ASSUME UsersElsewhere PROVE UNCHANGED upstreamVars
BY DEF UsersElsewhere, CreateServer, EditServer, DeleteServer, CreateRoute,
   EditRoute, DeleteRoute, ScaleService, Tamper

\* What users may do to the upstreams.
LEMMA UsersWriteUpstreams ==
  ASSUME TypeOK, Users
  PROVE  /\ upC' = upC
         /\ \/ UNCHANGED upstreamVars
            \/ \E u \in Upstreams, o \in Upstream : PutUpstream(u, o)
<1>1. \A u \in Upstreams : Present(up[u]) => up[u] \in Upstream
  BY DEF TypeOK, ClusterTypeOK, UpstreamsTyped, Present
<1>2. ASSUME NEW u \in Upstreams, NEW spec \in UpstreamSpecs,
             CreateUpstream(u, spec) \/ EditUpstream(u, spec)
      PROVE  upC' = upC /\ \E o \in Upstream : PutUpstream(u, o)
  <2>1. NewUpstream(spec) \in Upstream
    BY ClusterAssumption DEF NewUpstream, Upstream, UpstreamConditions
  <2>2. Present(up[u]) => [up[u] EXCEPT !.spec = spec, !.seen = FALSE] \in Upstream
    BY <1>1 DEF Upstream
  <2> QED
    BY <1>2, <2>1, <2>2 DEF CreateUpstream, EditUpstream
<1>3. ASSUME NEW u \in Upstreams, DeleteUpstream(u)
      PROVE  upC' = upC /\ \E o \in Upstream : PutUpstream(u, o)
  <2>1. [up[u] EXCEPT !.deleting = TRUE] \in Upstream
    BY <1>1, <1>3 DEF DeleteUpstream, Upstream
  <2> QED
    BY <1>3, <2>1 DEF DeleteUpstream
<1>4. CASE UsersElsewhere
  BY <1>4, UsersElsewhereKeepUpstreams DEF upstreamVars
<1> QED
  BY <1>2, <1>3, <1>4 DEF Users, UsersElsewhere, upstreamVars

\* UpstreamsFit survives every step.
LEMMA UpstreamsFitNext ==
  ASSUME TypeOK, UpstreamsFit, [Next]_vars PROVE UpstreamsFit'
<1>1. ASSUME UNCHANGED <<upstreamVars, upstreamLocals>> PROVE UpstreamsFit'
  BY <1>1 DEF UpstreamsFit, UpstreamCopiesAreCurrent, UpstreamStepFits,
     DyingUpstreamsAreHeld, upstreamVars, upstreamLocals
<1>2. CASE UpstreamController
  BY <1>2, FetchUpstreamFits, UpstreamStepKeepsFit DEF UpstreamController
<1>3. CASE ServerController
  <2>1. UNCHANGED upstreamLocals
    BY <1>3 DEF ServerController, upstreamControllerVars
  <2>2. UNCHANGED upstreamVars
    BY <1>3, ServerStepTyped DEF ServerController, FetchServer
  <2> QED
    BY <1>1, <2>1, <2>2
<1>10. CASE RouteController
  <2>1. UNCHANGED upstreamLocals
    BY <1>10 DEF RouteController, upstreamControllerVars
  <2>2. UNCHANGED upstreamVars
    BY <1>10, RouteStepTyped DEF RouteController, FetchRoute
  <2> QED
    BY <1>1, <2>1, <2>2
<1>4. CASE Environment /\ Users
  <2>1. UNCHANGED upstreamLocals
    BY <1>4 DEF Environment, upstreamControllerVars
  <2> QED
    BY <1>1, <1>4, <2>1, UsersWriteUpstreams, PutUpstreamFits
<1>5. CASE Environment /\ Kubernetes
  <2>1. UNCHANGED upstreamLocals
    BY <1>5 DEF Environment, upstreamControllerVars
  <2>2. UNCHANGED upstreamVars
    BY <1>5 DEF Kubernetes, Surge, Rollout, Terminate, CollectGarbage
  <2> QED
    BY <1>1, <2>1, <2>2
<1>6. ASSUME NEW u \in Upstreams, UpstreamEvent(u) PROVE UpstreamsFit'
  <2>1. UpstreamsTyped /\ UNCHANGED upstreamLocals
    BY <1>6 DEF TypeOK, ClusterTypeOK, UpstreamEvent
  <2> QED
    BY <1>6, <2>1 DEF UpstreamEvent, CatchUpUpstream, UpstreamsFit,
       UpstreamCopiesAreCurrent, UpstreamStepFits, DyingUpstreamsAreHeld,
       UpstreamsTyped, upstreamLocals
<1>7. CASE \/ \E s \in Servers : ServerEvent(s)
           \/ \E r \in Routes : RouteEvent(r)
           \/ \E s \in Servers, k \in Kinds : ChildEvent(s, k)
  BY <1>1, <1>7 DEF ServerEvent, CatchUpServer, RouteEvent, CatchUpRoute,
     ChildEvent, CatchUpChild, upstreamControllerVars
<1>8. CASE Restart
  BY <1>8 DEF Restart, RelistAll, UpstreamsFit, UpstreamCopiesAreCurrent,
     UpstreamStepFits, DyingUpstreamsAreHeld, DeletionSteps
<1>9. CASE UNCHANGED vars
  BY <1>1, <1>9 DEF vars, clusterVars, upstreamControllerVars
<1> QED
  BY <1>2, <1>3, <1>4, <1>5, <1>6, <1>7, <1>8, <1>9, <1>10
     DEF Next, Events, Environment

-----------------------------------------------------------------------------
\* A write shows in the life of its upstream only.
LEMMA PutUpstreamLife ==
  ASSUME UpstreamsTyped, NEW u \in Upstreams, NEW o, PutUpstream(u, o)
  PROVE  UpstreamLives' = [UpstreamLives EXCEPT ![u] = Life(Stored(o))]
BY DEF UpstreamsTyped, PutUpstream, UpstreamLives

\* Users create, edit and delete upstreams; everything else they do is silent.
LEMMA UsersLiveUpstreams ==
  ASSUME TypeOK, UpstreamsFit, Users
  PROVE  UpstreamLife!Asked
<1>1. UpstreamsTyped
  BY DEF TypeOK, ClusterTypeOK
<1>2. \A u \in Upstreams : Present(up[u]) => up[u] \in Upstream
  BY <1>1 DEF UpstreamsTyped, Present
<1>3. \A u \in Upstreams : Present(up[u]) =>
         /\ UpstreamLives[u] = [spec |-> up[u].spec, fin |-> up[u].fin,
                                deleting |-> up[u].deleting]
         /\ UpstreamLives[u] # Absent
  BY <1>2, AbsentAssumption DEF UpstreamLives, Life, Lives, Upstream
<1>4. ASSUME UNCHANGED up PROVE UNCHANGED UpstreamLives
  BY <1>4 DEF UpstreamLives
<1>5. ASSUME NEW u \in Upstreams, NEW spec \in UpstreamSpecs, CreateUpstream(u, spec)
      PROVE  UpstreamLife!Create(u, spec)
  <2> DEFINE o == NewUpstream(spec)
  <2>1. o.spec = spec /\ o.fin = FALSE /\ o.deleting = FALSE
    BY DEF NewUpstream
  <2>2. PutUpstream(u, o) /\ ~Present(up[u])
    BY <1>5 DEF CreateUpstream
  <2>3. o \in Upstream
    BY ClusterAssumption DEF NewUpstream, Upstream, UpstreamConditions
  <2> HIDE DEF o
  <2>4. Life(Stored(o)) = [spec |-> spec, fin |-> FALSE, deleting |-> FALSE]
    BY <2>1, <2>3, AbsentAssumption DEF Stored, Life, Present
  <2>5. UpstreamLives[u] = Absent
    BY <2>2 DEF UpstreamLives, Life
  <2> QED
    BY <1>1, <2>2, <2>4, <2>5, PutUpstreamLife
       DEF UpstreamLife!Create, UpstreamLife!Exists, UpstreamLife!Become
<1>6. ASSUME NEW u \in Upstreams, NEW spec \in UpstreamSpecs, EditUpstream(u, spec)
      PROVE  UpstreamLife!Edit(u, spec)
  <2> DEFINE o == [up[u] EXCEPT !.spec = spec, !.seen = FALSE]
  <2>1. PutUpstream(u, o) /\ Present(up[u]) /\ up[u] \in Upstream
    BY <1>2, <1>6 DEF EditUpstream
  <2>2. /\ o \in Upstream /\ o.spec = spec /\ o.fin = up[u].fin
        /\ o.deleting = up[u].deleting
    BY <2>1 DEF Upstream
  <2> HIDE DEF o
  <2>3. Stored(o) = o
    BY <2>1, <2>2 DEF Stored, UpstreamsFit, DyingUpstreamsAreHeld
  <2>4. Life(o) = [spec |-> spec, fin |-> up[u].fin,
                   deleting |-> up[u].deleting]
    BY <2>2, AbsentAssumption DEF Life, Present
  <2>5. UpstreamLives[u] = [spec |-> up[u].spec, fin |-> up[u].fin,
                            deleting |-> up[u].deleting]
    BY <1>3, <2>1
  <2>6. Life(o) = [UpstreamLives[u] EXCEPT !.spec = spec]
    BY <2>4, <2>5, LifeEdited
  <2>7. UpstreamLives' = [UpstreamLives EXCEPT ![u] = Life(o)]
    BY <1>1, <2>1, <2>3, PutUpstreamLife
  <2>8. UpstreamLives[u] # Absent
    BY <1>3, <2>1
  <2> QED
    BY <2>6, <2>7, <2>8
       DEF UpstreamLife!Edit, UpstreamLife!Exists, UpstreamLife!Become
<1>7. ASSUME NEW u \in Upstreams, DeleteUpstream(u)
      PROVE  UpstreamLife!RequestDeletion(u)
  <2> DEFINE o == [up[u] EXCEPT !.deleting = TRUE]
  <2>1. /\ PutUpstream(u, o) /\ Present(up[u]) /\ up[u] \in Upstream
        /\ ~up[u].deleting
    BY <1>2, <1>7 DEF DeleteUpstream
  <2>2. /\ o \in Upstream /\ o.spec = up[u].spec /\ o.fin = up[u].fin
        /\ o.deleting = TRUE
    BY <2>1 DEF Upstream
  <2> HIDE DEF o
  <2>3. /\ UpstreamLives[u] = [spec |-> up[u].spec, fin |-> up[u].fin,
                               deleting |-> up[u].deleting]
        /\ UpstreamLives[u] # Absent
    BY <1>3, <2>1
  <2>4. UpstreamLives' = [UpstreamLives EXCEPT ![u] = Life(Stored(o))]
    BY <1>1, <2>1, PutUpstreamLife
  <2>5. CASE o.fin
    <3>1. Stored(o) = o
      BY <2>5 DEF Stored
    <3>2. Life(o) = [spec |-> up[u].spec, fin |-> TRUE, deleting |-> TRUE]
      BY <2>2, <2>5, AbsentAssumption DEF Life, Present, Upstream
    <3> QED
      BY <2>1, <2>2, <2>3, <2>4, <2>5, <3>1, <3>2
         DEF UpstreamLife!RequestDeletion, UpstreamLife!Exists, UpstreamLife!Become
  <2>6. CASE ~o.fin
    <3>1. Life(Stored(o)) = Absent
      BY <2>2, <2>6 DEF Stored, Life, Present
    <3> QED
      BY <2>1, <2>2, <2>3, <2>4, <2>6, <3>1
         DEF UpstreamLife!RequestDeletion, UpstreamLife!Exists, UpstreamLife!Become
  <2> QED
    BY <2>5, <2>6
<1>8. CASE UsersElsewhere
  BY <1>4, <1>8, UsersElsewhereKeepUpstreams DEF upstreamVars, UpstreamLife!Asked
<1>9. ASSUME NEW u \in Upstreams, NEW spec \in UpstreamSpecs,
             CreateUpstream(u, spec) \/ EditUpstream(u, spec)
      PROVE  UpstreamLife!Asked
  BY <1>5, <1>6, <1>9 DEF UpstreamLife!Asked
<1>10. ASSUME NEW u \in Upstreams, DeleteUpstream(u) PROVE UpstreamLife!Asked
  BY <1>7, <1>10 DEF UpstreamLife!Asked
<1> QED
  BY <1>8, <1>9, <1>10 DEF Users, UsersElsewhere

\* The upstream controller adopts upstreams that live and lets go of those that
\* were deleted; its writes of the Ready condition are silent.
LEMMA ControllerLivesUpstreams ==
  ASSUME TypeOK, UpstreamsFit, UpstreamStep
  PROVE  UpstreamLife!Unasked \/ UNCHANGED UpstreamLives
<1>1. UpstreamsTyped /\ UpstreamCurrent \in BOOLEAN
  BY DEF TypeOK, ClusterTypeOK, UpstreamCurrent
<1>2. /\ uPc # "idle" => uKey \in Upstreams
      /\ uPc \notin {"idle", "status"} => uObj \in Upstream
  BY DEF TypeOK, UpstreamTypeOK
<1>3. ASSUME UNCHANGED up PROVE UNCHANGED UpstreamLives
  BY <1>3 DEF UpstreamLives
<1>4. ASSUME NEW effects \in SUBSET {"ok", "noop"},
             NEW reply \in Replies(UpstreamCurrent, effects), Applied(reply),
             uPc \notin {"idle", "status"}
      PROVE  /\ uObj = up[uKey] /\ up[uKey] # Absent
             /\ UpstreamLives[uKey] = [spec |-> uObj.spec, fin |-> uObj.fin,
                                       deleting |-> uObj.deleting]
             /\ UpstreamLives[uKey] # Absent
  <2>1. UpstreamCurrent
    BY <1>1, <1>4, AppliedIsCurrent
  <2>2. uObj = up[uKey] /\ Present(up[uKey])
    BY <1>2, <1>4, <2>1 DEF UpstreamsFit, UpstreamCopiesAreCurrent, UpstreamCurrent
  <2>3. up[uKey] # Absent
    BY <2>2 DEF Present
  <2>4. UpstreamLives[uKey] = [spec |-> uObj.spec, fin |-> uObj.fin,
                               deleting |-> uObj.deleting]
    BY <1>2, <1>4, <2>2, <2>3 DEF UpstreamLives, Life, Present
  <2>5. UpstreamLives[uKey] \in Lives(UpstreamSpecs)
    BY <1>2, <1>4, <2>4 DEF Lives, Upstream
  <2> QED
    BY <2>2, <2>3, <2>4, <2>5, AbsentAssumption
<1>5. CASE UpstreamRemoveFinalizer
  <2>1. PICK reply \in Replies(UpstreamCurrent, {"ok"}) :
          WriteUpstream(uKey, UpdatedUpstream([uObj EXCEPT !.fin = FALSE]),
                        reply)
    BY <1>5 DEF UpstreamRemoveFinalizer
  <2>2. uPc \notin {"idle", "status"} /\ uObj.deleting /\ uObj.fin
    BY <1>5 DEF UpstreamRemoveFinalizer, UpstreamsFit, UpstreamStepFits, DeletionSteps
  <2>3. CASE Applied(reply)
    <3> DEFINE c == [uObj EXCEPT !.fin = FALSE]
               o == UpdatedUpstream(c)
    <3>0. c \in Upstream /\ c.deleting /\ ~c.fin
      BY <1>2, <2>2 DEF Upstream
    <3> HIDE DEF c
    <3>1. o.deleting /\ ~o.fin
      BY <3>0, UpdatedUpstreamTyped
    <3> USE DEF c
    <3>2. PutUpstream(uKey, o)
      BY <2>1, <2>3 DEF WriteUpstream
    <3> HIDE DEF o
    <3>3. Life(Stored(o)) = Absent
      BY <3>1 DEF Stored, Life, Present
    <3>4. UpstreamLives' = [UpstreamLives EXCEPT ![uKey] = Absent]
      BY <1>1, <1>2, <2>2, <3>2, <3>3, PutUpstreamLife
    <3>5. /\ UpstreamLives[uKey] # Absent /\ UpstreamLives[uKey].deleting
          /\ UpstreamLives[uKey].fin
      BY <1>4, <2>2, <2>3
    <3> QED
      BY <1>2, <2>2, <3>4, <3>5
         DEF UpstreamLife!Unasked, UpstreamLife!Release, UpstreamLife!Exists,
             UpstreamLife!Become
  <2> QED
    BY <1>3, <2>1, <2>3 DEF WriteUpstream
<1>6. CASE UpstreamAddFinalizer
  <2>1. PICK reply \in Replies(UpstreamCurrent, {"ok"}) :
          WriteUpstream(uKey, UpdatedUpstream([uObj EXCEPT !.fin = TRUE]),
                        reply)
    BY <1>6 DEF UpstreamAddFinalizer
  <2>2. uPc \notin {"idle", "status"} /\ ~uObj.deleting
    BY <1>6 DEF UpstreamAddFinalizer, UpstreamsFit, UpstreamStepFits, DeletionSteps
  <2>3. CASE Applied(reply)
    <3> DEFINE c == [uObj EXCEPT !.fin = TRUE]
               o == UpdatedUpstream(c)
    <3>0. /\ c \in Upstream /\ c.spec = uObj.spec /\ c.fin = TRUE
          /\ c.deleting = uObj.deleting
      BY <1>2, <2>2 DEF Upstream
    <3> HIDE DEF c
    <3>1. /\ o \in Upstream /\ o.spec = UpstreamDefaults[uObj.spec] /\ o.fin = TRUE
          /\ o.deleting = uObj.deleting
      BY <3>0, UpdatedUpstreamTyped
    <3> USE DEF c
    <3>2. PutUpstream(uKey, o)
      BY <2>1, <2>3 DEF WriteUpstream
    <3> HIDE DEF o
    <3>3. Stored(o) = o
      BY <2>2, <3>1 DEF Stored
    <3>4. Life(o) = [spec |-> UpstreamDefaults[uObj.spec], fin |-> TRUE,
                     deleting |-> FALSE]
      BY <1>2, <2>2, <3>1, AbsentAssumption DEF Life, Present, Upstream
    <3>5. /\ UpstreamLives[uKey].spec = uObj.spec
          /\ ~UpstreamLives[uKey].deleting
          /\ UpstreamLives[uKey] # Absent
      BY <1>4, <2>2, <2>3
    <3>6. UpstreamLives' = [UpstreamLives EXCEPT ![uKey] = Life(o)]
      BY <1>1, <1>2, <2>2, <3>2, <3>3, PutUpstreamLife
    <3> QED
      BY <1>2, <2>2, <3>4, <3>5, <3>6
         DEF UpstreamLife!Unasked, UpstreamLife!Adopt, UpstreamLife!Exists,
             UpstreamLife!Become
  <2> QED
    BY <1>3, <2>1, <2>3 DEF WriteUpstream
<1>7. ASSUME uPc # "idle", NEW ready \in UpstreamConditions, NEW stamped,
             NEW again, WriteUpstreamStatus(ready, stamped, again)
      PROVE  UNCHANGED UpstreamLives
  <2> DEFINE o == Reported(ready)
  <2>1. PICK effects \in SUBSET {"ok", "noop"} :
          \E reply \in Replies(UpstreamCurrent, effects) :
            WriteUpstream(uKey, o, reply)
    BY <1>7 DEF WriteUpstreamStatus
  <2>2. PICK reply \in Replies(UpstreamCurrent, effects) :
          WriteUpstream(uKey, o, reply)
    BY <2>1
  <2> HIDE DEF o
  <2>3. CASE Applied(reply)
    <3>1. PutUpstream(uKey, o)
      BY <2>2, <2>3 DEF WriteUpstream
    <3>2. /\ up[uKey] \in Upstream /\ o \in Upstream
          /\ o.spec = up[uKey].spec /\ o.fin = up[uKey].fin
          /\ o.deleting = up[uKey].deleting
      BY <1>1, <1>7, <2>2, <2>3, ReportedTyped, AppliedIsCurrent DEF o
    <3>3. Present(up[uKey]) /\ Present(o)
      BY <3>2, AbsentAssumption DEF Present
    <3>4. Stored(o) = o
      BY <1>2, <1>7, <3>2, <3>3 DEF Stored, UpstreamsFit, DyingUpstreamsAreHeld
    <3>5. Life(o) = UpstreamLives[uKey]
      BY <1>2, <1>7, <3>2, <3>3 DEF Life, UpstreamLives
    <3>6. UpstreamLives' = [UpstreamLives EXCEPT ![uKey] = UpstreamLives[uKey]]
      BY <1>1, <1>2, <1>7, <3>1, <3>4, <3>5, PutUpstreamLife
    <3> QED
      BY <3>6 DEF UpstreamLives
  <2> QED
    BY <1>3, <2>2, <2>3 DEF WriteUpstream
<1>8. CASE UpstreamNotReady \/ UpstreamReady
  <2>1. {"Failed", "ServerNotFound", "DependencyNotReady", "True"}
          \subseteq UpstreamConditions
    BY DEF UpstreamConditions
  <2> QED
    BY <1>7, <1>8, <2>1 DEF UpstreamNotReady, UpstreamReady
<1>9. CASE ResolveAndTrigger \/ UpstreamTriggerThenRemove
  BY <1>3, <1>9 DEF ResolveAndTrigger, UpstreamTriggerThenRemove, upstreamVars
<1> QED
  BY <1>5, <1>6, <1>8, <1>9 DEF UpstreamStep

\* Every step of the system is a step of the abstract upstreams, or none.
LEMMA UpstreamLivesNext ==
  ASSUME TypeOK, UpstreamsFit, [Next]_vars
  PROVE  [UpstreamLife!Next]_(UpstreamLife!vars)
<1>1. ASSUME UNCHANGED up PROVE UNCHANGED UpstreamLives
  BY <1>1 DEF UpstreamLives
<1>2. CASE UpstreamController
  <2>1. ASSUME NEW u \in Upstreams, FetchUpstream(u) PROVE UNCHANGED UpstreamLives
    BY <1>1, <2>1 DEF FetchUpstream
  <2>2. UpstreamLife!Unasked \/ UNCHANGED UpstreamLives
    BY <1>2, <2>1, ControllerLivesUpstreams DEF UpstreamController
  <2> QED
    BY <1>2, <2>2, OthersDoNotAsk DEF UpstreamLife!Next, UpstreamLife!vars
<1>3. CASE Users
  BY <1>3, UsersAsk, UsersLiveUpstreams DEF UpstreamLife!Next
<1>4. CASE ServerController \/ RouteController
  <2>1. UNCHANGED up
    BY <1>4, ServerStepTyped, RouteStepTyped
       DEF ServerController, FetchServer, RouteController, FetchRoute,
           upstreamVars
  <2> QED
    BY <1>1, <1>4, <2>1, OthersDoNotAsk DEF UpstreamLife!vars
<1>5. CASE Kubernetes \/ Events \/ Restart \/ UNCHANGED vars
  <2>1. UNCHANGED up
    BY <1>5 DEF Kubernetes, Surge, Rollout, Terminate, CollectGarbage, Events,
       ServerEvent, CatchUpServer, RouteEvent, CatchUpRoute, UpstreamEvent,
       CatchUpUpstream, ChildEvent, CatchUpChild, Restart, RelistAll, vars,
       clusterVars, upstreamVars
  <2> QED
    BY <1>1, <1>5, <2>1, OthersDoNotAsk DEF UpstreamLife!vars
<1> QED
  BY <1>2, <1>3, <1>4, <1>5 DEF Next, Environment

\* The operator finds upstreams that live, adopted by an earlier one or not.
LEMMA UpstreamLivesInit == Init => UpstreamLife!Init
<1> SUFFICES ASSUME Init PROVE UpstreamLife!Init
  OBVIOUS
<1>1. PICK start \in Starts :
        up = [u \in Upstreams |->
                IF Present(start.upstreams[u])
                THEN [NewUpstream(start.upstreams[u]) EXCEPT !.fin = Adopted]
                ELSE Absent]
  BY DEF Init, ClusterInit
<1>2. ASSUME NEW u \in Upstreams
      PROVE  UpstreamLives[u] \in {Absent} \cup
               [spec : UpstreamSpecs, fin : BOOLEAN, deleting : {FALSE}]
  <2>1. CASE ~Present(up[u])
    BY <2>1 DEF UpstreamLives, Life
  <2>2. CASE Present(up[u])
    <3>1. start.upstreams[u] \in UpstreamSpecs
      BY <1>1, <2>2, ClusterAssumption DEF Present, StartType
    <3>2. up[u] = [NewUpstream(start.upstreams[u]) EXCEPT !.fin = Adopted]
      BY <1>1, <2>2 DEF Present
    <3>3. up[u].spec = start.upstreams[u] /\ up[u].fin \in BOOLEAN
          /\ up[u].deleting = FALSE
      BY <3>2, ClusterAssumption DEF NewUpstream
    <3> QED
      BY <2>2, <3>1, <3>3 DEF UpstreamLives, Life
  <2> QED
    BY <2>1, <2>2
<1> QED
  BY <1>2 DEF UpstreamLives, UpstreamLife!Init

\* The same of the NginxUpstreams, although their controller changes the spec of
\* the copy it reports from: what it discovers never gets into the spec that the
\* API keeps, since the write is one of the status.
THEOREM UpstreamsLiveTheirLife == Spec => UpstreamLifecycle
<1>1. Init => TypeOK /\ UpstreamsFit /\ UpstreamLife!Init
  BY TypeOKInit, UpstreamsFitInit, UpstreamLivesInit
<1>2. TypeOK /\ UpstreamsFit /\ [Next]_vars => TypeOK' /\ UpstreamsFit'
  BY TypeOKNext, UpstreamsFitNext
<1>3. TypeOK /\ UpstreamsFit /\ [Next]_vars
        => [UpstreamLife!Next]_(UpstreamLife!vars)
  BY UpstreamLivesNext
<1> QED
  BY <1>1, <1>2, <1>3, PTL DEF Spec, UpstreamLifecycle, UpstreamLife!Spec
=============================================================================
