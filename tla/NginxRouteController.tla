------------------------ MODULE NginxRouteController ------------------------
(***************************************************************************)
(* NginxRouteReconciler: check an NginxRoute, touch the NginxServer it     *)
(* names so that the server reconciler runs, and report in the route's     *)
(* status.  The touch writes an annotation with nanoseconds in it, hence   *)
(* is always a change.  Get and touch are one step: the Get reads the      *)
(* cache, and a touch of a lagging copy is refused as a conflict.          *)
(***************************************************************************)
EXTENDS Cluster

VARIABLES
  rQ,     \* workqueue: keys of NginxRoutes
  rPc,    \* what the running reconcile does next
  rKey,   \* the key it runs for
  rObj    \* its copy of the NginxRoute

routeLocals == <<rPc, rKey, rObj>>
routeControllerVars == <<rQ, routeLocals>>

RouteSteps == {"idle", "triggerThenRemove", "removeFinalizer", "addFinalizer",
               "notValid", "trigger", "noServer", "status"}

RouteInit == /\ rQ = {r \in Routes : Present(rt[r])}
             /\ rPc = "idle" /\ rKey = Absent /\ rObj = Absent

RouteCurrentUnchecked == TRUE   \* mutant: writes without resourceVersion

RouteCurrent == "reconciler" \in rtFresh[rKey]

RouteReturn(requeue) ==
  /\ rPc' = "idle" /\ rKey' = Absent /\ rObj' = Absent
  /\ rQ' = IF requeue THEN rQ \cup {rKey} ELSE rQ

RouteContinue(pc) == rPc' = pc /\ UNCHANGED <<rQ, rKey, rObj>>

-----------------------------------------------------------------------------
\* Which checks it makes is left out.
ValidateNginxRoute(o) == o.spec.valid

FirstRouteStep(o) == IF o.deleting THEN "triggerThenRemove"
                     ELSE IF ~o.fin THEN "addFinalizer"
                     ELSE IF ~ValidateNginxRoute(o) THEN "notValid"
                     ELSE "trigger"

FetchRoute(r) ==
  /\ rPc = "idle" /\ r \in rQ
  /\ rQ' = rQ \ {r}
  /\ IF ~Present(rtC[r]) \/ (rtC[r].deleting /\ ~rtC[r].fin)
       THEN UNCHANGED <<routeLocals, rtFresh>>
       ELSE /\ rPc' = FirstRouteStep(rtC[r])
            /\ rKey' = r /\ rObj' = rtC[r]
            /\ rtFresh' = TakeCopy(rtFresh, r)
  /\ UNCHANGED <<rt, rtC, serverVars, upstreamVars, kidVars, envVars, faults>>

RouteAddFinalizer ==
  /\ rPc = "addFinalizer"
  /\ \E reply \in Replies(RouteCurrent, {"ok"}) :
       WriteRoute(rKey, UpdatedRoute([rObj EXCEPT !.fin = TRUE]), reply)
  /\ RouteReturn(TRUE)
  /\ UNCHANGED <<serverVars, upstreamVars, kidVars, envVars>>

-----------------------------------------------------------------------------
\* Mutant: an update without resourceVersion.
TriggerServerReconcileBlindly(s, reply) ==
  reply \in Replies(TRUE, {"ok"}) /\ WriteServer(s, UpdatedServer(srvC[s]), reply, {})

\* triggerServerReconcile: the copy the cache holds, a new annotation on it.
TriggerServerReconcile(s, reply) ==
  /\ reply \in Replies("cache" \in srvFresh[s], {"ok"})
  /\ WriteServer(s, UpdatedServer(srvC[s]), reply, {})

Trigger ==
  /\ rPc = "trigger"
  /\ LET s == rObj.spec.serverRef
     IN IF ~Present(srvC[s])
          THEN /\ RouteContinue("noServer")
               /\ UNCHANGED <<serverVars, rtFresh, faults>>
          ELSE \E reply \in {"ok", "conflict", "error", "lost"} :
                 /\ TriggerServerReconcile(s, reply)
                 /\ IF Succeeded(reply)
                      THEN RouteContinue("status") /\ UNCHANGED rtFresh
                      ELSE /\ RouteReturn(TRUE)
                           /\ rtFresh' = [rtFresh EXCEPT ![rKey] =
                                            @ \ {"reconciler"}]
  /\ UNCHANGED <<rt, rtC, upstreamVars, kidVars, envVars>>

\* handleDeletion: a missing server or a failed touch does not stop it.
TriggerThenRemove ==
  /\ rPc = "triggerThenRemove"
  /\ LET s == rObj.spec.serverRef
     IN IF Present(srvC[s])
          THEN \E reply \in {"ok", "conflict", "error", "lost"} :
                 TriggerServerReconcile(s, reply)
          ELSE UNCHANGED <<serverVars, faults>>
  /\ RouteContinue("removeFinalizer")
  /\ UNCHANGED <<routeVars, upstreamVars, kidVars, envVars>>

RouteRemoveFinalizer ==
  /\ rPc = "removeFinalizer"
  /\ \E reply \in Replies(RouteCurrent, {"ok"}) :
       /\ WriteRoute(rKey, UpdatedRoute([rObj EXCEPT !.fin = FALSE]), reply)
       /\ RouteReturn(~Succeeded(reply))
  /\ UNCHANGED <<serverVars, upstreamVars, kidVars, envVars>>

-----------------------------------------------------------------------------
(***************************************************************************)
(* Every path but deletion ends in a write of the Ready condition.  Only   *)
(* the successful one stamps LastAppliedTime, at a second's resolution.    *)
(***************************************************************************)
WriteRouteStatusOfCached(ready, stamped) ==   \* mutant: the copy then cached
  /\ Present(rtC[rKey])
  /\ \E reply \in Replies("cache" \in rtFresh[rKey], {"ok"}) :
       /\ WriteRoute(rKey, [rtC[rKey] EXCEPT !.Ready = ready, !.seen = TRUE], reply)
       /\ RouteReturn(~Succeeded(reply))
  /\ UNCHANGED <<serverVars, upstreamVars, kidVars, envVars>>

WriteRouteStatus(ready, stamped) ==
  /\ LET new == [rObj EXCEPT !.Ready = ready, !.seen = TRUE]
     IN \E reply \in Replies(RouteCurrent,
                             IF rObj # new THEN {"ok"}
                             ELSE IF stamped THEN {"ok", "noop"} ELSE {"noop"}) :
          /\ WriteRoute(rKey, new, reply)
          /\ RouteReturn(~Succeeded(reply))
  /\ UNCHANGED <<serverVars, upstreamVars, kidVars, envVars>>

RouteNotReady == rPc \in {"notValid", "noServer"} /\ WriteRouteStatus("False", FALSE)
RouteReady == rPc = "status" /\ WriteRouteStatus("True", TRUE)

-----------------------------------------------------------------------------
RouteStep == \/ RouteAddFinalizer \/ Trigger \/ TriggerThenRemove
             \/ RouteRemoveFinalizer \/ RouteNotReady \/ RouteReady

RouteTypeOK ==
  /\ rQ \subseteq Routes
  /\ rPc \in RouteSteps
  /\ rPc # "idle" => rKey \in Routes /\ rObj \in Route
=============================================================================
