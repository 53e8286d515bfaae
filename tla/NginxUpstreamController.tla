----------------------- MODULE NginxUpstreamController -----------------------
(***************************************************************************)
(* NginxUpstreamReconciler: check an NginxUpstream, look up the Endpoints  *)
(* of the Service it discovers its backends from, if any, touch the        *)
(* NginxServer it names, and report in the upstream's status.  What is     *)
(* discovered replaces the backends in the spec of the reconciler's own    *)
(* copy, which the write that follows does not take to the API, and goes   *)
(* into the status, which nothing renders.                                 *)
(***************************************************************************)
EXTENDS Cluster

VARIABLES
  uQ,     \* workqueue: keys of NginxUpstreams
  uPc,    \* what the running reconcile does next
  uKey,   \* the key it runs for
  uObj    \* its copy of the NginxUpstream

upstreamLocals == <<uPc, uKey, uObj>>
upstreamControllerVars == <<uQ, upstreamLocals>>

UpstreamSteps == {"idle", "triggerThenRemove", "removeFinalizer",
                  "addFinalizer", "notValid", "trigger", "noServer",
                  "notResolved", "status"}

UpstreamInit == /\ uQ = {u \in Upstreams : Present(up[u])}
                /\ uPc = "idle" /\ uKey = Absent /\ uObj = Absent

UpstreamCurrentUnchecked == TRUE   \* mutant: writes without resourceVersion

UpstreamCurrent == "reconciler" \in upFresh[uKey]

UpstreamReturn(requeue) ==
  /\ uPc' = "idle" /\ uKey' = Absent /\ uObj' = Absent
  /\ uQ' = IF requeue THEN uQ \cup {uKey} ELSE uQ

UpstreamContinue(pc) == uPc' = pc /\ UNCHANGED <<uQ, uKey>>

-----------------------------------------------------------------------------
\* Which checks it makes is left out.
ValidateNginxUpstream(o) == o.spec.valid

Discovers(o) == Present(o.spec.service)

FirstUpstreamStep(o) == IF o.deleting THEN "triggerThenRemove"
                        ELSE IF ~o.fin THEN "addFinalizer"
                        ELSE IF ~ValidateNginxUpstream(o) THEN "notValid"
                        ELSE "trigger"

FetchUpstream(u) ==
  /\ uPc = "idle" /\ u \in uQ
  /\ uQ' = uQ \ {u}
  /\ IF ~Present(upC[u]) \/ (upC[u].deleting /\ ~upC[u].fin)
       THEN UNCHANGED <<upstreamLocals, upFresh>>
       ELSE /\ uPc' = FirstUpstreamStep(upC[u])
            /\ uKey' = u /\ uObj' = upC[u]
            /\ upFresh' = TakeCopy(upFresh, u)
  /\ UNCHANGED <<up, upC, serverVars, routeVars, kidVars, envVars, faults>>

UpstreamAddFinalizer ==
  /\ uPc = "addFinalizer"
  /\ \E reply \in Replies(UpstreamCurrent, {"ok"}) :
       WriteUpstream(uKey, UpdatedUpstream([uObj EXCEPT !.fin = TRUE]), reply)
  /\ UpstreamReturn(TRUE)
  /\ UNCHANGED <<serverVars, routeVars, kidVars, envVars>>

-----------------------------------------------------------------------------
\* Mutant: what was discovered once is not looked up again.
ResolveServiceEndpointsOnce(o) ==
  IF o.discovered # NoBackends \/ ~Discovers(o) THEN o
  ELSE [o EXCEPT !.spec.backends = endpoints[o.spec.service],
                 !.discovered = endpoints[o.spec.service]]

\* resolveServiceEndpoints, when the Endpoints exist, ready addresses or none.
ResolveServiceEndpoints(o) ==
  IF ~Discovers(o) THEN o
  ELSE [o EXCEPT !.spec.backends = endpoints[o.spec.service],
                 !.discovered = endpoints[o.spec.service]]

Resolvable(o) == Discovers(o) => Present(endpoints[o.spec.service])

\* triggerServerReconcile, as in NginxRouteController.
TouchServer(s, reply) ==
  /\ reply \in Replies("cache" \in srvFresh[s], {"ok"})
  /\ WriteServer(s, UpdatedServer(srvC[s]), reply, {})

\* The server is looked up, then the Endpoints, then the server is touched.
ResolveAndTrigger ==
  /\ uPc = "trigger"
  /\ LET s == uObj.spec.serverRef
     IN \/ /\ ~Present(srvC[s]) \/ ~Resolvable(uObj)
           /\ UpstreamContinue(IF Present(srvC[s]) THEN "notResolved"
                                                   ELSE "noServer")
           /\ UNCHANGED <<uObj, serverVars, upFresh, faults>>
        \/ /\ Present(srvC[s]) /\ Resolvable(uObj)
           /\ \E reply \in {"ok", "conflict", "error", "lost"} :
                /\ TouchServer(s, reply)
                /\ IF Succeeded(reply)
                     THEN /\ UpstreamContinue("status")
                          /\ uObj' = ResolveServiceEndpoints(uObj)
                          /\ UNCHANGED upFresh
                     ELSE /\ UpstreamReturn(TRUE)
                          /\ upFresh' = [upFresh EXCEPT ![uKey] =
                                           @ \ {"reconciler"}]
  /\ UNCHANGED <<up, upC, routeVars, kidVars, envVars>>

\* handleDeletion: a missing server or a failed touch does not stop it.
UpstreamTriggerThenRemove ==
  /\ uPc = "triggerThenRemove"
  /\ LET s == uObj.spec.serverRef
     IN IF Present(srvC[s])
          THEN \E reply \in {"ok", "conflict", "error", "lost"} :
                 TouchServer(s, reply)
          ELSE UNCHANGED <<serverVars, faults>>
  /\ UpstreamContinue("removeFinalizer") /\ UNCHANGED uObj
  /\ UNCHANGED <<upstreamVars, routeVars, kidVars, envVars>>

UpstreamRemoveFinalizer ==
  /\ uPc = "removeFinalizer"
  /\ \E reply \in Replies(UpstreamCurrent, {"ok"}) :
       /\ WriteUpstream(uKey, UpdatedUpstream([uObj EXCEPT !.fin = FALSE]), reply)
       /\ UpstreamReturn(~Succeeded(reply))
  /\ UNCHANGED <<serverVars, routeVars, kidVars, envVars>>

-----------------------------------------------------------------------------
(***************************************************************************)
(* The Ready condition, with its reason.  Only the successful path stamps  *)
(* LastAppliedTime, and only it comes back, every 30 seconds, to look at   *)
(* the Endpoints again.  The API compares the write with what it has.      *)
(***************************************************************************)
\* Mutant: Update, where the status is what there is to update.
ReportedWithSpec(ready) == [uObj EXCEPT !.Ready = ready, !.seen = TRUE]

\* What the API makes of the write: of the copy it takes the status only.
Reported(ready) == [up[uKey] EXCEPT !.Ready = ready, !.seen = TRUE,
                                    !.discovered = uObj.discovered]

\* Mutant: a failure of the write is only logged.
WriteUpstreamStatusOnce(ready, stamped, again) ==
  /\ \E reply \in Replies(UpstreamCurrent,
                          IF up[uKey] # Reported(ready) THEN {"ok"}
                          ELSE IF stamped THEN {"ok", "noop"} ELSE {"noop"}) :
       /\ WriteUpstream(uKey, Reported(ready), reply)
       /\ UpstreamReturn(again)
  /\ UNCHANGED <<serverVars, routeVars, kidVars, envVars>>

WriteUpstreamStatus(ready, stamped, again) ==
  /\ \E reply \in Replies(UpstreamCurrent,
                          IF up[uKey] # Reported(ready) THEN {"ok"}
                          ELSE IF stamped THEN {"ok", "noop"} ELSE {"noop"}) :
       /\ WriteUpstream(uKey, Reported(ready), reply)
       /\ UpstreamReturn(~Succeeded(reply) \/ again)
  /\ UNCHANGED <<serverVars, routeVars, kidVars, envVars>>

UpstreamNotReady ==
  \/ uPc = "notValid" /\ WriteUpstreamStatus("Failed", FALSE, FALSE)
  \/ uPc = "noServer" /\ WriteUpstreamStatus("ServerNotFound", FALSE, FALSE)
  \/ uPc = "notResolved" /\ WriteUpstreamStatus("DependencyNotReady", FALSE, FALSE)

UpstreamReady == /\ uPc = "status"
                 /\ WriteUpstreamStatus("True", TRUE, Discovers(uObj))

-----------------------------------------------------------------------------
UpstreamStep == \/ UpstreamAddFinalizer \/ ResolveAndTrigger
                \/ UpstreamTriggerThenRemove \/ UpstreamRemoveFinalizer
                \/ UpstreamNotReady \/ UpstreamReady

UpstreamTypeOK ==
  /\ uQ \subseteq Upstreams
  /\ uPc \in UpstreamSteps
  /\ uPc # "idle" => uKey \in Upstreams /\ uObj \in UpstreamCopy
  /\ uPc \notin {"idle", "status"} => uObj \in Upstream
=============================================================================
