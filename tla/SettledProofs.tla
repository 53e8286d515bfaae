---------------------------- MODULE SettledProofs -----------------------------
(***************************************************************************)
(* What Operator leaves alone is done, for every value of the constants.   *)
(***************************************************************************)
EXTENDS StatusProofs, HashProofs

-----------------------------------------------------------------------------
(***************************************************************************)
(* The inductive invariant of the servers.  A key off the queue is as good *)
(* as one on it while a reconcile runs for it from a current copy.  What   *)
(* it has done by then stays done, or an event is on its way; and an event *)
(* that comes puts the key back before the reconcile can end.              *)
(***************************************************************************)
\* The children written before the step pc.
DoneBefore(pc) == CASE pc = "Deployment" -> {"ConfigMap"}
                    [] pc = "Service" -> {"ConfigMap", "Deployment"}
                    [] pc = "status" -> Kinds
                    [] OTHER -> {}

\* A reconcile whose key was not put back runs on what the cache has, if that
\* is current.
ServerRunsOnCurrent ==
  sPc # "idle" /\ sKey \notin sQ /\ "cache" \in srvFresh[sKey]
    => "reconciler" \in srvFresh[sKey]

\* A child that was written, and not since, is as it was to be.
DoneStaysDone ==
  sPc # "idle" /\ sKey \notin sQ =>
    \A k \in DoneBefore(sPc) \cap kidFresh[sKey] :
      Present(kid[sKey][k]) /\ kid[sKey][k].data = Desired(k)

\* The steps after those of the finalizer are for adopted servers, and a spec
\* that is called refused is.
ServerPastFinalizer ==
  /\ sPc \notin {"idle", "removeFinalizer", "addFinalizer"} => sObj.fin
  /\ sPc = "notValid" => sObj.spec \notin ValidServerSpecs

ServersSettle == /\ SettledServersAreInLine /\ ServerRunsOnCurrent
                 /\ DoneStaysDone /\ ServerPastFinalizer

\* Every server waits for the operator that starts.
LEMMA ServersSettleInit == Init => ServersSettle
BY DEF Init, ServerInit, ServersSettle, SettledServersAreInLine, ServerSettled,
   ServerRunsOnCurrent, DoneStaysDone, ServerPastFinalizer

\* Steps about something else.
LEMMA ElsewhereServersSettle ==
  ASSUME ServersSettle, UNCHANGED <<srv, srvFresh, kid, kidFresh>>,
         UNCHANGED serverControllerVars
  PROVE  ServersSettle'
<1> USE DEF serverControllerVars, serverLocals
<1>1. SettledServersAreInLine'
  BY DEF ServersSettle, SettledServersAreInLine, ServerSettled, ServerInLine
<1>2. ServerRunsOnCurrent' /\ ServerPastFinalizer'
  BY DEF ServersSettle, ServerRunsOnCurrent, ServerPastFinalizer
<1>3. DoneStaysDone'
  BY DEF ServersSettle, DoneStaysDone, Desired
<1> QED
  BY <1>1, <1>2, <1>3 DEF ServersSettle

\* A server that someone writes has an event to come.
LEMMA PutServerSettles ==
  ASSUME TypeOK, ServersSettle, NEW s \in Servers, NEW o, PutServer(s, o),
         UNCHANGED <<kid, kidFresh>>, UNCHANGED serverControllerVars
  PROVE  ServersSettle'
<1> USE DEF serverControllerVars, serverLocals
<1>1. ServersTyped /\ (sPc # "idle" => sKey \in Servers)
  BY DEF TypeOK, ClusterTypeOK, ServerTypeOK
<1>2. /\ srvFresh'[s] = {}
      /\ \A t \in Servers : t # s => srv'[t] = srv[t] /\ srvFresh'[t] = srvFresh[t]
  BY <1>1 DEF PutServer, ServersTyped
<1>3. SettledServersAreInLine'
  BY <1>2 DEF ServersSettle, SettledServersAreInLine, ServerSettled, ServerInLine
<1>4. ServerRunsOnCurrent' /\ ServerPastFinalizer'
  BY <1>1, <1>2 DEF ServersSettle, ServerRunsOnCurrent, ServerPastFinalizer
<1>5. DoneStaysDone'
  BY DEF ServersSettle, DoneStaysDone, Desired
<1> QED
  BY <1>3, <1>4, <1>5 DEF ServersSettle

\* So has one whose child is written, by anyone but its reconcile.
LEMMA PutChildSettles ==
  ASSUME TypeOK, ServersSettle, NEW s \in Servers, NEW k \in Kinds, NEW o,
         PutChild(s, k, o), UNCHANGED <<srv, srvFresh>>,
         UNCHANGED serverControllerVars
  PROVE  ServersSettle'
<1> USE DEF serverControllerVars, serverLocals
<1>1. ChildrenTyped /\ (sPc # "idle" => sKey \in Servers)
  BY DEF TypeOK, ClusterTypeOK, ServerTypeOK
<1>2. /\ kidFresh'[s] = kidFresh[s] \ {k}
      /\ \A t \in Servers : t # s => kid'[t] = kid[t] /\ kidFresh'[t] = kidFresh[t]
      /\ \A j \in Kinds : j # k => kid'[s][j] = kid[s][j]
  BY <1>1 DEF PutChild, ChildrenTyped
<1>3. SettledServersAreInLine'
  BY <1>2 DEF ServersSettle, SettledServersAreInLine, ServerSettled, ServerInLine
<1>4. ServerRunsOnCurrent' /\ ServerPastFinalizer'
  BY DEF ServersSettle, ServerRunsOnCurrent, ServerPastFinalizer
<1>5. DoneStaysDone'
  <2> SUFFICES ASSUME sPc # "idle", sKey \notin sQ,
                      NEW j \in DoneBefore(sPc) \cap kidFresh'[sKey]
               PROVE  Present(kid'[sKey][j]) /\ kid'[sKey][j].data = Desired(j)
    BY DEF DoneStaysDone, Desired
  <2>1. j \in kidFresh[sKey] /\ j \in Kinds /\ kid'[sKey][j] = kid[sKey][j]
    BY <1>1, <1>2 DEF ChildrenTyped
  <2> QED
    BY <2>1 DEF ServersSettle, DoneStaysDone
<1> QED
  BY <1>3, <1>4, <1>5 DEF ServersSettle

\* A reconcile writes its server and returns.  Unless it puts the key back, or
\* the write makes an event, it has to leave the server in line.
LEMMA WriteServerSettles ==
  ASSUME TypeOK, ServersSettle, sPc # "idle", NEW o, NEW reply, NEW requeue,
         WriteServer(sKey, o, reply, {"reconciler"}), ServerReturn(requeue),
         UNCHANGED <<kid, kidFresh>>,
         ~requeue /\ ~Applied(reply) /\ sKey \notin sQ
           /\ "cache" \in srvFresh[sKey] /\ kidFresh[sKey] = Kinds
           => ServerInLine(sKey)
  PROVE  ServersSettle'
<1>1. ServersTyped /\ sKey \in Servers
  BY DEF TypeOK, ClusterTypeOK, ServerTypeOK
<1>2. sPc' = "idle" /\ sQ' = IF requeue THEN sQ \cup {sKey} ELSE sQ
  BY DEF ServerReturn
<1>3. ServerRunsOnCurrent' /\ ServerPastFinalizer' /\ DoneStaysDone'
  BY <1>2 DEF ServerRunsOnCurrent, ServerPastFinalizer, DoneStaysDone
<1>4. ASSUME NEW t \in Servers, ServerSettled(t)', Present(srv'[t]), t # sKey
      PROVE  ServerInLine(t)'
  <2>1. srv'[t] = srv[t] /\ srvFresh'[t] = srvFresh[t]
    BY <1>1, <1>4 DEF WriteServer, PutServer, ServersTyped
  <2>2. ServerSettled(t)
    BY <1>2, <1>4, <2>1 DEF ServerSettled
  <2> QED
    BY <1>4, <2>1, <2>2 DEF ServersSettle, SettledServersAreInLine, ServerInLine
<1>5. ASSUME NEW t \in Servers, ServerSettled(t)', t = sKey
      PROVE  ServerInLine(t)'
  <2>1. ~requeue /\ sKey \notin sQ /\ "cache" \in srvFresh'[sKey]
        /\ kidFresh[sKey] = Kinds
    BY <1>1, <1>2, <1>5 DEF ServerSettled
  <2>2. ~Applied(reply)
    BY <1>1, <2>1 DEF WriteServer, PutServer, ServersTyped
  <2>3. srv' = srv /\ "cache" \in srvFresh[sKey]
    BY <1>1, <2>1, <2>2 DEF WriteServer, ServersTyped
  <2>4. ServerInLine(t)
    BY <1>5, <2>1, <2>2, <2>3
  <2> QED
    BY <2>3, <2>4 DEF ServerInLine
<1>6. SettledServersAreInLine'
  BY <1>4, <1>5 DEF SettledServersAreInLine
<1> QED
  BY <1>3, <1>6 DEF ServersSettle

\* A Get of a cached server that is there begins a reconcile of it; one that is
\* not there is not in the API either, unless an event is to come.
LEMMA FetchServerSettles ==
  ASSUME TypeOK, ServersFit, ServersSettle, NEW s \in Servers, FetchServer(s)
  PROVE  ServersSettle'
<1>1. ServersTyped /\ sPc = "idle" /\ sQ' = sQ \ {s}
      /\ UNCHANGED <<srv, srvC, kid, kidFresh>>
  BY DEF TypeOK, ClusterTypeOK, FetchServer, kidVars
<1>2. ASSUME NEW t \in Servers, t # s, ServerSettled(t)', Present(srv[t]),
             srvFresh'[t] = srvFresh[t]
      PROVE  ServerInLine(t)'
  <2>1. ServerSettled(t)
    BY <1>1, <1>2 DEF ServerSettled
  <2> QED
    BY <1>1, <1>2, <2>1 DEF ServersSettle, SettledServersAreInLine, ServerInLine
<1>3. CASE /\ ~Present(srvC[s]) \/ (srvC[s].deleting /\ ~srvC[s].fin)
           /\ UNCHANGED <<serverLocals, srvFresh>>
  <2>1. sPc' = "idle"
    BY <1>1, <1>3 DEF serverLocals
  <2>2. ServerRunsOnCurrent' /\ DoneStaysDone' /\ ServerPastFinalizer'
    BY <2>1 DEF ServerRunsOnCurrent, DoneStaysDone, ServerPastFinalizer
  <2>3. "cache" \in srvFresh'[s] => ~Present(srv'[s])
    BY <1>1, <1>3 DEF ServersFit, ServerCopiesAreCurrent, DyingServersAreHeld
  <2>4. SettledServersAreInLine'
    BY <1>1, <1>2, <1>3, <2>3 DEF SettledServersAreInLine, ServerSettled
  <2> QED
    BY <2>2, <2>4 DEF ServersSettle
<1>4. CASE /\ Present(srvC[s]) /\ sPc' = FirstServerStep(srvC[s])
           /\ sKey' = s /\ sObj' = srvC[s] /\ srvFresh' = TakeCopy(srvFresh, s)
  <2>1. sPc' \in {"removeFinalizer", "addFinalizer", "notValid", "list"}
    BY <1>4 DEF FirstServerStep
  <2>2. DoneStaysDone'
    BY <2>1 DEF DoneStaysDone, DoneBefore
  <2>3. ServerPastFinalizer'
    BY <1>4 DEF ServerPastFinalizer, FirstServerStep, ValidateNginxServer
  <2>4. ServerRunsOnCurrent'
    BY <1>1, <1>4 DEF ServerRunsOnCurrent, TakeCopy, ServersTyped
  <2>5. \A t \in Servers : t # s => srvFresh'[t] = srvFresh[t]
    BY <1>1, <1>4 DEF TakeCopy, ServersTyped
  <2>6. SettledServersAreInLine'
    BY <1>1, <1>2, <1>4, <2>1, <2>5 DEF SettledServersAreInLine, ServerSettled
  <2> QED
    BY <2>2, <2>3, <2>4, <2>6 DEF ServersSettle
<1> QED
  BY <1>3, <1>4 DEF FetchServer

\* A status write that succeeds without an effect found what it was to write.
LEMMA NoopStatus ==
  ASSUME TypeOK, ServersFit, sPc # "idle", NEW status, NEW stamped, NEW reply,
         WriteServerStatus(status, stamped, reply),
         Succeeded(reply), ~Applied(reply)
  PROVE  srv[sKey] = sObj /\ sObj.status = status
<1>1. reply = "noop"
  BY DEF Succeeded, Applied
<1>2. ServerCurrent /\ sObj.status = status
  BY <1>1 DEF WriteServerStatus, StatusReplies, Replies
<1>3. sKey \in Servers
  BY DEF TypeOK, ServerTypeOK
<1> QED
  BY <1>2, <1>3 DEF ServersFit, ServerCopiesAreCurrent, ServerCurrent

\* updateStatus ends a reconcile for good only if all that the reconcile did is
\* still so and is what the status says.
LEMMA UpdateStatusSettles ==
  ASSUME TypeOK, ServersFit, ServersHonest, ServersSettle, UpdateStatus
  PROVE  ServersSettle'
<1>1. /\ sPc = "status" /\ sPc # "idle" /\ sKey \in Servers /\ sObj \in Server
      /\ UNCHANGED <<kid, kidFresh>>
  BY DEF UpdateStatus, TypeOK, ServerTypeOK, kidVars
<1> DEFINE ready == /\ Present(kidC[sKey]["Deployment"])
                    /\ kidC[sKey]["Deployment"].ready
           status == [Ready |-> IF ready THEN "True" ELSE "False",
                      ConfigValid |-> "True", seen |-> TRUE, hash |-> sCfg]
<1>2. PICK reply \in {"ok", "noop", "conflict", "error", "lost"} :
        /\ WriteServerStatus(status, TRUE, reply)
        /\ ServerReturn(~Succeeded(reply) \/ ~ready)
  BY DEF UpdateStatus
<1>3. /\ status.seen = TRUE /\ status.hash = sCfg
      /\ ready => status.Ready = "True"
  OBVIOUS
<1>4. /\ sObj.spec \in ValidServerSpecs /\ sCfg.spec = sObj.spec /\ sObj.fin
      /\ ~sObj.deleting
  BY <1>1 DEF ServersHonest, ServerAcceptedSteps, ServerRenderedSteps,
     ServersSettle, ServerPastFinalizer, ServersFit, ServerStepFits
<1> HIDE DEF ready, status
<1>5. WriteServer(sKey, [sObj EXCEPT !.status = status], reply, {"reconciler"})
  BY <1>2 DEF WriteServerStatus
<1>6. ASSUME Succeeded(reply), ready, ~Applied(reply), sKey \notin sQ,
             kidFresh[sKey] = Kinds
      PROVE  ServerInLine(sKey)
  <2>1. srv[sKey] = sObj /\ sObj.status = status
    BY <1>1, <1>2, <1>6, NoopStatus
  <2>2. DoneBefore(sPc) = Kinds
    BY <1>1 DEF DoneBefore
  <2>3. \A k \in Kinds : Present(kid[sKey][k]) /\ kid[sKey][k].data = Desired(k)
    BY <1>1, <1>6, <2>2 DEF ServersSettle, DoneStaysDone
  <2> QED
    BY <1>3, <1>4, <1>6, <2>1, <2>3 DEF ServerInLine, Desired
<1> QED
  BY <1>1, <1>2, <1>5, <1>6, WriteServerSettles

\* A failed validation ends a reconcile for good once the status says so.
LEMMA ServerNotValidSettles ==
  ASSUME TypeOK, ServersFit, ServersSettle, ServerNotValid
  PROVE  ServersSettle'
<1>1. /\ sPc = "notValid" /\ sPc # "idle" /\ sKey \in Servers /\ sObj \in Server
      /\ UNCHANGED <<kid, kidFresh>>
  BY DEF ServerNotValid, TypeOK, ServerTypeOK, kidVars
<1> DEFINE status == [sObj.status EXCEPT !.Ready = "False", !.seen = TRUE]
<1>2. PICK reply \in {"ok", "noop", "conflict", "error", "lost"} :
        /\ WriteServerStatus(status, FALSE, reply)
        /\ ServerReturn(~Succeeded(reply))
  BY DEF ServerNotValid
<1>3. status.seen = TRUE /\ status.Ready = "False"
  BY <1>1 DEF Server, ServerStatus
<1>4. sObj.spec \notin ValidServerSpecs /\ sObj.fin /\ ~sObj.deleting
  BY <1>1 DEF ServersSettle, ServerPastFinalizer, ServersFit, ServerStepFits
<1> HIDE DEF status
<1>5. WriteServer(sKey, [sObj EXCEPT !.status = status], reply, {"reconciler"})
  BY <1>2 DEF WriteServerStatus
<1>6. ASSUME Succeeded(reply), ~Applied(reply) PROVE ServerInLine(sKey)
  <2>1. srv[sKey] = sObj /\ sObj.status = status
    BY <1>1, <1>2, <1>6, NoopStatus
  <2> QED
    BY <1>3, <1>4, <2>1 DEF ServerInLine
<1> QED
  BY <1>1, <1>2, <1>5, <1>6, WriteServerSettles

\* A child is left alone, or a write of it succeeds without an effect, only if it
\* is as wanted; every other write of it makes an event.
LEMMA ReconcileChildDone ==
  ASSUME TypeOK, ChildCopiesAreCurrent, NEW k \in Kinds, ReconcileChild(k),
         sPc' # "idle", k \in kidFresh'[sKey]
  PROVE  Present(kid'[sKey][k]) /\ kid'[sKey][k].data = Desired(k)
<1>1. ChildrenTyped /\ sKey \in Servers
  BY ClusterAssumption DEF TypeOK, ClusterTypeOK, ServerTypeOK, ReconcileChild
<1> DEFINE old == kidC[sKey][k]
<1>2. CASE Present(old) /\ ~NeedsUpdate(k, old) /\ UNCHANGED kidVars
  BY <1>1, <1>2 DEF NeedsUpdate, kidVars, ChildCopiesAreCurrent
<1>3. ASSUME NEW reply, Succeeded(reply), Present(old), UpdateChild(sKey, k, reply)
      PROVE  Present(kid'[sKey][k]) /\ kid'[sKey][k].data = Desired(k)
  <2> DEFINE new == [old EXCEPT !.data = Desired(k)]
  <2>1. new.data = Desired(k)
    BY <1>1, <1>3 DEF ChildrenTyped, Present, Child
  <2>2. WriteChild(sKey, k, new, reply)
    BY <1>3 DEF UpdateChild
  <2>3. ~Applied(reply)
    BY <1>1, <2>2 DEF WriteChild, PutChild, ChildrenTyped
  <2>4. reply = "noop"
    BY <1>3, <2>3 DEF Succeeded, Applied
  <2>5. k \in kidFresh[sKey] /\ new = old
    BY <1>3, <2>4 DEF UpdateChild, Replies
  <2>6. kid' = kid /\ kid[sKey][k] = old
    BY <1>1, <2>2, <2>3, <2>5 DEF WriteChild, ChildCopiesAreCurrent
  <2> HIDE DEF new, old
  <2> QED
    BY <1>3, <2>1, <2>5, <2>6
<1>4. ASSUME NEW reply, Succeeded(reply), CreateChild(sKey, k, reply) PROVE FALSE
  <2>1. Applied(reply)
    BY <1>4 DEF CreateChild, Replies, Succeeded, Applied
  <2> QED
    BY <1>1, <1>4, <2>1 DEF CreateChild, WriteChild, PutChild, ChildrenTyped
<1> HIDE DEF old
<1>5. \/ Present(old) /\ ~NeedsUpdate(k, old) /\ UNCHANGED kidVars
      \/ \E reply : /\ Succeeded(reply)
                    /\ \/ Present(old) /\ UpdateChild(sKey, k, reply)
                       \/ CreateChild(sKey, k, reply)
  BY DEF ReconcileChild, ServerReturn, old
<1> QED
  BY <1>2, <1>3, <1>4, <1>5

\* What is done before the next child is what was done before this one, and it.
LEMMA DoneBeforeNext ==
  ASSUME NEW k \in Kinds
  PROVE  DoneBefore(StepAfter(k)) = DoneBefore(k) \cup {k}
BY ClusterAssumption DEF DoneBefore, StepAfter

\* A reconcile goes from child to child, or ends and puts its key back.
LEMMA ReconcileChildSettles ==
  ASSUME TypeOK, HashesFit, ServersSettle, NEW k \in Kinds, ReconcileChild(k)
  PROVE  ServersSettle'
<1>1. ChildrenTyped /\ ServersTyped /\ sKey \in Servers /\ sPc = k /\ sPc # "idle"
      /\ k \notin {"removeFinalizer", "addFinalizer", "notValid"}
  BY ClusterAssumption DEF TypeOK, ClusterTypeOK, ServerTypeOK, ReconcileChild
<1>2. /\ srv' = srv
      /\ \A t \in Servers : t # sKey =>
           /\ kid'[t] = kid[t] /\ kidFresh'[t] = kidFresh[t]
           /\ srvFresh'[t] = srvFresh[t]
      /\ \A j \in Kinds : j # k =>
           /\ kid'[sKey][j] = kid[sKey][j]
           /\ j \in kidFresh'[sKey] => j \in kidFresh[sKey]
  <2>1. \/ UNCHANGED <<kid, kidFresh>>
        \/ \E o : PutChild(sKey, k, o)
    BY DEF ReconcileChild, UpdateChild, CreateChild, WriteChild, kidVars
  <2>2. /\ srv' = srv
        /\ srvFresh' = srvFresh
             \/ srvFresh' = [srvFresh EXCEPT ![sKey] = @ \ {"reconciler"}]
    BY DEF ReconcileChild
  <2> QED
    BY <1>1, <2>1, <2>2 DEF PutChild, ChildrenTyped, ServersTyped
<1>3. ASSUME NEW t \in Servers, t # sKey, t \in sQ' <=> t \in sQ,
             ServerSettled(t)', Present(srv'[t])
      PROVE  ServerInLine(t)'
  <2>1. ServerSettled(t)
    BY <1>2, <1>3 DEF ServerSettled
  <2> QED
    BY <1>2, <1>3, <2>1 DEF ServersSettle, SettledServersAreInLine, ServerInLine
<1>4. CASE sPc' = "idle" /\ sQ' = sQ \cup {sKey}
  <2>1. ServerRunsOnCurrent' /\ DoneStaysDone' /\ ServerPastFinalizer'
    BY <1>4 DEF ServerRunsOnCurrent, DoneStaysDone, ServerPastFinalizer
  <2>2. SettledServersAreInLine'
    BY <1>3, <1>4 DEF SettledServersAreInLine, ServerSettled
  <2> QED
    BY <2>1, <2>2 DEF ServersSettle
<1>5. CASE ServerContinue(StepAfter(k))
  <2>1. /\ sPc' = StepAfter(k) /\ UNCHANGED <<sQ, sKey, sObj, sCfg>>
        /\ sPc' \in {"Deployment", "Service", "status"}
    BY <1>5, ClusterAssumption DEF ServerContinue, StepAfter
  <2>2. SettledServersAreInLine'
    BY <1>1, <1>3, <2>1 DEF SettledServersAreInLine, ServerSettled
  <2>3. ServerPastFinalizer'
    BY <1>1, <2>1 DEF ServersSettle, ServerPastFinalizer
  <2>4. ServerRunsOnCurrent'
    <3>1. srvFresh' = srvFresh
      BY <2>1 DEF ReconcileChild
    <3> QED
      BY <1>1, <2>1, <3>1 DEF ServersSettle, ServerRunsOnCurrent
  <2>5. DoneStaysDone'
    <3> SUFFICES ASSUME sKey \notin sQ,
                        NEW j \in DoneBefore(sPc') \cap kidFresh'[sKey]
                 PROVE  Present(kid'[sKey][j]) /\ kid'[sKey][j].data = Desired(j)
      BY <2>1 DEF DoneStaysDone, Desired
    <3>1. j = k \/ (j # k /\ j \in DoneBefore(sPc))
      BY <1>1, <2>1, DoneBeforeNext
    <3>2. CASE j = k
      BY <2>1, <3>2, ReconcileChildDone DEF HashesFit
    <3>3. CASE j # k /\ j \in DoneBefore(sPc)
      <4>1. j \in Kinds
        BY <3>3, ClusterAssumption DEF DoneBefore
      <4> QED
        BY <1>1, <1>2, <3>3, <4>1 DEF ServersSettle, DoneStaysDone
    <3> QED
      BY <3>1, <3>2, <3>3
  <2> QED
    BY <2>2, <2>3, <2>4, <2>5 DEF ServersSettle
<1> QED
  BY <1>4, <1>5 DEF ReconcileChild, ServerReturn

\* The steps of a server's reconcile.
LEMMA ServerStepSettles ==
  ASSUME TypeOK, ServersFit, ServersHonest, HashesFit, ServersSettle, ServerStep
  PROVE  ServersSettle'
<1>1. sPc # "idle" => sKey \in Servers
  BY DEF TypeOK, ServerTypeOK
<1>2. CASE ServerHandleDeletion
  <2>1. PICK reply \in Replies(ServerCurrent, {"ok"}) :
          /\ WriteServer(sKey, UpdatedServer([sObj EXCEPT !.fin = FALSE]), reply,
                         {"reconciler"})
          /\ ServerReturn(~Succeeded(reply))
    BY <1>2 DEF ServerHandleDeletion
  <2>2. Succeeded(reply) => Applied(reply)
    BY <2>1 DEF Replies, Succeeded, Applied
  <2>3. sPc # "idle" /\ UNCHANGED <<kid, kidFresh>>
    BY <1>2 DEF ServerHandleDeletion, kidVars
  <2> QED
    BY <2>1, <2>2, <2>3, WriteServerSettles
<1>3. CASE ServerAddFinalizer
  <2>1. PICK reply \in Replies(ServerCurrent, {"ok"}) :
          WriteServer(sKey, UpdatedServer([sObj EXCEPT !.fin = TRUE]), reply,
                      {"reconciler"})
    BY <1>3 DEF ServerAddFinalizer
  <2>2. ServerReturn(TRUE) /\ sPc # "idle" /\ UNCHANGED <<kid, kidFresh>>
    BY <1>3 DEF ServerAddFinalizer, kidVars
  <2> QED
    BY <2>1, <2>2, WriteServerSettles
<1>4. CASE ServerNotGenerated
  <2>1. PICK reply : WriteServerStatus([sObj.status EXCEPT !.ConfigValid = "False"],
                                       TRUE, reply)
    BY <1>4 DEF ServerNotGenerated
  <2>2. ServerReturn(TRUE) /\ sPc # "idle" /\ UNCHANGED <<kid, kidFresh>>
    BY <1>4 DEF ServerNotGenerated, kidVars
  <2> QED
    BY <2>1, <2>2, WriteServerSettles DEF WriteServerStatus
<1>5. CASE GenerateFullConfig
  <2>1. /\ sPc = "list" /\ sPc' \in {"notGenerated", "ConfigMap"}
        /\ UNCHANGED <<sQ, sKey, sObj, srv, srvFresh, kid, kidFresh>>
    BY <1>5 DEF GenerateFullConfig, clusterVars, serverVars, kidVars
  <2>2. DoneStaysDone'
    BY <2>1 DEF DoneStaysDone, DoneBefore
  <2>3. ServerRunsOnCurrent' /\ ServerPastFinalizer'
    BY <2>1 DEF ServersSettle, ServerRunsOnCurrent, ServerPastFinalizer
  <2>4. SettledServersAreInLine'
    BY <2>1 DEF ServersSettle, SettledServersAreInLine, ServerSettled, ServerInLine
  <2> QED
    BY <2>2, <2>3, <2>4 DEF ServersSettle
<1> QED
  BY <1>2, <1>3, <1>4, <1>5, ReconcileChildSettles, ServerNotValidSettles,
     UpdateStatusSettles
     DEF ServerStep

\* ServersSettle survives every step.
LEMMA ServersSettleNext ==
  ASSUME TypeOK, ServersFit, ServersHonest, HashesFit, ServersSettle, [Next]_vars
  PROVE  ServersSettle'
<1>1. ServersTyped /\ ChildrenTyped /\ (sPc # "idle" => sKey \in Servers)
  BY DEF TypeOK, ClusterTypeOK, ServerTypeOK
<1>2. CASE ServerController
  BY <1>2, FetchServerSettles, ServerStepSettles DEF ServerController
<1>3. ASSUME UNCHANGED serverControllerVars, UNCHANGED kidVars,
             \/ UNCHANGED serverVars
             \/ \E s \in Servers : /\ Present(srvC[s])
                                   /\ \E reply : TriggerServerReconcile(s, reply)
      PROVE  ServersSettle'
  <2>1. \/ UNCHANGED <<srv, srvFresh>>
        \/ \E s \in Servers, o \in {UpdatedServer(srvC[t]) : t \in Servers} :
             PutServer(s, o)
    BY <1>1, <1>3 DEF TriggerServerReconcile, WriteServer, serverVars, ServersTyped
  <2> QED
    BY <1>3, <2>1, ElsewhereServersSettle, PutServerSettles DEF kidVars
<1>4. CASE RouteController
  <2>1. ASSUME NEW r \in Routes, FetchRoute(r)
        PROVE  UNCHANGED kidVars /\ UNCHANGED serverVars
    BY <2>1 DEF FetchRoute
  <2> QED
    BY <1>3, <1>4, <2>1, RouteStepOnServers, RouteStepTyped DEF RouteController
<1>5. CASE UpstreamController
  <2>1. ASSUME NEW u \in Upstreams, FetchUpstream(u)
        PROVE  UNCHANGED kidVars /\ UNCHANGED serverVars
    BY <2>1 DEF FetchUpstream
  <2> QED
    BY <1>3, <1>5, <2>1, UpstreamStepOnServers, UpstreamStepTyped
       DEF UpstreamController
<1>6. CASE Environment
  <2>1. UNCHANGED serverControllerVars
    BY <1>6 DEF Environment
  <2>2. ASSUME Users PROVE ServersSettle'
    <3>1. \/ UNCHANGED kidVars
          \/ /\ \E s \in Servers, k \in Kinds : PutChild(s, k, Absent)
             /\ UNCHANGED <<srv, srvFresh>>
      BY <2>2 DEF Users, CreateServer, EditServer, DeleteServer, CreateRoute,
         EditRoute, DeleteRoute, CreateUpstream, EditUpstream, DeleteUpstream,
         ScaleService, Tamper, serverVars
    <3>2. UNCHANGED <<srv, srvFresh>>
          \/ \E s \in Servers, o \in Server : PutServer(s, o)
      BY <2>2, UsersWriteServers DEF serverVars
    <3> QED
      BY <2>1, <3>1, <3>2, ElsewhereServersSettle, PutServerSettles,
         PutChildSettles DEF kidVars
  <2>3. ASSUME Kubernetes PROVE ServersSettle'
    <3>1. /\ UNCHANGED <<srv, srvFresh>>
          /\ \/ UNCHANGED <<kid, kidFresh>>
             \/ \E s \in Servers, k \in Kinds : \E o : PutChild(s, k, o)
      BY <2>3, ClusterAssumption DEF Kubernetes, Surge, Rollout, Terminate, CollectGarbage,
         serverVars, kidVars
    <3> QED
      BY <2>1, <3>1, ElsewhereServersSettle, PutChildSettles
  <2> QED
    BY <1>6, <2>2, <2>3 DEF Environment
<1>7. ASSUME NEW s \in Servers, sQ' = sQ \cup {s}, UNCHANGED serverLocals,
             UNCHANGED <<srv, kid>>,
             \A t \in Servers : t # s => /\ srvFresh'[t] = srvFresh[t]
                                         /\ kidFresh'[t] = kidFresh[t]
      PROVE  ServersSettle'
  <2>1. SettledServersAreInLine'
    BY <1>7 DEF ServersSettle, SettledServersAreInLine, ServerSettled,
       ServerInLine, serverLocals
  <2>2. ServerRunsOnCurrent' /\ ServerPastFinalizer'
    BY <1>1, <1>7 DEF ServersSettle, ServerRunsOnCurrent, ServerPastFinalizer,
       serverLocals
  <2>3. DoneStaysDone'
    BY <1>1, <1>7 DEF ServersSettle, DoneStaysDone, Desired, serverLocals
  <2> QED
    BY <2>1, <2>2, <2>3 DEF ServersSettle
<1>8. ASSUME NEW s \in Servers, ServerEvent(s) PROVE ServersSettle'
  <2>1. /\ sQ' = sQ \cup {s} /\ UNCHANGED serverLocals
        /\ UNCHANGED <<srv, kid, kidFresh>>
        /\ srvFresh' = [srvFresh EXCEPT ![s] = @ \cup {"cache"}]
    BY <1>8 DEF ServerEvent, CatchUpServer, kidVars
  <2> QED
    BY <1>1, <1>7, <2>1 DEF ServersTyped
<1>9. ASSUME NEW s \in Servers, NEW k \in Kinds, ChildEvent(s, k)
      PROVE  ServersSettle'
  <2>1. /\ sQ' = sQ \cup {s} /\ UNCHANGED serverLocals
        /\ UNCHANGED <<srv, kid, srvFresh>>
        /\ kidFresh' = [kidFresh EXCEPT ![s] = @ \cup {k}]
    BY <1>9 DEF ChildEvent, CatchUpChild, serverVars
  <2> QED
    BY <1>1, <1>7, <2>1 DEF ChildrenTyped
<1>10. CASE \/ \E r \in Routes : RouteEvent(r)
            \/ \E u \in Upstreams : UpstreamEvent(u)
            \/ UNCHANGED vars
  BY <1>10, ElsewhereServersSettle DEF RouteEvent, CatchUpRoute, UpstreamEvent,
     CatchUpUpstream, vars, clusterVars, serverVars, kidVars
<1>11. CASE Restart
  <2>1. sPc' = "idle" /\ (\A s \in Servers : Present(srv'[s]) => s \in sQ')
    BY <1>11 DEF Restart, RelistAll
  <2> QED
    BY <2>1 DEF ServersSettle, SettledServersAreInLine, ServerSettled,
       ServerRunsOnCurrent, DoneStaysDone, ServerPastFinalizer
<1> QED
  BY <1>2, <1>4, <1>5, <1>6, <1>8, <1>9, <1>10, <1>11 DEF Next, Events

\* Nothing to do for a server is ever forgotten: while its key is on no queue, no
\* reconcile runs for it and no event is on its way, it is adopted and alive, and
\* its ConfigMap, Deployment, Service and status all carry its spec.
THEOREM SettledServers == Spec => []SettledServersAreInLine
<1> DEFINE Inv == /\ TypeOK /\ ServersFit /\ ServersHonest /\ HashesFit
                  /\ ServersSettle
<1>1. Init => Inv
  BY TypeOKInit, ServersFitInit, ServersHonestInit, HashesFitInit,
     ServersSettleInit
<1>2. Inv /\ [Next]_vars => Inv'
  BY TypeOKNext, ServersFitNext, ServersHonestNext, HashesFitNext,
     ServersSettleNext
<1>3. Inv => SettledServersAreInLine
  BY DEF ServersSettle
<1> QED
  BY <1>1, <1>2, <1>3, PTL DEF Spec

-----------------------------------------------------------------------------
(***************************************************************************)
(* The routes, in the same way.  What a reconcile has found out about the  *)
(* server its route names stays so, too, unless the key was put back: an   *)
(* event of the server puts back the keys of all routes that, in the       *)
(* cache, name it, and a route that names another one by now has an event  *)
(* of its own to come.                                                     *)
(***************************************************************************)
RouteUndisturbed ==
  rPc # "idle" /\ rKey \notin rQ /\ "cache" \in rtFresh[rKey]

\* A reconcile whose key was not put back runs on what the cache has, if that
\* is current, and knows whether its server is there.
RouteRunsOnCurrent ==
  RouteUndisturbed =>
    /\ "reconciler" \in rtFresh[rKey]
    /\ rPc = "status" => Present(srvC[rObj.spec.serverRef])
    /\ rPc = "noServer" => ~Present(srvC[rObj.spec.serverRef])

\* The steps after those of the finalizers are for adopted routes, with a spec
\* that was accepted or refused.
RoutePastFinalizer ==
  /\ rPc \notin DeletionSteps \cup {"idle", "addFinalizer"} => rObj.fin
  /\ rPc = "notValid" => ~rObj.spec.valid
  /\ rPc \in {"trigger", "noServer", "status"} => rObj.spec.valid

RoutesSettle == SettledRoutesAreInLine /\ RouteRunsOnCurrent /\ RoutePastFinalizer

\* Every route waits for the operator that starts.
LEMMA RoutesSettleInit == Init => RoutesSettle
BY DEF Init, RouteInit, RoutesSettle, SettledRoutesAreInLine, RouteSettled,
   RouteRunsOnCurrent, RouteUndisturbed, RoutePastFinalizer

\* Steps about something else.
LEMMA ElsewhereRoutesSettle ==
  ASSUME RoutesSettle, UNCHANGED <<rt, rtFresh, srvC>>,
         UNCHANGED routeControllerVars
  PROVE  RoutesSettle'
<1> USE DEF routeControllerVars, routeLocals
<1>1. SettledRoutesAreInLine'
  BY DEF RoutesSettle, SettledRoutesAreInLine, RouteSettled, RouteInLine
<1>2. RouteRunsOnCurrent' /\ RoutePastFinalizer'
  BY DEF RoutesSettle, RouteRunsOnCurrent, RouteUndisturbed, RoutePastFinalizer
<1> QED
  BY <1>1, <1>2 DEF RoutesSettle

\* A route that someone writes has an event to come.
LEMMA PutRouteSettles ==
  ASSUME TypeOK, RoutesSettle, NEW r \in Routes, NEW o, PutRoute(r, o),
         UNCHANGED srvC, UNCHANGED routeControllerVars
  PROVE  RoutesSettle'
<1> USE DEF routeControllerVars, routeLocals
<1>1. RoutesTyped /\ (rPc # "idle" => rKey \in Routes)
  BY DEF TypeOK, ClusterTypeOK, RouteTypeOK
<1>2. /\ rtFresh'[r] = {}
      /\ \A t \in Routes : t # r => rt'[t] = rt[t] /\ rtFresh'[t] = rtFresh[t]
  BY <1>1 DEF PutRoute, RoutesTyped
<1>3. SettledRoutesAreInLine'
  BY <1>2 DEF RoutesSettle, SettledRoutesAreInLine, RouteSettled, RouteInLine
<1>4. RouteRunsOnCurrent' /\ RoutePastFinalizer'
  BY <1>1, <1>2 DEF RoutesSettle, RouteRunsOnCurrent, RouteUndisturbed,
     RoutePastFinalizer
<1> QED
  BY <1>3, <1>4 DEF RoutesSettle

\* A reconcile writes its route and returns.  Unless it puts the key back, or the
\* write makes an event, it has to leave the route in line.
LEMMA WriteRouteSettles ==
  ASSUME TypeOK, RoutesSettle, rPc # "idle", NEW o, NEW reply, NEW requeue,
         WriteRoute(rKey, o, reply), RouteReturn(requeue), UNCHANGED srvC,
         ~requeue /\ ~Applied(reply) /\ RouteUndisturbed => RouteInLine(rKey)
  PROVE  RoutesSettle'
<1>1. RoutesTyped /\ rKey \in Routes
  BY DEF TypeOK, ClusterTypeOK, RouteTypeOK
<1>2. rPc' = "idle" /\ rQ' = IF requeue THEN rQ \cup {rKey} ELSE rQ
  BY DEF RouteReturn
<1>3. RouteRunsOnCurrent' /\ RoutePastFinalizer'
  BY <1>2 DEF RouteRunsOnCurrent, RouteUndisturbed, RoutePastFinalizer
<1>4. ASSUME NEW t \in Routes, RouteSettled(t)', Present(rt'[t]), t # rKey
      PROVE  RouteInLine(t)'
  <2>1. rt'[t] = rt[t] /\ rtFresh'[t] = rtFresh[t]
    BY <1>1, <1>4 DEF WriteRoute, PutRoute, RoutesTyped
  <2>2. RouteSettled(t)
    BY <1>2, <1>4, <2>1 DEF RouteSettled
  <2> QED
    BY <1>4, <2>1, <2>2 DEF RoutesSettle, SettledRoutesAreInLine, RouteInLine
<1>5. ASSUME NEW t \in Routes, RouteSettled(t)', t = rKey
      PROVE  RouteInLine(t)'
  <2>1. ~requeue /\ rKey \notin rQ /\ "cache" \in rtFresh'[rKey]
    BY <1>1, <1>2, <1>5 DEF RouteSettled
  <2>2. ~Applied(reply)
    BY <1>1, <2>1 DEF WriteRoute, PutRoute, RoutesTyped
  <2>3. rt' = rt /\ "cache" \in rtFresh[rKey]
    BY <1>1, <2>1, <2>2 DEF WriteRoute, RoutesTyped
  <2>4. RouteInLine(t)
    BY <1>5, <2>1, <2>2, <2>3 DEF RouteUndisturbed
  <2> QED
    BY <2>3, <2>4 DEF RouteInLine
<1>6. SettledRoutesAreInLine'
  BY <1>4, <1>5 DEF SettledRoutesAreInLine
<1> QED
  BY <1>3, <1>6 DEF RoutesSettle

\* A Get of a cached route that is there begins a reconcile of it; one that is
\* not there is not in the API either, unless an event is to come.
LEMMA FetchRouteSettles ==
  ASSUME TypeOK, RoutesFit, RoutesSettle, NEW r \in Routes, FetchRoute(r)
  PROVE  RoutesSettle'
<1>1. RoutesTyped /\ rPc = "idle" /\ rQ' = rQ \ {r} /\ UNCHANGED <<rt, rtC, srvC>>
  BY DEF TypeOK, ClusterTypeOK, FetchRoute, serverVars
<1>2. ASSUME NEW t \in Routes, t # r, RouteSettled(t)', Present(rt[t]),
             rtFresh'[t] = rtFresh[t]
      PROVE  RouteInLine(t)'
  <2>1. RouteSettled(t)
    BY <1>1, <1>2 DEF RouteSettled
  <2> QED
    BY <1>1, <1>2, <2>1 DEF RoutesSettle, SettledRoutesAreInLine, RouteInLine
<1>3. CASE /\ ~Present(rtC[r]) \/ (rtC[r].deleting /\ ~rtC[r].fin)
           /\ UNCHANGED <<routeLocals, rtFresh>>
  <2>1. rPc' = "idle"
    BY <1>1, <1>3 DEF routeLocals
  <2>2. RouteRunsOnCurrent' /\ RoutePastFinalizer'
    BY <2>1 DEF RouteRunsOnCurrent, RouteUndisturbed, RoutePastFinalizer
  <2>3. "cache" \in rtFresh'[r] => ~Present(rt'[r])
    BY <1>1, <1>3 DEF RoutesFit, RouteCopiesAreCurrent, DyingRoutesAreHeld
  <2>4. SettledRoutesAreInLine'
    BY <1>1, <1>2, <1>3, <2>3 DEF SettledRoutesAreInLine, RouteSettled
  <2> QED
    BY <2>2, <2>4 DEF RoutesSettle
<1>4. CASE /\ Present(rtC[r]) /\ rPc' = FirstRouteStep(rtC[r])
           /\ rKey' = r /\ rObj' = rtC[r] /\ rtFresh' = TakeCopy(rtFresh, r)
  <2>1. rPc' \in {"triggerThenRemove", "addFinalizer", "notValid", "trigger"}
    BY <1>4 DEF FirstRouteStep
  <2>2. RoutePastFinalizer'
    BY <1>4 DEF RoutePastFinalizer, FirstRouteStep, ValidateNginxRoute,
       DeletionSteps
  <2>3. RouteRunsOnCurrent'
    BY <1>1, <1>4, <2>1 DEF RouteRunsOnCurrent, RouteUndisturbed, TakeCopy,
       RoutesTyped
  <2>4. \A t \in Routes : t # r => rtFresh'[t] = rtFresh[t]
    BY <1>1, <1>4 DEF TakeCopy, RoutesTyped
  <2>5. SettledRoutesAreInLine'
    BY <1>1, <1>2, <1>4, <2>1, <2>4 DEF SettledRoutesAreInLine, RouteSettled
  <2> QED
    BY <2>2, <2>3, <2>5 DEF RoutesSettle
<1> QED
  BY <1>3, <1>4 DEF FetchRoute

\* A status write ends a reconcile for good only if it has found its own values.
LEMMA RouteStatusSettles ==
  ASSUME TypeOK, RoutesFit, RoutesSettle, rPc \in {"notValid", "noServer", "status"},
         NEW ready, NEW stamped, WriteRouteStatus(ready, stamped),
         ready = IF rPc = "status" THEN "True" ELSE "False"
  PROVE  RoutesSettle'
<1>1. rPc # "idle" /\ rKey \in Routes /\ rObj \in Route /\ UNCHANGED srvC
  BY DEF TypeOK, RouteTypeOK, WriteRouteStatus, serverVars
<1> DEFINE new == [rObj EXCEPT !.Ready = ready, !.seen = TRUE]
<1>2. PICK reply \in Replies(RouteCurrent,
                             IF rObj # new THEN {"ok"}
                             ELSE IF stamped THEN {"ok", "noop"} ELSE {"noop"}) :
        WriteRoute(rKey, new, reply) /\ RouteReturn(~Succeeded(reply))
  BY DEF WriteRouteStatus
<1>3. new.Ready = ready /\ new.seen
  BY <1>1 DEF Route
<1> HIDE DEF new
<1>4. rObj.fin /\ ~rObj.deleting
      /\ IF rPc = "notValid" THEN ~rObj.spec.valid ELSE rObj.spec.valid
  BY <1>1 DEF RoutesSettle, RoutePastFinalizer, RoutesFit, RouteStepFits,
     DeletionSteps
<1>5. ASSUME Succeeded(reply), ~Applied(reply), RouteUndisturbed
      PROVE  RouteInLine(rKey)
  <2>1. rObj = new /\ RouteCurrent
    BY <1>2, <1>5 DEF Replies, Succeeded, Applied
  <2>2. rt[rKey] = rObj
    BY <1>1, <2>1 DEF RoutesFit, RouteCopiesAreCurrent, RouteCurrent
  <2>3. ready = IF rObj.spec.valid /\ Present(srvC[rObj.spec.serverRef])
                  THEN "True" ELSE "False"
    BY <1>4, <1>5 DEF RoutesSettle, RouteRunsOnCurrent
  <2> QED
    BY <1>3, <1>4, <2>1, <2>2, <2>3 DEF RouteInLine
<1> QED
  BY <1>1, <1>2, <1>5, WriteRouteSettles

\* A server's reconcile leaves the cache to the informers.
LEMMA ServerStepOnCaches ==
  ASSUME ServerStep PROVE UNCHANGED srvC
BY DEF ServerStep, ServerHandleDeletion, ServerAddFinalizer, ServerNotValid,
   ServerNotGenerated, GenerateFullConfig, ReconcileChild, UpdateStatus,
   WriteServerStatus, WriteServer, clusterVars, serverVars

\* The steps of a route's reconcile.
LEMMA RouteStepSettles ==
  ASSUME TypeOK, RoutesFit, RoutesSettle, RouteStep PROVE RoutesSettle'
<1>1. RoutesTyped /\ (rPc # "idle" => rKey \in Routes)
  BY DEF TypeOK, ClusterTypeOK, RouteTypeOK
<1>2. CASE RouteAddFinalizer
  <2>1. PICK reply : WriteRoute(rKey, UpdatedRoute([rObj EXCEPT !.fin = TRUE]), reply)
    BY <1>2 DEF RouteAddFinalizer
  <2>2. RouteReturn(TRUE) /\ rPc # "idle" /\ UNCHANGED srvC
    BY <1>2 DEF RouteAddFinalizer, serverVars
  <2> QED
    BY <2>1, <2>2, WriteRouteSettles
<1>3. CASE RouteRemoveFinalizer
  <2>1. PICK reply \in Replies(RouteCurrent, {"ok"}) :
          /\ WriteRoute(rKey, UpdatedRoute([rObj EXCEPT !.fin = FALSE]), reply)
          /\ RouteReturn(~Succeeded(reply))
    BY <1>3 DEF RouteRemoveFinalizer
  <2>2. Succeeded(reply) => Applied(reply)
    BY <2>1 DEF Replies, Succeeded, Applied
  <2>3. rPc # "idle" /\ UNCHANGED srvC
    BY <1>3 DEF RouteRemoveFinalizer, serverVars
  <2> QED
    BY <2>1, <2>2, <2>3, WriteRouteSettles
<1>4. CASE RouteNotReady \/ RouteReady
  BY <1>4, RouteStatusSettles DEF RouteNotReady, RouteReady
<1>5. ASSUME rPc # "idle", UNCHANGED <<rt, srvC>>, rPc' = "idle",
             rQ' = rQ \cup {rKey},
             rtFresh' = [rtFresh EXCEPT ![rKey] = @ \ {"reconciler"}]
      PROVE  RoutesSettle'
  <2>1. RouteRunsOnCurrent' /\ RoutePastFinalizer'
    BY <1>5 DEF RouteRunsOnCurrent, RouteUndisturbed, RoutePastFinalizer
  <2>2. \A t \in Routes : t # rKey => rtFresh'[t] = rtFresh[t]
    BY <1>1, <1>5 DEF RoutesTyped
  <2>3. SettledRoutesAreInLine'
    BY <1>5, <2>2 DEF RoutesSettle, SettledRoutesAreInLine, RouteSettled,
       RouteInLine
  <2> QED
    BY <2>1, <2>3 DEF RoutesSettle
<1>6. ASSUME rPc # "idle", UNCHANGED <<rt, srvC, rtFresh, rQ, rKey, rObj>>,
             rPc' # "idle"
      PROVE  SettledRoutesAreInLine'
  BY <1>6 DEF RoutesSettle, SettledRoutesAreInLine, RouteSettled, RouteInLine
<1>7. CASE Trigger
  <2>1. rPc = "trigger" /\ UNCHANGED <<rt, srvC>>
    BY <1>7 DEF Trigger, TriggerServerReconcile, WriteServer, serverVars
  <2>2. \/ /\ rPc' = "idle" /\ rQ' = rQ \cup {rKey}
           /\ rtFresh' = [rtFresh EXCEPT ![rKey] = @ \ {"reconciler"}]
        \/ /\ rPc' = IF Present(srvC[rObj.spec.serverRef]) THEN "status"
                                                          ELSE "noServer"
           /\ UNCHANGED <<rtFresh, rQ, rKey, rObj>>
    BY <1>7 DEF Trigger, RouteContinue, RouteReturn
  <2>3. ASSUME /\ rPc' = IF Present(srvC[rObj.spec.serverRef]) THEN "status"
                                                              ELSE "noServer"
               /\ UNCHANGED <<rtFresh, rQ, rKey, rObj>>
        PROVE  RoutesSettle'
    <3>1. RouteRunsOnCurrent' /\ RoutePastFinalizer'
      BY <2>1, <2>3 DEF RoutesSettle, RouteRunsOnCurrent, RouteUndisturbed,
         RoutePastFinalizer, DeletionSteps
    <3> QED
      BY <1>6, <2>1, <2>3, <3>1 DEF RoutesSettle
  <2> QED
    BY <1>5, <2>1, <2>2, <2>3
<1>8. CASE TriggerThenRemove
  <2>1. /\ rPc = "triggerThenRemove" /\ rPc' = "removeFinalizer"
        /\ UNCHANGED <<rt, srvC, rtFresh, rQ, rKey, rObj>>
    BY <1>8 DEF TriggerThenRemove, TriggerServerReconcile, WriteServer,
       serverVars, routeVars, RouteContinue
  <2>2. RouteRunsOnCurrent' /\ RoutePastFinalizer'
    BY <2>1 DEF RoutesSettle, RouteRunsOnCurrent, RouteUndisturbed,
       RoutePastFinalizer, DeletionSteps
  <2> QED
    BY <1>6, <2>1, <2>2 DEF RoutesSettle
<1> QED
  BY <1>2, <1>3, <1>4, <1>7, <1>8 DEF RouteStep

\* An event of a server wakes the reconcilers of the routes that name it.
LEMMA ServerEventSettlesRoutes ==
  ASSUME TypeOK, RoutesFit, RoutesSettle, NEW s \in Servers, ServerEvent(s)
  PROVE  RoutesSettle'
<1>1. /\ RoutesTyped /\ ServersTyped
      /\ rPc # "idle" => rKey \in Routes /\ rObj \in Route
  BY DEF TypeOK, ClusterTypeOK, RouteTypeOK
<1>2. /\ UNCHANGED <<rt, rtC, rtFresh, rPc, rKey, rObj>>
      /\ rQ' = rQ \cup FindRoutesForServer(s)
      /\ \A t \in Servers : t # s => srvC'[t] = srvC[t]
  BY <1>1 DEF ServerEvent, CatchUpServer, routeVars, routeLocals, ServersTyped
<1>3. ASSUME NEW r \in Routes, r \notin rQ', "cache" \in rtFresh[r], Present(rt[r])
      PROVE  Present(srvC'[rt[r].spec.serverRef])
               <=> Present(srvC[rt[r].spec.serverRef])
  <2>1. rt[r].spec.serverRef \in Servers
    BY <1>1, <1>3, ClusterAssumption DEF RoutesTyped, Present, Route, RouteSpecType
  <2>2. rt[r].spec.serverRef # s
    BY <1>2, <1>3 DEF FindRoutesForServer, RoutesFit, RouteCopiesAreCurrent
  <2> QED
    BY <1>2, <2>1, <2>2
<1>4. SettledRoutesAreInLine'
  BY <1>2, <1>3 DEF RoutesSettle, SettledRoutesAreInLine, RouteSettled, RouteInLine
<1>5. RoutePastFinalizer'
  BY <1>2 DEF RoutesSettle, RoutePastFinalizer
<1>6. RouteRunsOnCurrent'
  <2> SUFFICES ASSUME rPc # "idle", rKey \notin rQ', "cache" \in rtFresh[rKey]
               PROVE  RouteRunsOnCurrent'
    BY <1>2 DEF RouteRunsOnCurrent, RouteUndisturbed
  <2>1. RouteUndisturbed
    BY <1>2 DEF RouteUndisturbed
  <2>2. "reconciler" \in rtFresh[rKey]
    BY <2>1 DEF RoutesSettle, RouteRunsOnCurrent
  <2>3. rt[rKey] = rObj /\ Present(rObj)
    BY <1>1, <2>2, AbsentAssumption
       DEF RoutesFit, RouteCopiesAreCurrent, Present
  <2> QED
    BY <1>1, <1>2, <1>3, <2>1, <2>3 DEF RoutesSettle, RouteRunsOnCurrent
<1> QED
  BY <1>4, <1>5, <1>6 DEF RoutesSettle

\* RoutesSettle survives every step.
LEMMA RoutesSettleNext ==
  ASSUME TypeOK, RoutesFit, RoutesSettle, [Next]_vars PROVE RoutesSettle'
<1>1. RoutesTyped /\ (rPc # "idle" => rKey \in Routes)
  BY DEF TypeOK, ClusterTypeOK, RouteTypeOK
<1>2. CASE RouteController
  BY <1>2, FetchRouteSettles, RouteStepSettles DEF RouteController
<1>3. CASE ServerController
  <2>1. ASSUME ServerStep PROVE UNCHANGED srvC
    BY <2>1, ServerStepOnCaches
  <2>2. UNCHANGED <<rt, rtFresh, srvC>> /\ UNCHANGED routeControllerVars
    BY <1>3, <2>1, ServerStepTyped DEF ServerController, FetchServer, routeVars
  <2> QED
    BY <2>2, ElsewhereRoutesSettle
<1>4. CASE UpstreamController
  <2>1. ASSUME UpstreamStep PROVE UNCHANGED srvC
    BY <2>1, UpstreamStepOnServers
       DEF TriggerServerReconcile, WriteServer, serverVars
  <2>2. UNCHANGED <<rt, rtFresh, srvC>> /\ UNCHANGED routeControllerVars
    BY <1>4, <2>1, UpstreamStepTyped
       DEF UpstreamController, FetchUpstream, routeVars, serverVars
  <2> QED
    BY <2>2, ElsewhereRoutesSettle
<1>5. CASE Environment
  <2>1. UNCHANGED routeControllerVars
    BY <1>5 DEF Environment
  <2>2. ASSUME Users PROVE RoutesSettle'
    <3>1. /\ UNCHANGED srvC
          /\ UNCHANGED <<rt, rtFresh>> \/ \E r \in Routes, o \in Route : PutRoute(r, o)
      BY <2>2, UsersWriteServers, UsersWriteRoutes DEF routeVars
    <3> QED
      BY <2>1, <3>1, ElsewhereRoutesSettle, PutRouteSettles
  <2>3. ASSUME Kubernetes PROVE RoutesSettle'
    <3>1. UNCHANGED <<rt, rtFresh, srvC>>
      BY <2>3 DEF Kubernetes, Surge, Rollout, Terminate, CollectGarbage, serverVars,
         routeVars
    <3> QED
      BY <2>1, <3>1, ElsewhereRoutesSettle
  <2> QED
    BY <1>5, <2>2, <2>3 DEF Environment
<1>6. ASSUME NEW s \in Servers, ServerEvent(s) PROVE RoutesSettle'
  BY <1>6, ServerEventSettlesRoutes
<1>7. ASSUME NEW r \in Routes, RouteEvent(r) PROVE RoutesSettle'
  <2>1. /\ rQ' = rQ \cup {r} /\ UNCHANGED <<rPc, rKey, rObj, rt, srvC>>
        /\ \A t \in Routes : t # r => rtFresh'[t] = rtFresh[t]
    BY <1>1, <1>7 DEF RouteEvent, CatchUpRoute, RoutesTyped, routeLocals, serverVars
  <2>2. SettledRoutesAreInLine'
    BY <2>1 DEF RoutesSettle, SettledRoutesAreInLine, RouteSettled, RouteInLine
  <2>3. RouteRunsOnCurrent' /\ RoutePastFinalizer'
    BY <1>1, <2>1 DEF RoutesSettle, RouteRunsOnCurrent, RouteUndisturbed,
       RoutePastFinalizer
  <2> QED
    BY <2>2, <2>3 DEF RoutesSettle
<1>8. CASE \/ \E u \in Upstreams : UpstreamEvent(u)
           \/ \E s \in Servers, k \in Kinds : ChildEvent(s, k)
           \/ UNCHANGED vars
  BY <1>8, ElsewhereRoutesSettle DEF UpstreamEvent, CatchUpUpstream, ChildEvent,
     CatchUpChild, vars, clusterVars, serverVars, routeVars
<1>9. CASE Restart
  <2>1. rPc' = "idle" /\ (\A r \in Routes : Present(rt'[r]) => r \in rQ')
    BY <1>9 DEF Restart, RelistAll
  <2> QED
    BY <2>1 DEF RoutesSettle, SettledRoutesAreInLine, RouteSettled,
       RouteRunsOnCurrent, RouteUndisturbed, RoutePastFinalizer
<1> QED
  BY <1>2, <1>3, <1>4, <1>5, <1>6, <1>7, <1>8, <1>9 DEF Next, Events

\* Nor is a route forgotten whose spec was edited, whose server has come or gone
\* or whose status could not be written: as long as it is not Ready just if it
\* may be, an event is on its way to it, its key waits or a reconcile runs.
THEOREM SettledRoutes == Spec => []SettledRoutesAreInLine
<1> DEFINE Inv == TypeOK /\ RoutesFit /\ RoutesSettle
<1>1. Init => Inv
  BY TypeOKInit, RoutesFitInit, RoutesSettleInit
<1>2. Inv /\ [Next]_vars => Inv'
  BY TypeOKNext, RoutesFitNext, RoutesSettleNext
<1>3. Inv => SettledRoutesAreInLine
  BY DEF RoutesSettle
<1> QED
  BY <1>1, <1>2, <1>3, PTL DEF Spec

-----------------------------------------------------------------------------
(***************************************************************************)
(* The upstreams, in the same way.  An upstream that discovers its         *)
(* backends comes back by itself once it has looked them up, found some or *)
(* none: left alone is only one whose Service has no Endpoints object.     *)
(***************************************************************************)
UpstreamUndisturbed ==
  uPc # "idle" /\ uKey \notin uQ /\ "cache" \in upFresh[uKey]

\* A reconcile whose key was not put back runs on what the cache has, if that
\* is current, and knows whether its server is there.
UpstreamRunsOnCurrent ==
  UpstreamUndisturbed =>
    /\ "reconciler" \in upFresh[uKey]
    /\ uPc \in {"notResolved", "status"} => Present(srvC[uObj.spec.serverRef])
    /\ uPc = "noServer" => ~Present(srvC[uObj.spec.serverRef])

\* The steps after those of the finalizers are for adopted upstreams, with a spec
\* that was accepted or refused; what is not resolved is to be discovered.
UpstreamPastFinalizer ==
  /\ uPc \notin DeletionSteps \cup {"idle", "addFinalizer"} => uObj.fin
  /\ uPc = "notValid" => ~uObj.spec.valid
  /\ uPc \in {"trigger", "noServer", "notResolved", "status"} => uObj.spec.valid
  /\ uPc = "notResolved" => Discovers(uObj)

UpstreamsSettle == /\ SettledUpstreamsAreInLine /\ UpstreamRunsOnCurrent
                   /\ UpstreamPastFinalizer

\* Every upstream waits for the operator that starts.
LEMMA UpstreamsSettleInit == Init => UpstreamsSettle
BY DEF Init, UpstreamInit, UpstreamsSettle, SettledUpstreamsAreInLine,
   UpstreamSettled, UpstreamRunsOnCurrent, UpstreamUndisturbed,
   UpstreamPastFinalizer

\* Steps about something else.
LEMMA ElsewhereUpstreamsSettle ==
  ASSUME UpstreamsSettle, UNCHANGED <<up, upFresh, srvC>>,
         UNCHANGED upstreamControllerVars
  PROVE  UpstreamsSettle'
<1> USE DEF upstreamControllerVars, upstreamLocals
<1>1. SettledUpstreamsAreInLine'
  BY DEF UpstreamsSettle, SettledUpstreamsAreInLine, UpstreamSettled,
     UpstreamInLine, Discovers
<1>2. UpstreamRunsOnCurrent' /\ UpstreamPastFinalizer'
  BY DEF UpstreamsSettle, UpstreamRunsOnCurrent, UpstreamUndisturbed,
     UpstreamPastFinalizer, Discovers
<1> QED
  BY <1>1, <1>2 DEF UpstreamsSettle

\* An upstream that someone writes has an event to come.
LEMMA PutUpstreamSettles ==
  ASSUME TypeOK, UpstreamsSettle, NEW u \in Upstreams, NEW o, PutUpstream(u, o),
         UNCHANGED srvC, UNCHANGED upstreamControllerVars
  PROVE  UpstreamsSettle'
<1> USE DEF upstreamControllerVars, upstreamLocals
<1>1. UpstreamsTyped /\ (uPc # "idle" => uKey \in Upstreams)
  BY DEF TypeOK, ClusterTypeOK, UpstreamTypeOK
<1>2. /\ upFresh'[u] = {}
      /\ \A t \in Upstreams : t # u => up'[t] = up[t] /\ upFresh'[t] = upFresh[t]
  BY <1>1 DEF PutUpstream, UpstreamsTyped
<1>3. SettledUpstreamsAreInLine'
  BY <1>2 DEF UpstreamsSettle, SettledUpstreamsAreInLine, UpstreamSettled,
     UpstreamInLine, Discovers
<1>4. UpstreamRunsOnCurrent' /\ UpstreamPastFinalizer'
  BY <1>1, <1>2 DEF UpstreamsSettle, UpstreamRunsOnCurrent, UpstreamUndisturbed,
     UpstreamPastFinalizer, Discovers
<1> QED
  BY <1>3, <1>4 DEF UpstreamsSettle

\* A reconcile writes its upstream and returns.  Unless it puts the key back, or
\* the write makes an event, it has to leave the upstream in line.
LEMMA WriteUpstreamSettles ==
  ASSUME TypeOK, UpstreamsSettle, uPc # "idle", NEW o, NEW reply, NEW requeue,
         WriteUpstream(uKey, o, reply), UpstreamReturn(requeue), UNCHANGED srvC,
         ~requeue /\ ~Applied(reply) /\ UpstreamUndisturbed => UpstreamInLine(uKey)
  PROVE  UpstreamsSettle'
<1>1. UpstreamsTyped /\ uKey \in Upstreams
  BY DEF TypeOK, ClusterTypeOK, UpstreamTypeOK
<1>2. uPc' = "idle" /\ uQ' = IF requeue THEN uQ \cup {uKey} ELSE uQ
  BY DEF UpstreamReturn
<1>3. UpstreamRunsOnCurrent' /\ UpstreamPastFinalizer'
  BY <1>2 DEF UpstreamRunsOnCurrent, UpstreamUndisturbed, UpstreamPastFinalizer
<1>4. ASSUME NEW t \in Upstreams, UpstreamSettled(t)', Present(up'[t]), t # uKey
      PROVE  UpstreamInLine(t)'
  <2>1. up'[t] = up[t] /\ upFresh'[t] = upFresh[t]
    BY <1>1, <1>4 DEF WriteUpstream, PutUpstream, UpstreamsTyped
  <2>2. UpstreamSettled(t)
    BY <1>2, <1>4, <2>1 DEF UpstreamSettled
  <2> QED
    BY <1>4, <2>1, <2>2
       DEF UpstreamsSettle, SettledUpstreamsAreInLine, UpstreamInLine, Discovers
<1>5. ASSUME NEW t \in Upstreams, UpstreamSettled(t)', t = uKey
      PROVE  UpstreamInLine(t)'
  <2>1. ~requeue /\ uKey \notin uQ /\ "cache" \in upFresh'[uKey]
    BY <1>1, <1>2, <1>5 DEF UpstreamSettled
  <2>2. ~Applied(reply)
    BY <1>1, <2>1 DEF WriteUpstream, PutUpstream, UpstreamsTyped
  <2>3. up' = up /\ "cache" \in upFresh[uKey]
    BY <1>1, <2>1, <2>2 DEF WriteUpstream, UpstreamsTyped
  <2>4. UpstreamInLine(t)
    BY <1>5, <2>1, <2>2, <2>3 DEF UpstreamUndisturbed
  <2> QED
    BY <2>3, <2>4 DEF UpstreamInLine, Discovers
<1>6. SettledUpstreamsAreInLine'
  BY <1>4, <1>5 DEF SettledUpstreamsAreInLine
<1> QED
  BY <1>3, <1>6 DEF UpstreamsSettle

\* A Get of a cached upstream that is there begins a reconcile of it; one that is
\* not there is not in the API either, unless an event is to come.
LEMMA FetchUpstreamSettles ==
  ASSUME TypeOK, UpstreamsFit, UpstreamsSettle, NEW u \in Upstreams,
         FetchUpstream(u)
  PROVE  UpstreamsSettle'
<1>1. /\ UpstreamsTyped /\ uPc = "idle" /\ uQ' = uQ \ {u}
      /\ UNCHANGED <<up, upC, srvC>>
  BY DEF TypeOK, ClusterTypeOK, FetchUpstream, serverVars
<1>2. ASSUME NEW t \in Upstreams, t # u, UpstreamSettled(t)', Present(up[t]),
             upFresh'[t] = upFresh[t]
      PROVE  UpstreamInLine(t)'
  <2>1. UpstreamSettled(t)
    BY <1>1, <1>2 DEF UpstreamSettled
  <2> QED
    BY <1>1, <1>2, <2>1
       DEF UpstreamsSettle, SettledUpstreamsAreInLine, UpstreamInLine, Discovers
<1>3. CASE /\ ~Present(upC[u]) \/ (upC[u].deleting /\ ~upC[u].fin)
           /\ UNCHANGED <<upstreamLocals, upFresh>>
  <2>1. uPc' = "idle"
    BY <1>1, <1>3 DEF upstreamLocals
  <2>2. UpstreamRunsOnCurrent' /\ UpstreamPastFinalizer'
    BY <2>1 DEF UpstreamRunsOnCurrent, UpstreamUndisturbed, UpstreamPastFinalizer
  <2>3. "cache" \in upFresh'[u] => ~Present(up'[u])
    BY <1>1, <1>3 DEF UpstreamsFit, UpstreamCopiesAreCurrent, DyingUpstreamsAreHeld
  <2>4. SettledUpstreamsAreInLine'
    BY <1>1, <1>2, <1>3, <2>3 DEF SettledUpstreamsAreInLine, UpstreamSettled
  <2> QED
    BY <2>2, <2>4 DEF UpstreamsSettle
<1>4. CASE /\ Present(upC[u]) /\ uPc' = FirstUpstreamStep(upC[u])
           /\ uKey' = u /\ uObj' = upC[u] /\ upFresh' = TakeCopy(upFresh, u)
  <2>1. uPc' \in {"triggerThenRemove", "addFinalizer", "notValid", "trigger"}
    BY <1>4 DEF FirstUpstreamStep
  <2>2. UpstreamPastFinalizer'
    BY <1>4 DEF UpstreamPastFinalizer, FirstUpstreamStep, ValidateNginxUpstream,
       DeletionSteps
  <2>3. UpstreamRunsOnCurrent'
    BY <1>1, <1>4, <2>1 DEF UpstreamRunsOnCurrent, UpstreamUndisturbed, TakeCopy,
       UpstreamsTyped
  <2>4. \A t \in Upstreams : t # u => upFresh'[t] = upFresh[t]
    BY <1>1, <1>4 DEF TakeCopy, UpstreamsTyped
  <2>5. SettledUpstreamsAreInLine'
    BY <1>1, <1>2, <1>4, <2>1, <2>4 DEF SettledUpstreamsAreInLine, UpstreamSettled
  <2> QED
    BY <2>2, <2>3, <2>5 DEF UpstreamsSettle
<1> QED
  BY <1>3, <1>4 DEF FetchUpstream

\* A status write ends a reconcile for good only if it has found its own values.
LEMMA UpstreamStatusSettles ==
  ASSUME TypeOK, UpstreamsFit, UpstreamsSettle,
         uPc \in {"notValid", "noServer", "notResolved", "status"},
         NEW ready, NEW stamped, NEW again,
         WriteUpstreamStatus(ready, stamped, again),
         ready = CASE uPc = "notValid" -> "Failed"
                   [] uPc = "noServer" -> "ServerNotFound"
                   [] uPc = "notResolved" -> "DependencyNotReady"
                   [] OTHER -> "True",
         uPc = "status" => again = Discovers(uObj)
  PROVE  UpstreamsSettle'
<1>1. uPc # "idle" /\ uKey \in Upstreams /\ UNCHANGED srvC
      /\ ready \in UpstreamConditions
  BY DEF TypeOK, UpstreamTypeOK, WriteUpstreamStatus, serverVars,
     UpstreamConditions
<1> DEFINE new == Reported(ready)
<1>2. PICK reply \in Replies(UpstreamCurrent,
                             IF up[uKey] # new THEN {"ok"}
                             ELSE IF stamped THEN {"ok", "noop"} ELSE {"noop"}) :
        WriteUpstream(uKey, new, reply) /\ UpstreamReturn(~Succeeded(reply) \/ again)
  BY DEF WriteUpstreamStatus
<1>3. UpstreamCurrent => /\ up[uKey] \in Upstream /\ Agree(uObj, up[uKey])
                         /\ new.Ready = ready /\ new.seen
  <2> SUFFICES ASSUME UpstreamCurrent
               PROVE  /\ up[uKey] \in Upstream /\ Agree(uObj, up[uKey])
                      /\ new.Ready = ready /\ new.seen
    OBVIOUS
  <2>1. up[uKey] \in Upstream
    BY <1>1, ReportedTyped
  <2>2. Agree(uObj, up[uKey])
    BY <1>1 DEF UpstreamsFit, UpstreamCopiesAreCurrent, UpstreamCurrent
  <2> QED
    BY <2>1, <2>2 DEF Reported, Upstream
<1> HIDE DEF new
<1>4. /\ uObj.fin /\ ~uObj.deleting
      /\ IF uPc = "notValid" THEN ~uObj.spec.valid ELSE uObj.spec.valid
      /\ uPc = "notResolved" => Discovers(uObj)
  BY <1>1 DEF UpstreamsSettle, UpstreamPastFinalizer, UpstreamsFit,
     UpstreamStepFits, DeletionSteps
<1>5. ASSUME Succeeded(reply), ~again, ~Applied(reply), UpstreamUndisturbed
      PROVE  UpstreamInLine(uKey)
  <2>1. up[uKey] = new /\ UpstreamCurrent
    BY <1>2, <1>5 DEF Replies, Succeeded, Applied
  <2>2. ready = IF ~uObj.spec.valid THEN "Failed"
                ELSE IF ~Present(srvC[uObj.spec.serverRef]) THEN "ServerNotFound"
                ELSE IF Discovers(uObj) THEN "DependencyNotReady" ELSE "True"
    BY <1>4, <1>5 DEF UpstreamsSettle, UpstreamRunsOnCurrent
  <2> QED
    BY <1>3, <1>4, <2>1, <2>2 DEF UpstreamInLine, Discovers, Agree
<1> QED
  BY <1>1, <1>2, <1>5, WriteUpstreamSettles

\* The steps of an upstream's reconcile.
LEMMA UpstreamStepSettles ==
  ASSUME TypeOK, UpstreamsFit, UpstreamsSettle, UpstreamStep
  PROVE  UpstreamsSettle'
<1>1. /\ UpstreamsTyped
      /\ uPc # "idle" => uKey \in Upstreams
      /\ uPc \notin {"idle", "status"} => uObj \in Upstream
  BY DEF TypeOK, ClusterTypeOK, UpstreamTypeOK
<1>2. CASE UpstreamAddFinalizer
  <2>1. PICK reply : WriteUpstream(uKey, UpdatedUpstream([uObj EXCEPT !.fin = TRUE]), reply)
    BY <1>2 DEF UpstreamAddFinalizer
  <2>2. UpstreamReturn(TRUE) /\ uPc # "idle" /\ UNCHANGED srvC
    BY <1>2 DEF UpstreamAddFinalizer, serverVars
  <2> QED
    BY <2>1, <2>2, WriteUpstreamSettles
<1>3. CASE UpstreamRemoveFinalizer
  <2>1. PICK reply \in Replies(UpstreamCurrent, {"ok"}) :
          /\ WriteUpstream(uKey, UpdatedUpstream([uObj EXCEPT !.fin = FALSE]), reply)
          /\ UpstreamReturn(~Succeeded(reply))
    BY <1>3 DEF UpstreamRemoveFinalizer
  <2>2. Succeeded(reply) => Applied(reply)
    BY <2>1 DEF Replies, Succeeded, Applied
  <2>3. uPc # "idle" /\ UNCHANGED srvC
    BY <1>3 DEF UpstreamRemoveFinalizer, serverVars
  <2> QED
    BY <2>1, <2>2, <2>3, WriteUpstreamSettles
<1>4. CASE UpstreamNotReady \/ UpstreamReady
  BY <1>4, UpstreamStatusSettles DEF UpstreamNotReady, UpstreamReady
<1>5. ASSUME uPc # "idle", UNCHANGED <<up, srvC>>, uPc' = "idle",
             uQ' = uQ \cup {uKey},
             upFresh' = [upFresh EXCEPT ![uKey] = @ \ {"reconciler"}]
      PROVE  UpstreamsSettle'
  <2>1. UpstreamRunsOnCurrent' /\ UpstreamPastFinalizer'
    BY <1>5 DEF UpstreamRunsOnCurrent, UpstreamUndisturbed, UpstreamPastFinalizer
  <2>2. \A t \in Upstreams : t # uKey => upFresh'[t] = upFresh[t]
    BY <1>1, <1>5 DEF UpstreamsTyped
  <2>3. SettledUpstreamsAreInLine'
    BY <1>5, <2>2 DEF UpstreamsSettle, SettledUpstreamsAreInLine, UpstreamSettled,
       UpstreamInLine, Discovers
  <2> QED
    BY <2>1, <2>3 DEF UpstreamsSettle
<1>6. ASSUME uPc # "idle", UNCHANGED <<up, srvC, upFresh, uQ, uKey>>, uPc' # "idle"
      PROVE  SettledUpstreamsAreInLine'
  BY <1>6 DEF UpstreamsSettle, SettledUpstreamsAreInLine, UpstreamSettled,
     UpstreamInLine, Discovers
<1>7. CASE ResolveAndTrigger
  <2>1. uPc = "trigger" /\ uObj \in Upstream /\ UNCHANGED <<up, srvC>>
    BY <1>1, <1>7 DEF ResolveAndTrigger, TouchServer, WriteServer, serverVars
  <2>2. Agree(ResolveServiceEndpoints(uObj), uObj)
    BY <2>1, DiscoveryAgrees
  <2> DEFINE found == Present(srvC[uObj.spec.serverRef])
  <2>3. \/ /\ uPc' = "idle" /\ uQ' = uQ \cup {uKey}
           /\ upFresh' = [upFresh EXCEPT ![uKey] = @ \ {"reconciler"}]
        \/ /\ \/ uPc' = "noServer" /\ ~found
              \/ uPc' = "notResolved" /\ found /\ Discovers(uObj)
              \/ uPc' = "status" /\ found
           /\ Agree(uObj', uObj)
           /\ UNCHANGED <<upFresh, uQ, uKey>>
    BY <1>7, <2>2 DEF ResolveAndTrigger, UpstreamContinue, UpstreamReturn,
       Resolvable, Agree
  <2>4. ASSUME /\ \/ uPc' = "noServer" /\ ~found
                  \/ uPc' = "notResolved" /\ found /\ Discovers(uObj)
                  \/ uPc' = "status" /\ found
               /\ Agree(uObj', uObj)
               /\ UNCHANGED <<upFresh, uQ, uKey>>
        PROVE  UpstreamsSettle'
    <3>1. UpstreamRunsOnCurrent' /\ UpstreamPastFinalizer'
      BY <2>1, <2>4 DEF UpstreamsSettle, UpstreamRunsOnCurrent,
         UpstreamUndisturbed, UpstreamPastFinalizer, DeletionSteps, Discovers, Agree
    <3> QED
      BY <1>6, <2>1, <2>4, <3>1 DEF UpstreamsSettle
  <2> QED
    BY <1>5, <2>1, <2>3, <2>4
<1>8. CASE UpstreamTriggerThenRemove
  <2>1. /\ uPc = "triggerThenRemove" /\ uPc' = "removeFinalizer"
        /\ UNCHANGED <<up, srvC, upFresh, uQ, uKey, uObj>>
    BY <1>8 DEF UpstreamTriggerThenRemove, TouchServer, WriteServer,
       serverVars, upstreamVars, UpstreamContinue
  <2>2. UpstreamRunsOnCurrent' /\ UpstreamPastFinalizer'
    BY <2>1 DEF UpstreamsSettle, UpstreamRunsOnCurrent, UpstreamUndisturbed,
       UpstreamPastFinalizer, DeletionSteps, Discovers
  <2> QED
    BY <1>6, <2>1, <2>2 DEF UpstreamsSettle
<1> QED
  BY <1>2, <1>3, <1>4, <1>7, <1>8 DEF UpstreamStep

\* An event of a server wakes the reconcilers of the upstreams that name it.
LEMMA ServerEventSettlesUpstreams ==
  ASSUME TypeOK, UpstreamsFit, UpstreamsSettle, NEW s \in Servers, ServerEvent(s)
  PROVE  UpstreamsSettle'
<1>1. /\ UpstreamsTyped /\ ServersTyped
      /\ uPc # "idle" => uKey \in Upstreams
  BY DEF TypeOK, ClusterTypeOK, UpstreamTypeOK
<1>2. /\ UNCHANGED <<up, upC, upFresh, uPc, uKey, uObj>>
      /\ uQ' = uQ \cup FindUpstreamsForServer(s)
      /\ \A t \in Servers : t # s => srvC'[t] = srvC[t]
  BY <1>1 DEF ServerEvent, CatchUpServer, upstreamVars, upstreamLocals, ServersTyped
<1>3. ASSUME NEW u \in Upstreams, u \notin uQ', "cache" \in upFresh[u],
             Present(up[u])
      PROVE  Present(srvC'[up[u].spec.serverRef])
               <=> Present(srvC[up[u].spec.serverRef])
  <2>1. up[u].spec.serverRef \in Servers
    BY <1>1, <1>3, ClusterAssumption
       DEF UpstreamsTyped, Present, Upstream, UpstreamSpecType
  <2>2. up[u].spec.serverRef # s
    BY <1>2, <1>3 DEF FindUpstreamsForServer, UpstreamsFit, UpstreamCopiesAreCurrent
  <2> QED
    BY <1>2, <2>1, <2>2
<1>4. SettledUpstreamsAreInLine'
  BY <1>2, <1>3 DEF UpstreamsSettle, SettledUpstreamsAreInLine, UpstreamSettled,
     UpstreamInLine, Discovers
<1>5. UpstreamPastFinalizer'
  BY <1>2 DEF UpstreamsSettle, UpstreamPastFinalizer, Discovers
<1>6. UpstreamRunsOnCurrent'
  <2> SUFFICES ASSUME uPc # "idle", uKey \notin uQ', "cache" \in upFresh[uKey]
               PROVE  UpstreamRunsOnCurrent'
    BY <1>2 DEF UpstreamRunsOnCurrent, UpstreamUndisturbed
  <2>1. UpstreamUndisturbed
    BY <1>2 DEF UpstreamUndisturbed
  <2>2. "reconciler" \in upFresh[uKey]
    BY <2>1 DEF UpstreamsSettle, UpstreamRunsOnCurrent
  <2>3. up[uKey].spec.serverRef = uObj.spec.serverRef /\ Present(up[uKey])
    BY <1>1, <2>2 DEF UpstreamsFit, UpstreamCopiesAreCurrent, Agree
  <2> QED
    BY <1>1, <1>2, <1>3, <2>1, <2>3 DEF UpstreamsSettle, UpstreamRunsOnCurrent
<1> QED
  BY <1>4, <1>5, <1>6 DEF UpstreamsSettle

\* UpstreamsSettle survives every step.
LEMMA UpstreamsSettleNext ==
  ASSUME TypeOK, UpstreamsFit, UpstreamsSettle, [Next]_vars
  PROVE  UpstreamsSettle'
<1>1. UpstreamsTyped /\ (uPc # "idle" => uKey \in Upstreams)
  BY DEF TypeOK, ClusterTypeOK, UpstreamTypeOK
<1>2. CASE UpstreamController
  BY <1>2, FetchUpstreamSettles, UpstreamStepSettles DEF UpstreamController
<1>3. CASE ServerController
  <2>1. ASSUME ServerStep PROVE UNCHANGED srvC
    BY <2>1, ServerStepOnCaches
  <2>2. UNCHANGED <<up, upFresh, srvC>> /\ UNCHANGED upstreamControllerVars
    BY <1>3, <2>1, ServerStepTyped DEF ServerController, FetchServer, upstreamVars
  <2> QED
    BY <2>2, ElsewhereUpstreamsSettle
<1>4. CASE RouteController
  <2>1. ASSUME RouteStep PROVE UNCHANGED srvC
    BY <2>1, RouteStepOnServers DEF TriggerServerReconcile, WriteServer, serverVars
  <2>2. UNCHANGED <<up, upFresh, srvC>> /\ UNCHANGED upstreamControllerVars
    BY <1>4, <2>1, RouteStepTyped
       DEF RouteController, FetchRoute, upstreamVars, serverVars
  <2> QED
    BY <2>2, ElsewhereUpstreamsSettle
<1>5. CASE Environment
  <2>1. UNCHANGED upstreamControllerVars
    BY <1>5 DEF Environment
  <2>2. ASSUME Users PROVE UpstreamsSettle'
    <3>1. /\ UNCHANGED srvC
          /\ \/ UNCHANGED <<up, upFresh>>
             \/ \E u \in Upstreams, o \in Upstream : PutUpstream(u, o)
      BY <2>2, UsersWriteServers, UsersWriteUpstreams DEF upstreamVars
    <3> QED
      BY <2>1, <3>1, ElsewhereUpstreamsSettle, PutUpstreamSettles
  <2>3. ASSUME Kubernetes PROVE UpstreamsSettle'
    <3>1. UNCHANGED <<up, upFresh, srvC>>
      BY <2>3 DEF Kubernetes, Surge, Rollout, Terminate, CollectGarbage, serverVars,
         upstreamVars
    <3> QED
      BY <2>1, <3>1, ElsewhereUpstreamsSettle
  <2> QED
    BY <1>5, <2>2, <2>3 DEF Environment
<1>6. ASSUME NEW s \in Servers, ServerEvent(s) PROVE UpstreamsSettle'
  BY <1>6, ServerEventSettlesUpstreams
<1>7. ASSUME NEW u \in Upstreams, UpstreamEvent(u) PROVE UpstreamsSettle'
  <2>1. /\ uQ' = uQ \cup {u} /\ UNCHANGED <<uPc, uKey, uObj, up, srvC>>
        /\ \A t \in Upstreams : t # u => upFresh'[t] = upFresh[t]
    BY <1>1, <1>7 DEF UpstreamEvent, CatchUpUpstream, UpstreamsTyped,
       upstreamLocals, serverVars
  <2>2. SettledUpstreamsAreInLine'
    BY <2>1 DEF UpstreamsSettle, SettledUpstreamsAreInLine, UpstreamSettled,
       UpstreamInLine, Discovers
  <2>3. UpstreamRunsOnCurrent' /\ UpstreamPastFinalizer'
    BY <1>1, <2>1 DEF UpstreamsSettle, UpstreamRunsOnCurrent, UpstreamUndisturbed,
       UpstreamPastFinalizer, Discovers
  <2> QED
    BY <2>2, <2>3 DEF UpstreamsSettle
<1>8. CASE \/ \E r \in Routes : RouteEvent(r)
           \/ \E s \in Servers, k \in Kinds : ChildEvent(s, k)
           \/ UNCHANGED vars
  BY <1>8, ElsewhereUpstreamsSettle DEF RouteEvent, CatchUpRoute, ChildEvent,
     CatchUpChild, vars, clusterVars, serverVars, upstreamVars
<1>9. CASE Restart
  <2>1. uPc' = "idle" /\ (\A u \in Upstreams : Present(up'[u]) => u \in uQ')
    BY <1>9 DEF Restart, RelistAll
  <2> QED
    BY <2>1 DEF UpstreamsSettle, SettledUpstreamsAreInLine, UpstreamSettled,
       UpstreamRunsOnCurrent, UpstreamUndisturbed, UpstreamPastFinalizer
<1> QED
  BY <1>2, <1>3, <1>4, <1>5, <1>6, <1>7, <1>8, <1>9 DEF Next, Events

\* Nor is an upstream.  Endpoints that were missing may come without
\* anyone looking: no watch tells of them, and this does not say that one does.
THEOREM SettledUpstreams == Spec => []SettledUpstreamsAreInLine
<1> DEFINE Inv == TypeOK /\ UpstreamsFit /\ UpstreamsSettle
<1>1. Init => Inv
  BY TypeOKInit, UpstreamsFitInit, UpstreamsSettleInit
<1>2. Inv /\ [Next]_vars => Inv'
  BY TypeOKNext, UpstreamsFitNext, UpstreamsSettleNext
<1>3. Inv => SettledUpstreamsAreInLine
  BY DEF UpstreamsSettle
<1> QED
  BY <1>1, <1>2, <1>3, PTL DEF Spec

-----------------------------------------------------------------------------
(***************************************************************************)
(* What is Ready is served.  The touch of a server makes an event of it,   *)
(* the event a reconcile, and the reconcile a configuration, each of which *)
(* comes when it may.  Until the server is left alone, that it has the     *)
(* block is open; from then on its status, or the configuration it is      *)
(* about to publish, has it.                                               *)
(***************************************************************************)
Has(cfg, field, b) == \E i \in DOMAIN cfg[field] : cfg[field][i] = b

\* Unless server s is to be looked at again, b is in its configuration.
Carried(s, field, b) ==
  s \notin sQ /\ "cache" \in srvFresh[s] /\ Present(srv[s]) =>
    IF sPc # "idle" /\ sKey = s
      THEN sPc \in ServerRenderedSteps => Has(sCfg, field, b)
      ELSE srv[s].spec \in ValidServerSpecs => Has(srv[s].status.hash, field, b)

\* A configuration that server s may render now has b.
WillHave(s, field, b) ==
  \A cfg \in Renderings(sObj.spec, ListUpstreams(s, upC), ListRoutes(s, rtC)) :
    Has(cfg, field, b)

\* Every rendering has every block of what it renders.
LEMMA RenderingsHaveAll ==
  ASSUME NEW spec, NEW ups, NEW blocks, NEW cfg \in Renderings(spec, ups, blocks)
  PROVE  /\ \A b \in blocks : Has(cfg, "blocks", b)
         /\ \A x \in ups : Has(cfg, "upstreams", x)
<1>1. PICK p \in Orders(ups), q \in ByPriority(blocks) :
        cfg = [spec |-> spec, upstreams |-> p, blocks |-> q]
  BY DEF Renderings
<1>2. cfg["blocks"] = q /\ cfg["upstreams"] = p
  BY <1>1
<1>3. \A b \in blocks : \E i \in DOMAIN q : q[i] = b
  BY DEF ByPriority, Orders
<1>4. \A x \in ups : \E i \in DOMAIN p : p[i] = x
  BY DEF Orders
<1> QED
  BY <1>2, <1>3, <1>4 DEF Has

\* Steps about something else.
LEMMA ElsewhereCarries ==
  ASSUME NEW s, NEW field, NEW b, Carried(s, field, b),
         UNCHANGED <<srv, srvFresh>>, UNCHANGED serverControllerVars
  PROVE  Carried(s, field, b)'
BY DEF Carried, serverControllerVars, serverLocals

\* A server that someone writes has an event to come.
LEMMA PutServerCarries ==
  ASSUME TypeOK, NEW s \in Servers, NEW field, NEW b, Carried(s, field, b),
         NEW t \in Servers, NEW o, PutServer(t, o), UNCHANGED serverControllerVars
  PROVE  Carried(s, field, b)'
<1>1. ServersTyped
  BY DEF TypeOK, ClusterTypeOK
<1>2. CASE s = t
  BY <1>1, <1>2 DEF PutServer, ServersTyped, Carried
<1>3. CASE s # t
  BY <1>1, <1>3 DEF PutServer, ServersTyped, Carried, serverControllerVars,
     serverLocals
<1> QED
  BY <1>2, <1>3

\* A reconcile that writes its server for the last time has published the block.
LEMMA WriteServerCarries ==
  ASSUME TypeOK, NEW s \in Servers, NEW field, NEW b, Carried(s, field, b),
         sPc # "idle", NEW o, NEW reply, NEW requeue,
         WriteServer(sKey, o, reply, {"reconciler"}), ServerReturn(requeue),
         /\ ~requeue /\ ~Applied(reply) /\ sKey = s /\ s \notin sQ
         /\ "cache" \in srvFresh[s] /\ Present(srv[s])
         /\ srv[s].spec \in ValidServerSpecs
         => Has(srv[s].status.hash, field, b)
  PROVE  Carried(s, field, b)'
<1>1. ServersTyped /\ sKey \in Servers
  BY DEF TypeOK, ClusterTypeOK, ServerTypeOK
<1>2. sPc' = "idle" /\ sQ' = IF requeue THEN sQ \cup {sKey} ELSE sQ
  BY DEF ServerReturn
<1>3. CASE sKey # s
  <2>1. srv'[s] = srv[s] /\ srvFresh'[s] = srvFresh[s]
    BY <1>1, <1>3 DEF WriteServer, PutServer, ServersTyped
  <2> QED
    BY <1>2, <1>3, <2>1 DEF Carried
<1>4. CASE sKey = s
  <2>1. CASE requeue
    BY <1>2, <1>4, <2>1 DEF Carried
  <2>2. CASE Applied(reply)
    BY <1>1, <1>4, <2>2 DEF WriteServer, PutServer, ServersTyped, Carried
  <2>3. CASE ~requeue /\ ~Applied(reply)
    <3>1. srv' = srv /\ ("cache" \in srvFresh'[s] => "cache" \in srvFresh[s])
      BY <1>1, <1>4, <2>3 DEF WriteServer, ServersTyped
    <3> QED
      BY <1>2, <1>4, <2>3, <3>1 DEF Carried
  <2> QED
    BY <2>1, <2>2, <2>3
<1> QED
  BY <1>3, <1>4

\* The steps of a server's reconcile.
LEMMA ServerStepCarries ==
  ASSUME TypeOK, ServersFit, ServersSettle, ServerStep,
         NEW s \in Servers, NEW field, NEW b, Carried(s, field, b),
         sPc = "list" /\ sKey = s => WillHave(s, field, b)
  PROVE  Carried(s, field, b)'
<1>1. ServersTyped /\ (sPc # "idle" => sKey \in Servers /\ sObj \in Server)
  BY DEF TypeOK, ClusterTypeOK, ServerTypeOK
<1>2. CASE ServerHandleDeletion
  <2>1. PICK reply \in Replies(ServerCurrent, {"ok"}) :
          /\ WriteServer(sKey, UpdatedServer([sObj EXCEPT !.fin = FALSE]), reply,
                         {"reconciler"})
          /\ ServerReturn(~Succeeded(reply))
    BY <1>2 DEF ServerHandleDeletion
  <2>2. Succeeded(reply) => Applied(reply)
    BY <2>1 DEF Replies, Succeeded, Applied
  <2>3. sPc # "idle"
    BY <1>2 DEF ServerHandleDeletion
  <2> QED
    BY <2>1, <2>2, <2>3, WriteServerCarries
<1>3. CASE ServerAddFinalizer
  <2>1. PICK reply \in Replies(ServerCurrent, {"ok"}) :
          WriteServer(sKey, UpdatedServer([sObj EXCEPT !.fin = TRUE]), reply,
                      {"reconciler"})
    BY <1>3 DEF ServerAddFinalizer
  <2>2. ServerReturn(TRUE) /\ sPc # "idle"
    BY <1>3 DEF ServerAddFinalizer
  <2> QED
    BY <2>1, <2>2, WriteServerCarries
<1>4. CASE ServerNotGenerated
  <2>1. PICK reply : WriteServerStatus([sObj.status EXCEPT !.ConfigValid = "False"],
                                       TRUE, reply)
    BY <1>4 DEF ServerNotGenerated
  <2>2. ServerReturn(TRUE) /\ sPc # "idle"
    BY <1>4 DEF ServerNotGenerated
  <2> QED
    BY <2>1, <2>2, WriteServerCarries DEF WriteServerStatus
<1>5. CASE ServerNotValid
  <2> DEFINE status == [sObj.status EXCEPT !.Ready = "False", !.seen = TRUE]
  <2>1. PICK reply : WriteServerStatus(status, FALSE, reply)
                     /\ ServerReturn(~Succeeded(reply))
    BY <1>5 DEF ServerNotValid
  <2>2. sPc = "notValid" /\ sPc # "idle"
    BY <1>5 DEF ServerNotValid
  <2>3. sObj.spec \notin ValidServerSpecs
    BY <2>2 DEF ServersSettle, ServerPastFinalizer
  <2> HIDE DEF status
  <2>4. Succeeded(reply) /\ ~Applied(reply)
          => srv[sKey].spec \notin ValidServerSpecs
    BY <2>1, <2>2, <2>3, NoopStatus
  <2>5. WriteServer(sKey, [sObj EXCEPT !.status = status], reply, {"reconciler"})
    BY <2>1 DEF WriteServerStatus
  <2> QED
    BY <2>1, <2>2, <2>4, <2>5, WriteServerCarries
<1>6. CASE UpdateStatus
  <2> DEFINE ready == /\ Present(kidC[sKey]["Deployment"])
                      /\ kidC[sKey]["Deployment"].ready
             status == [Ready |-> IF ready THEN "True" ELSE "False",
                        ConfigValid |-> "True", seen |-> TRUE, hash |-> sCfg]
  <2>1. PICK reply : WriteServerStatus(status, TRUE, reply)
                     /\ ServerReturn(~Succeeded(reply) \/ ~ready)
    BY <1>6 DEF UpdateStatus
  <2>2. sPc = "status" /\ sPc # "idle" /\ status.hash = sCfg
    BY <1>6 DEF UpdateStatus
  <2> HIDE DEF ready, status
  <2>3. Succeeded(reply) /\ ~Applied(reply) => srv[sKey].status.hash = sCfg
    BY <2>1, <2>2, NoopStatus
  <2>4. WriteServer(sKey, [sObj EXCEPT !.status = status], reply, {"reconciler"})
    BY <2>1 DEF WriteServerStatus
  <2>5. /\ sKey = s /\ s \notin sQ /\ "cache" \in srvFresh[s] /\ Present(srv[s])
        => Has(sCfg, field, b)
    BY <2>2 DEF Carried, ServerRenderedSteps
  <2> QED
    BY <2>1, <2>2, <2>3, <2>4, <2>5, WriteServerCarries
<1>7. CASE GenerateFullConfig
  <2>1. /\ sPc = "list" /\ UNCHANGED <<sQ, sKey, srv, srvFresh>>
        /\ \/ sPc' = "notGenerated"
           \/ /\ sPc' = "ConfigMap"
              /\ sCfg' \in Renderings(sObj.spec, ListUpstreams(sKey, upC),
                                      ListRoutes(sKey, rtC))
    BY <1>7 DEF GenerateFullConfig, clusterVars, serverVars
  <2>2. CASE sKey # s
    BY <2>1, <2>2 DEF Carried
  <2>3. CASE sKey = s /\ sPc' = "notGenerated"
    BY <2>1, <2>3, ClusterAssumption DEF Carried, ServerRenderedSteps
  <2>4. CASE sKey = s /\ sPc' = "ConfigMap"
    <3>1. Has(sCfg', field, b)
      BY <2>1, <2>4 DEF WillHave
    <3> QED
      BY <2>1, <2>4, <3>1 DEF Carried, Has
  <2> QED
    BY <2>1, <2>2, <2>3, <2>4
<1>8. ASSUME NEW k \in Kinds, ReconcileChild(k) PROVE Carried(s, field, b)'
  <2>1. /\ sPc = k /\ sPc # "idle" /\ srv' = srv /\ sPc \in ServerRenderedSteps
        /\ "cache" \in srvFresh'[s] <=> "cache" \in srvFresh[s]
    BY <1>1, <1>8, ClusterAssumption
       DEF ReconcileChild, ServersTyped, ServerRenderedSteps
  <2>2. CASE sPc' = "idle" /\ sQ' = sQ \cup {sKey}
    BY <2>1, <2>2 DEF Carried
  <2>3. CASE ServerContinue(StepAfter(k))
    <3>1. /\ sPc' = StepAfter(k) /\ UNCHANGED <<sQ, sKey, sCfg>>
          /\ sPc' # "idle" /\ sPc' \in ServerRenderedSteps
      BY <2>3, ClusterAssumption DEF ServerContinue, StepAfter, ServerRenderedSteps
    <3> QED
      BY <2>1, <3>1 DEF Carried, Has
  <2> QED
    BY <1>8, <2>2, <2>3 DEF ReconcileChild, ServerReturn
<1> QED
  BY <1>2, <1>3, <1>4, <1>5, <1>6, <1>7, <1>8 DEF ServerStep

\* What is carried stays so, if the reconcile at hand will render it.
LEMMA CarriedNext ==
  ASSUME TypeOK, ServersFit, ServersSettle, [Next]_vars,
         NEW s \in Servers, NEW field, NEW b, Carried(s, field, b),
         sPc = "list" /\ sKey = s => WillHave(s, field, b)
  PROVE  Carried(s, field, b)'
<1>1. ServersTyped
  BY DEF TypeOK, ClusterTypeOK
<1>2. ASSUME NEW t \in Servers, FetchServer(t) PROVE Carried(s, field, b)'
  <2>1. /\ sPc = "idle" /\ sQ' = sQ \ {t} /\ UNCHANGED <<srv, srvC>>
        /\ \/ /\ ~Present(srvC[t]) \/ (srvC[t].deleting /\ ~srvC[t].fin)
              /\ UNCHANGED <<sPc, srvFresh>>
           \/ /\ sPc' = FirstServerStep(srvC[t]) /\ sKey' = t
              /\ srvFresh' = TakeCopy(srvFresh, t)
    BY <1>2 DEF FetchServer, serverLocals
  <2>2. CASE s # t
    <3>1. s \in sQ' <=> s \in sQ
      BY <2>1, <2>2
    <3>2. "cache" \in srvFresh'[s] <=> "cache" \in srvFresh[s]
      BY <1>1, <2>1 DEF TakeCopy, ServersTyped
    <3>3. ~(sPc' # "idle" /\ sKey' = s)
      BY <2>1, <2>2
    <3> QED
      BY <2>1, <3>1, <3>2, <3>3 DEF Carried
  <2>3. CASE s = t /\ UNCHANGED <<sPc, srvFresh>>
             /\ (~Present(srvC[t]) \/ (srvC[t].deleting /\ ~srvC[t].fin))
    <3>1. "cache" \in srvFresh[s] => ~Present(srv[s])
      BY <2>3 DEF ServersFit, ServerCopiesAreCurrent, DyingServersAreHeld
    <3> QED
      BY <2>1, <2>3, <3>1 DEF Carried
  <2>4. CASE s = t /\ sPc' = FirstServerStep(srvC[t]) /\ sKey' = t
    <3>1. sPc' \in {"removeFinalizer", "addFinalizer", "notValid", "list"}
      BY <2>4 DEF FirstServerStep
    <3> QED
      BY <2>4, <3>1, ClusterAssumption DEF Carried, ServerRenderedSteps
  <2> QED
    BY <2>1, <2>2, <2>3, <2>4
<1>3. CASE ServerController
  BY <1>2, <1>3, ServerStepCarries DEF ServerController
<1>4. ASSUME UNCHANGED serverControllerVars,
             \/ UNCHANGED serverVars
             \/ \E t \in Servers : /\ Present(srvC[t])
                                   /\ \E reply : TriggerServerReconcile(t, reply)
      PROVE  Carried(s, field, b)'
  <2>1. \/ UNCHANGED <<srv, srvFresh>>
        \/ \E t \in Servers, o \in {UpdatedServer(srvC[x]) : x \in Servers} :
             PutServer(t, o)
    BY <1>1, <1>4 DEF TriggerServerReconcile, WriteServer, serverVars, ServersTyped
  <2> QED
    BY <1>4, <2>1, ElsewhereCarries, PutServerCarries
<1>5. CASE RouteController
  BY <1>4, <1>5, RouteStepOnServers DEF RouteController, FetchRoute
<1>6. CASE UpstreamController
  BY <1>4, <1>6, UpstreamStepOnServers DEF UpstreamController, FetchUpstream
<1>7. CASE Environment
  <2>1. UNCHANGED serverControllerVars
    BY <1>7 DEF Environment
  <2>2. \/ UNCHANGED <<srv, srvFresh>>
        \/ \E t \in Servers, o \in Server : PutServer(t, o)
    BY <1>7, UsersWriteServers
       DEF Environment, Kubernetes, Surge, Rollout, Terminate, CollectGarbage, serverVars
  <2> QED
    BY <2>1, <2>2, ElsewhereCarries, PutServerCarries
<1>8. ASSUME NEW t \in Servers, sQ' = sQ \cup {t}, UNCHANGED <<serverLocals, srv>>,
             t # s => srvFresh'[s] = srvFresh[s]
      PROVE  Carried(s, field, b)'
  BY <1>8 DEF Carried, Has, serverLocals
<1>9. CASE \/ \E t \in Servers : ServerEvent(t)
           \/ \E t \in Servers, k \in Kinds : ChildEvent(t, k)
  BY <1>1, <1>8, <1>9 DEF ServerEvent, CatchUpServer, ChildEvent, CatchUpChild,
     serverVars, ServersTyped
<1>10. CASE \/ \E r \in Routes : RouteEvent(r)
            \/ \E u \in Upstreams : UpstreamEvent(u)
            \/ UNCHANGED vars
  BY <1>10, ElsewhereCarries DEF RouteEvent, CatchUpRoute, UpstreamEvent,
     CatchUpUpstream, vars, clusterVars, serverVars
<1>11. CASE Restart
  <2>1. Present(srv'[s]) => s \in sQ'
    BY <1>11 DEF Restart, RelistAll
  <2> QED
    BY <2>1 DEF Carried
<1> QED
  BY <1>3, <1>5, <1>6, <1>7, <1>9, <1>10, <1>11 DEF Next, Events

(***************************************************************************)
(* A route counts from the touch of its server on, which only a reconcile  *)
(* with a current copy makes to some effect, until its spec is edited.     *)
(***************************************************************************)
RouteTouched(r) ==
  /\ Present(rt[r])
  /\ \/ rt[r].seen /\ rt[r].Ready = "True"
     \/ rPc = "status" /\ rKey = r /\ "reconciler" \in rtFresh[r]

\* What was touched was in the cache by then, with the spec it still has.
RoutesCached ==
  \A r \in Routes :
    /\ "reconciler" \in rtFresh[r] => "cache" \in rtFresh[r]
    /\ RouteTouched(r) => Present(rtC[r]) /\ rtC[r].spec = rt[r].spec

BlockOf(r, spec) == [route |-> r, spec |-> spec]

\* Its server has its block, or is to be looked at again.
RoutesCarried ==
  \A r \in Routes : RouteTouched(r) =>
    Carried(rt[r].spec.serverRef, "blocks", BlockOf(r, rt[r].spec))

\* A step keeps the cache up with the touched routes, and touches no route without
\* an event of its server.
RouteTouches ==
  /\ RoutesCached'
  /\ \A r \in Routes : RouteTouched(r)' =>
       \/ RouteTouched(r) /\ rt'[r].spec = rt[r].spec
       \/ "cache" \notin srvFresh'[rt'[r].spec.serverRef]

\* No route is Ready before it was reconciled.
LEMMA RoutesCarriedInit == Init => RoutesCached /\ RoutesCarried
<1> SUFFICES ASSUME Init PROVE RoutesCached /\ RoutesCarried
  OBVIOUS
<1>1. PICK start \in Starts :
        rt = [r \in Routes |->
                IF Present(start.routes[r])
                THEN [NewRoute(start.routes[r]) EXCEPT !.fin = Adopted]
                ELSE Absent]
  BY DEF Init, ClusterInit
<1>2. \A r \in Routes : ~RouteTouched(r)
  BY <1>1 DEF RouteTouched, NewRoute, Present, Init, RouteInit
<1> QED
  BY <1>2 DEF RoutesCached, RoutesCarried, Init, ClusterInit

\* Steps about something else.
LEMMA ElsewhereTouchesNoRoute ==
  ASSUME RoutesCached, UNCHANGED <<rt, rtC, rtFresh, rPc, rKey>>
  PROVE  RouteTouches
BY DEF RoutesCached, RouteTouched, RouteTouches

\* A route that someone writes stays touched at most.
LEMMA PutRouteTouches ==
  ASSUME TypeOK, RoutesCached, NEW q \in Routes, NEW o, PutRoute(q, o),
         UNCHANGED rtC, rPc' # "status" \/ UNCHANGED <<rPc, rKey>>,
         o.seen /\ o.Ready = "True" => RouteTouched(q) /\ o.spec = rt[q].spec
  PROVE  RouteTouches
<1>1. RoutesTyped
  BY DEF TypeOK, ClusterTypeOK
<1>2. /\ rt'[q] = Stored(o) /\ rtFresh'[q] = {}
      /\ \A r \in Routes : r # q => rt'[r] = rt[r] /\ rtFresh'[r] = rtFresh[r]
  BY <1>1 DEF PutRoute, RoutesTyped
<1>3. ASSUME NEW r \in Routes, RouteTouched(r)'
      PROVE  RouteTouched(r) /\ rt'[r].spec = rt[r].spec
  <2>1. CASE r # q
    BY <1>2, <1>3, <2>1 DEF RouteTouched
  <2>2. CASE r = q
    <3>1. rt'[q] = o
      BY <1>2, <1>3, <2>2 DEF RouteTouched, Stored, Present
    <3> QED
      BY <1>2, <1>3, <2>2, <3>1 DEF RouteTouched
  <2> QED
    BY <2>1, <2>2
<1>4. RoutesCached'
  BY <1>2, <1>3 DEF RoutesCached
<1> QED
  BY <1>3, <1>4 DEF RouteTouches

\* So does one that its reconcile writes, which then returns.
LEMMA WriteRouteTouches ==
  ASSUME TypeOK, RoutesCached, rPc # "idle", NEW o, NEW reply,
         WriteRoute(rKey, o, reply), rPc' = "idle",
         Applied(reply) /\ o.seen /\ o.Ready = "True"
           => RouteTouched(rKey) /\ o.spec = rt[rKey].spec
  PROVE  RouteTouches
<1>1. RoutesTyped /\ rKey \in Routes
  BY DEF TypeOK, ClusterTypeOK, RouteTypeOK
<1>2. CASE Applied(reply)
  BY <1>1, <1>2, PutRouteTouches DEF WriteRoute
<1>3. CASE ~Applied(reply)
  <2>1. /\ UNCHANGED <<rt, rtC>>
        /\ rtFresh' = [rtFresh EXCEPT ![rKey] = @ \ {"reconciler"}]
    BY <1>3 DEF WriteRoute
  <2>2. \A r \in Routes : RouteTouched(r)' => RouteTouched(r)
    BY <2>1 DEF RouteTouched
  <2>3. RoutesCached'
    BY <1>1, <2>1, <2>2 DEF RoutesCached, RoutesTyped
  <2> QED
    BY <2>1, <2>2, <2>3 DEF RouteTouches
<1> QED
  BY <1>2, <1>3

\* The steps of a route's reconcile.
LEMMA RouteStepTouches ==
  ASSUME TypeOK, RoutesFit, RoutesCached, RouteStep PROVE RouteTouches
<1>1. /\ RoutesTyped /\ ServersTyped
      /\ rPc # "idle" => rKey \in Routes /\ rObj \in Route
  BY DEF TypeOK, ClusterTypeOK, RouteTypeOK
<1>2. rPc # "idle" /\ RouteCurrent => rt[rKey] = rObj /\ Present(rt[rKey])
  BY <1>1, AbsentAssumption DEF RoutesFit, RouteCopiesAreCurrent, RouteCurrent,
     Present
<1>3. CASE RouteAddFinalizer \/ RouteRemoveFinalizer
  <2>1. PICK b \in BOOLEAN, reply \in Replies(RouteCurrent, {"ok"}) :
          WriteRoute(rKey, UpdatedRoute([rObj EXCEPT !.fin = b]), reply)
    BY <1>3 DEF RouteAddFinalizer, RouteRemoveFinalizer
  <2>2. rPc # "idle" /\ rPc' = "idle"
    BY <1>3 DEF RouteAddFinalizer, RouteRemoveFinalizer, RouteReturn
  <2> DEFINE c == [rObj EXCEPT !.fin = b]
             o == UpdatedRoute(c)
  <2>3. c \in Route /\ c.Ready = rObj.Ready /\ c.seen = rObj.seen
        /\ c.spec = rObj.spec
    BY <1>1, <2>2 DEF Route
  <2>4. Applied(reply) => RouteCurrent
    BY <2>1 DEF Replies, Applied
  <2> HIDE DEF c
  <2>5. o.Ready = c.Ready /\ (o.seen => c.seen /\ o.spec = c.spec)
    BY <2>3, UpdatedRouteTyped
  <2> HIDE DEF o
  <2>6. Applied(reply) /\ o.seen /\ o.Ready = "True"
          => RouteTouched(rKey) /\ o.spec = rt[rKey].spec
    BY <1>2, <2>2, <2>3, <2>4, <2>5 DEF RouteTouched
  <2> QED
    BY <2>1, <2>2, <2>6, WriteRouteTouches DEF o, c
<1>4. ASSUME rPc # "idle", NEW ready, NEW stamped, WriteRouteStatus(ready, stamped),
             ready = "True" => rPc = "status"
      PROVE  RouteTouches
  <2> DEFINE o == [rObj EXCEPT !.Ready = ready, !.seen = TRUE]
  <2>1. o.Ready = ready /\ o.spec = rObj.spec
    BY <1>1, <1>4 DEF Route
  <2>2. PICK reply \in Replies(RouteCurrent,
                               IF rObj # o THEN {"ok"}
                               ELSE IF stamped THEN {"ok", "noop"} ELSE {"noop"}) :
          WriteRoute(rKey, o, reply)
    BY <1>4 DEF WriteRouteStatus
  <2>3. rPc' = "idle"
    BY <1>4 DEF WriteRouteStatus, RouteReturn
  <2> HIDE DEF o
  <2>4. Applied(reply) => RouteCurrent
    BY <2>2 DEF Replies, Applied
  <2>5. Applied(reply) /\ o.seen /\ o.Ready = "True"
          => RouteTouched(rKey) /\ o.spec = rt[rKey].spec
    BY <1>2, <1>4, <2>1, <2>4 DEF RouteTouched, RouteCurrent
  <2> QED
    BY <1>4, <2>2, <2>3, <2>5, WriteRouteTouches
<1>5. CASE RouteNotReady \/ RouteReady
  BY <1>4, <1>5 DEF RouteNotReady, RouteReady
<1>6. CASE Trigger
  <2>1. /\ rPc = "trigger" /\ rKey \in Routes /\ rObj \in Route
        /\ UNCHANGED <<rt, rtC>>
    BY <1>1, <1>6 DEF Trigger
  <2>2. rObj.spec.serverRef \in Servers
    BY <2>1, ClusterAssumption DEF Route, RouteSpecType
  <2>3. \/ /\ rPc' \in {"noServer", "idle"}
           /\ \/ rtFresh' = rtFresh
              \/ rtFresh' = [rtFresh EXCEPT ![rKey] = @ \ {"reconciler"}]
        \/ /\ rPc' = "status" /\ UNCHANGED <<rKey, rtFresh>>
           /\ TriggerServerReconcile(rObj.spec.serverRef, "ok")
    BY <1>6 DEF Trigger, RouteContinue, RouteReturn, Succeeded
  <2>4. CASE rPc' \in {"noServer", "idle"}
    <3>1. \A r \in Routes : RouteTouched(r)' => RouteTouched(r)
      BY <2>1, <2>4 DEF RouteTouched
    <3>2. \A r \in Routes : /\ "cache" \in rtFresh'[r] <=> "cache" \in rtFresh[r]
                            /\ "reconciler" \in rtFresh'[r]
                                 => "reconciler" \in rtFresh[r]
      BY <1>1, <2>3, <2>4 DEF RoutesTyped
    <3>3. RoutesCached'
      BY <2>1, <3>1, <3>2 DEF RoutesCached
    <3> QED
      BY <2>1, <3>1, <3>3 DEF RouteTouches
  <2>5. CASE /\ rPc' = "status" /\ UNCHANGED <<rKey, rtFresh>>
             /\ TriggerServerReconcile(rObj.spec.serverRef, "ok")
    <3>1. srvFresh'[rObj.spec.serverRef] = {}
      BY <1>1, <2>2, <2>5 DEF TriggerServerReconcile, WriteServer, PutServer,
         Applied, ServersTyped
    <3>2. ASSUME NEW r \in Routes, RouteTouched(r)', ~RouteTouched(r)
          PROVE  /\ r = rKey /\ "reconciler" \in rtFresh[r]
                 /\ rt[r] = rObj /\ rtC[r] = rObj /\ Present(rObj)
      <4>1. r = rKey /\ "reconciler" \in rtFresh[r]
        BY <2>1, <2>5, <3>2 DEF RouteTouched
      <4>2. "cache" \in rtFresh[r]
        BY <4>1 DEF RoutesCached
      <4> QED
        BY <1>2, <2>1, <4>1, <4>2 DEF RoutesFit, RouteCopiesAreCurrent, RouteCurrent
    <3>3. RoutesCached'
      BY <2>1, <2>5, <3>2 DEF RoutesCached
    <3> QED
      BY <2>1, <3>1, <3>2, <3>3 DEF RouteTouches
  <2> QED
    BY <2>3, <2>4, <2>5
<1>7. CASE TriggerThenRemove
  <2>1. /\ UNCHANGED <<rt, rtC, rtFresh, rKey>> /\ rPc' = "removeFinalizer"
    BY <1>7 DEF TriggerThenRemove, RouteContinue, routeVars
  <2>2. \A r \in Routes : RouteTouched(r)' => RouteTouched(r)
    BY <2>1 DEF RouteTouched
  <2>3. RoutesCached'
    BY <2>1, <2>2 DEF RoutesCached
  <2> QED
    BY <2>1, <2>2, <2>3 DEF RouteTouches
<1> QED
  BY <1>3, <1>5, <1>6, <1>7 DEF RouteStep

\* A user who edits a spec makes a generation that no condition is about.
LEMMA UsersTouchNoRoute ==
  ASSUME TypeOK, RoutesCached, Users, UNCHANGED routeLocals PROVE RouteTouches
<1>1. RoutesTyped /\ UNCHANGED <<rPc, rKey>>
  BY DEF TypeOK, ClusterTypeOK, routeLocals
<1>2. \A q \in Routes : Present(rt[q]) => rt[q] \in Route
  BY <1>1 DEF RoutesTyped, Present
<1>3. ASSUME NEW q \in Routes, NEW spec \in RouteSpecs, CreateRoute(q, spec)
      PROVE  RouteTouches
  <2>1. NewRoute(spec).seen = FALSE
    BY DEF NewRoute
  <2> QED
    BY <1>1, <1>3, <2>1, PutRouteTouches DEF CreateRoute
<1>4. ASSUME NEW q \in Routes, NEW spec \in RouteSpecs, EditRoute(q, spec)
      PROVE  RouteTouches
  <2> DEFINE o == [rt[q] EXCEPT !.spec = spec, !.seen = FALSE]
  <2>1. rt[q] \in Route /\ PutRoute(q, o) /\ UNCHANGED rtC
    BY <1>2, <1>4 DEF EditRoute
  <2>2. o.seen = FALSE
    BY <2>1 DEF Route
  <2> HIDE DEF o
  <2> QED
    BY <1>1, <2>1, <2>2, PutRouteTouches
<1>5. ASSUME NEW q \in Routes, DeleteRoute(q) PROVE RouteTouches
  <2> DEFINE o == [rt[q] EXCEPT !.deleting = TRUE]
  <2>1. rt[q] \in Route /\ PutRoute(q, o) /\ Present(rt[q]) /\ UNCHANGED rtC
    BY <1>2, <1>5 DEF DeleteRoute
  <2>2. o.spec = rt[q].spec /\ o.Ready = rt[q].Ready /\ o.seen = rt[q].seen
    BY <2>1 DEF Route
  <2> HIDE DEF o
  <2>3. o.seen /\ o.Ready = "True" => RouteTouched(q) /\ o.spec = rt[q].spec
    BY <2>1, <2>2 DEF RouteTouched
  <2> QED
    BY <1>1, <2>1, <2>3, PutRouteTouches
<1>6. CASE \/ \E s \in Servers, spec \in ServerSpecs :
                CreateServer(s, spec) \/ EditServer(s, spec)
           \/ \E s \in Servers : DeleteServer(s)
           \/ UsersOnUpstreams
           \/ \E s \in Servers, k \in Kinds : Tamper(s, k)
  <2>1. UNCHANGED routeVars
    BY <1>6 DEF UsersOnUpstreams, CreateServer, EditServer, DeleteServer,
       CreateUpstream, EditUpstream, DeleteUpstream, ScaleService, Tamper
  <2> QED
    BY <1>1, <2>1, ElsewhereTouchesNoRoute DEF routeVars
<1> QED
  BY <1>3, <1>4, <1>5, <1>6 DEF Users, UsersOnUpstreams

\* Every step.
LEMMA RouteTouchesNext ==
  ASSUME TypeOK, RoutesFit, RoutesCached, [Next]_vars PROVE RouteTouches
<1>1. RoutesTyped
  BY DEF TypeOK, ClusterTypeOK
<1>2. ASSUME UNCHANGED <<routeVars, routeLocals>> PROVE RouteTouches
  BY <1>2, ElsewhereTouchesNoRoute DEF routeVars, routeLocals
<1>3. ASSUME NEW q \in Routes, FetchRoute(q) PROVE RouteTouches
  <2>1. /\ UNCHANGED <<rt, rtC>> /\ rPc = "idle"
        /\ \/ UNCHANGED <<rPc, rKey, rtFresh>>
           \/ rPc' = FirstRouteStep(rtC[q]) /\ rtFresh' = TakeCopy(rtFresh, q)
    BY <1>3 DEF FetchRoute, routeLocals
  <2>2. rPc' # "status"
    BY <2>1 DEF FirstRouteStep
  <2>3. \A r \in Routes : RouteTouched(r)' => RouteTouched(r)
    BY <2>1, <2>2 DEF RouteTouched
  <2>4. \A r \in Routes : /\ "cache" \in rtFresh'[r] <=> "cache" \in rtFresh[r]
                          /\ "reconciler" \in rtFresh'[r] => "cache" \in rtFresh[r]
    BY <1>1, <2>1 DEF TakeCopy, RoutesTyped, RoutesCached
  <2>5. RoutesCached'
    BY <2>1, <2>3, <2>4 DEF RoutesCached
  <2> QED
    BY <2>1, <2>3, <2>5 DEF RouteTouches
<1>4. CASE RouteController
  BY <1>3, <1>4, RouteStepTouches DEF RouteController
<1>5. CASE ServerController \/ UpstreamController
  <2>1. UNCHANGED routeLocals
    BY <1>5 DEF ServerController, UpstreamController, routeControllerVars
  <2>2. UNCHANGED routeVars
    BY <1>5, ServerStepTyped, UpstreamStepTyped
       DEF ServerController, FetchServer, UpstreamController, FetchUpstream
  <2> QED
    BY <1>2, <2>1, <2>2
<1>6. CASE Environment
  <2>1. UNCHANGED routeLocals
    BY <1>6 DEF Environment, routeControllerVars
  <2>2. Kubernetes => UNCHANGED routeVars
    BY DEF Kubernetes, Surge, Rollout, Terminate, CollectGarbage
  <2> QED
    BY <1>2, <1>6, <2>1, <2>2, UsersTouchNoRoute DEF Environment
<1>7. ASSUME NEW q \in Routes, RouteEvent(q) PROVE RouteTouches
  <2>1. /\ UNCHANGED <<rt, rPc, rKey>> /\ rtC' = [rtC EXCEPT ![q] = rt[q]]
        /\ rtFresh' = [rtFresh EXCEPT ![q] = @ \cup {"cache"}]
    BY <1>7 DEF RouteEvent, CatchUpRoute, routeLocals
  <2>2. \A r \in Routes : RouteTouched(r)' => RouteTouched(r)
    BY <1>1, <2>1 DEF RouteTouched, RoutesTyped
  <2>3. RoutesCached'
    <3> SUFFICES ASSUME NEW r \in Routes
                 PROVE  /\ "reconciler" \in rtFresh'[r] => "cache" \in rtFresh'[r]
                        /\ RouteTouched(r)' => /\ Present(rtC'[r])
                                               /\ rtC'[r].spec = rt'[r].spec
      BY DEF RoutesCached
    <3>1. CASE r = q
      BY <1>1, <2>1, <3>1 DEF RouteTouched, RoutesTyped
    <3>2. CASE r # q
      BY <1>1, <2>1, <2>2, <3>2 DEF RoutesCached, RoutesTyped
    <3> QED
      BY <3>1, <3>2
  <2> QED
    BY <2>1, <2>2, <2>3 DEF RouteTouches
<1>8. CASE \/ \E s \in Servers : ServerEvent(s)
           \/ \E u \in Upstreams : UpstreamEvent(u)
           \/ \E s \in Servers, k \in Kinds : ChildEvent(s, k)
           \/ UNCHANGED vars
  BY <1>2, <1>8 DEF ServerEvent, CatchUpServer, UpstreamEvent, CatchUpUpstream,
     ChildEvent, CatchUpChild, routeControllerVars, vars, clusterVars
<1>9. CASE Restart
  <2>1. UNCHANGED rt /\ rtC' = rt /\ rPc' = "idle"
        /\ rtFresh' = [r \in Routes |-> {"cache"}]
    BY <1>9 DEF Restart, RelistAll
  <2> QED
    BY <2>1 DEF RouteTouches, RoutesCached, RouteTouched
<1> QED
  BY <1>4, <1>5, <1>6, <1>7, <1>8, <1>9 DEF Next, Events

\* The touched routes are carried on.
LEMMA RoutesCarriedNext ==
  ASSUME TypeOK, ServersFit, ServersSettle, RoutesFit, RoutesCached,
         RoutesCarried, [Next]_vars
  PROVE  RoutesCached' /\ RoutesCarried'
<1>1. RouteTouches
  BY RouteTouchesNext
<1>2. ASSUME NEW r \in Routes, RouteTouched(r)'
      PROVE  Carried(rt[r].spec.serverRef, "blocks", BlockOf(r, rt[r].spec))'
  <2>1. CASE "cache" \notin srvFresh'[rt'[r].spec.serverRef]
    BY <2>1 DEF Carried
  <2>2. CASE RouteTouched(r) /\ rt'[r].spec = rt[r].spec
    <3>1. PICK spec : spec = rt[r].spec
      OBVIOUS
    <3>2. PICK s \in Servers : s = spec.serverRef
      BY <2>2, <3>1, ClusterAssumption
         DEF TypeOK, ClusterTypeOK, RoutesTyped, RouteTouched, Present, Route,
             RouteSpecType
    <3>3. Carried(s, "blocks", BlockOf(r, spec))
      BY <2>2, <3>1, <3>2 DEF RoutesCarried
    <3>4. BlockOf(r, spec) \in ListRoutes(s, rtC)
      BY <2>2, <3>1, <3>2 DEF RoutesCached, ListRoutes, BlockOf
    <3>5. WillHave(s, "blocks", BlockOf(r, spec))
      BY <3>4, RenderingsHaveAll DEF WillHave
    <3>6. Carried(s, "blocks", BlockOf(r, spec))'
      BY <3>3, <3>5, CarriedNext
    <3> QED
      BY <2>2, <3>1, <3>2, <3>6 DEF Carried, BlockOf
  <2> QED
    BY <1>1, <1>2, <2>1, <2>2 DEF RouteTouches
<1> QED
  BY <1>1, <1>2 DEF RouteTouches, RoutesCarried

(***************************************************************************)
(* The upstreams, in the same way.                                         *)
(***************************************************************************)
UpstreamTouched(u) ==
  /\ Present(up[u])
  /\ \/ up[u].seen /\ up[u].Ready = "True"
     \/ uPc = "status" /\ uKey = u /\ "reconciler" \in upFresh[u]

\* What was touched was in the cache by then, with the spec it still has.
UpstreamsCached ==
  \A u \in Upstreams :
    /\ "reconciler" \in upFresh[u] => "cache" \in upFresh[u]
    /\ UpstreamTouched(u) => Present(upC[u]) /\ upC[u].spec = up[u].spec

UpstreamBlockOf(u, spec) == [upstream |-> u, backends |-> spec.backends]

\* Its server has its block, or is to be looked at again.
UpstreamsCarried ==
  \A u \in Upstreams : UpstreamTouched(u) =>
    Carried(up[u].spec.serverRef, "upstreams", UpstreamBlockOf(u, up[u].spec))

\* A step keeps the cache up with the touched upstreams, and touches no upstream
\* without an event of its server.
UpstreamTouches ==
  /\ UpstreamsCached'
  /\ \A u \in Upstreams : UpstreamTouched(u)' =>
       \/ UpstreamTouched(u) /\ up'[u].spec = up[u].spec
       \/ "cache" \notin srvFresh'[up'[u].spec.serverRef]

\* No upstream is Ready before it was reconciled.
LEMMA UpstreamsCarriedInit == Init => UpstreamsCached /\ UpstreamsCarried
<1> SUFFICES ASSUME Init PROVE UpstreamsCached /\ UpstreamsCarried
  OBVIOUS
<1>1. PICK start \in Starts :
        up = [u \in Upstreams |->
                IF Present(start.upstreams[u])
                THEN [NewUpstream(start.upstreams[u]) EXCEPT !.fin = Adopted]
                ELSE Absent]
  BY DEF Init, ClusterInit
<1>2. \A u \in Upstreams : ~UpstreamTouched(u)
  BY <1>1 DEF UpstreamTouched, NewUpstream, Present, Init, UpstreamInit
<1> QED
  BY <1>2 DEF UpstreamsCached, UpstreamsCarried, Init, ClusterInit

\* Steps about something else.
LEMMA ElsewhereTouchesNoUpstream ==
  ASSUME UpstreamsCached, UNCHANGED <<up, upC, upFresh, uPc, uKey>>
  PROVE  UpstreamTouches
BY DEF UpstreamsCached, UpstreamTouched, UpstreamTouches

\* An upstream that someone writes stays touched at most.
LEMMA PutUpstreamTouches ==
  ASSUME TypeOK, UpstreamsCached, NEW q \in Upstreams, NEW o, PutUpstream(q, o),
         UNCHANGED upC, uPc' # "status" \/ UNCHANGED <<uPc, uKey>>,
         o.seen /\ o.Ready = "True" => UpstreamTouched(q) /\ o.spec = up[q].spec
  PROVE  UpstreamTouches
<1>1. UpstreamsTyped
  BY DEF TypeOK, ClusterTypeOK
<1>2. /\ up'[q] = Stored(o) /\ upFresh'[q] = {}
      /\ \A u \in Upstreams : u # q => up'[u] = up[u] /\ upFresh'[u] = upFresh[u]
  BY <1>1 DEF PutUpstream, UpstreamsTyped
<1>3. ASSUME NEW u \in Upstreams, UpstreamTouched(u)'
      PROVE  UpstreamTouched(u) /\ up'[u].spec = up[u].spec
  <2>1. CASE u # q
    BY <1>2, <1>3, <2>1 DEF UpstreamTouched
  <2>2. CASE u = q
    <3>1. up'[q] = o
      BY <1>2, <1>3, <2>2 DEF UpstreamTouched, Stored, Present
    <3> QED
      BY <1>2, <1>3, <2>2, <3>1 DEF UpstreamTouched
  <2> QED
    BY <2>1, <2>2
<1>4. UpstreamsCached'
  BY <1>2, <1>3 DEF UpstreamsCached
<1> QED
  BY <1>3, <1>4 DEF UpstreamTouches

\* So does one that its reconcile writes, which then returns.
LEMMA WriteUpstreamTouches ==
  ASSUME TypeOK, UpstreamsFit, UpstreamsCached, uPc # "idle", NEW o, NEW reply,
         WriteUpstream(uKey, o, reply), uPc' = "idle",
         Applied(reply) /\ o.seen /\ o.Ready = "True"
           => UpstreamTouched(uKey) /\ o.spec = up[uKey].spec
  PROVE  UpstreamTouches
<1>1. UpstreamsTyped /\ uKey \in Upstreams
  BY DEF TypeOK, ClusterTypeOK, UpstreamTypeOK
<1>2. CASE Applied(reply)
  BY <1>1, <1>2, PutUpstreamTouches DEF WriteUpstream
<1>3. CASE ~Applied(reply)
  <2>1. /\ UNCHANGED <<up, upC>>
        /\ upFresh' = [upFresh EXCEPT ![uKey] = @ \ {"reconciler"}]
    BY <1>3 DEF WriteUpstream
  <2>2. \A u \in Upstreams : UpstreamTouched(u)' => UpstreamTouched(u)
    BY <2>1 DEF UpstreamTouched
  <2>3. \A u \in Upstreams : "reconciler" \notin upFresh'[u]
    BY <1>1, <2>1 DEF UpstreamsTyped, UpstreamsFit, UpstreamCopiesAreCurrent
  <2>4. UpstreamsCached'
    BY <2>1, <2>2, <2>3 DEF UpstreamsCached
  <2> QED
    BY <2>1, <2>2, <2>4 DEF UpstreamTouches
<1> QED
  BY <1>2, <1>3

\* The steps of an upstream's reconcile.
LEMMA UpstreamStepTouches ==
  ASSUME TypeOK, UpstreamsFit, UpstreamsCached, UpstreamStep PROVE UpstreamTouches
<1>1. /\ UpstreamsTyped /\ ServersTyped
      /\ uPc # "idle" => uKey \in Upstreams
      /\ uPc \notin {"idle", "status"} => uObj \in Upstream
  BY DEF TypeOK, ClusterTypeOK, UpstreamTypeOK
<1>2. uPc # "idle" /\ UpstreamCurrent =>
        /\ Present(up[uKey]) /\ Agree(uObj, up[uKey])
        /\ uPc # "status" => uObj = up[uKey]
  BY <1>1 DEF UpstreamsFit, UpstreamCopiesAreCurrent, UpstreamCurrent
<1>3. CASE UpstreamAddFinalizer \/ UpstreamRemoveFinalizer
  <2>1. PICK b \in BOOLEAN, reply \in Replies(UpstreamCurrent, {"ok"}) :
          WriteUpstream(uKey, UpdatedUpstream([uObj EXCEPT !.fin = b]), reply)
    BY <1>3 DEF UpstreamAddFinalizer, UpstreamRemoveFinalizer
  <2>2. uPc \notin {"idle", "status"} /\ uPc # "idle" /\ uPc' = "idle"
    BY <1>3 DEF UpstreamAddFinalizer, UpstreamRemoveFinalizer, UpstreamReturn
  <2> DEFINE c == [uObj EXCEPT !.fin = b]
             o == UpdatedUpstream(c)
  <2>3. c \in Upstream /\ c.Ready = uObj.Ready /\ c.seen = uObj.seen
        /\ c.spec = uObj.spec
    BY <1>1, <2>2 DEF Upstream
  <2>4. Applied(reply) => UpstreamCurrent
    BY <2>1 DEF Replies, Applied
  <2> HIDE DEF c
  <2>5. o.Ready = c.Ready /\ (o.seen => c.seen /\ o.spec = c.spec)
    BY <2>3, UpdatedUpstreamTyped
  <2> HIDE DEF o
  <2>6. Applied(reply) /\ o.seen /\ o.Ready = "True"
          => UpstreamTouched(uKey) /\ o.spec = up[uKey].spec
    BY <1>2, <2>2, <2>3, <2>4, <2>5 DEF UpstreamTouched
  <2> QED
    BY <2>1, <2>2, <2>6, WriteUpstreamTouches DEF o, c
<1>4. ASSUME uPc # "idle", NEW ready \in UpstreamConditions, NEW stamped,
             NEW again, WriteUpstreamStatus(ready, stamped, again),
             ready = "True" => uPc = "status"
      PROVE  UpstreamTouches
  <2> DEFINE o == Reported(ready)
  <2>1. UpstreamCurrent => o.Ready = ready /\ o.spec = up[uKey].spec
    BY <1>4, ReportedTyped DEF Reported, Upstream
  <2>2. PICK reply \in Replies(UpstreamCurrent,
                               IF up[uKey] # o THEN {"ok"}
                               ELSE IF stamped THEN {"ok", "noop"} ELSE {"noop"}) :
          WriteUpstream(uKey, o, reply)
    BY <1>4 DEF WriteUpstreamStatus
  <2>3. uPc' = "idle"
    BY <1>4 DEF WriteUpstreamStatus, UpstreamReturn
  <2> HIDE DEF o
  <2>4. Applied(reply) => UpstreamCurrent
    BY <2>2 DEF Replies, Applied
  <2>5. Applied(reply) /\ o.seen /\ o.Ready = "True"
          => UpstreamTouched(uKey) /\ o.spec = up[uKey].spec
    BY <1>2, <1>4, <2>1, <2>4 DEF UpstreamTouched, UpstreamCurrent
  <2> QED
    BY <1>4, <2>2, <2>3, <2>5, WriteUpstreamTouches
<1>5. CASE UpstreamNotReady \/ UpstreamReady
  <2>1. {"Failed", "ServerNotFound", "DependencyNotReady", "True"}
          \subseteq UpstreamConditions
    BY DEF UpstreamConditions
  <2> QED
    BY <1>4, <1>5, <2>1 DEF UpstreamNotReady, UpstreamReady
<1>6. CASE ResolveAndTrigger
  <2>1. /\ uPc = "trigger" /\ uKey \in Upstreams /\ uObj \in Upstream
        /\ UNCHANGED <<up, upC>> /\ uPc \notin {"idle", "status"}
    BY <1>1, <1>6 DEF ResolveAndTrigger
  <2>2. uObj.spec.serverRef \in Servers
    BY <2>1, ClusterAssumption DEF Upstream, UpstreamSpecType
  <2>3. \/ /\ uPc' \in {"noServer", "notResolved"}
           /\ UNCHANGED <<upFresh, uKey, uObj>>
        \/ /\ uPc' = "idle"
           /\ upFresh' = [upFresh EXCEPT ![uKey] = @ \ {"reconciler"}]
        \/ /\ uPc' = "status" /\ UNCHANGED <<uKey, upFresh>>
           /\ TouchServer(uObj.spec.serverRef, "ok")
    BY <1>6 DEF ResolveAndTrigger, UpstreamContinue, UpstreamReturn, Succeeded
  <2>4. ASSUME uPc' # "status" PROVE \A u \in Upstreams :
                                       UpstreamTouched(u)' => UpstreamTouched(u)
    BY <2>1, <2>4 DEF UpstreamTouched
  <2>5. CASE uPc' \in {"noServer", "notResolved"} /\ UNCHANGED <<upFresh, uKey, uObj>>
    <3>1. UpstreamsCached'
      BY <2>1, <2>4, <2>5 DEF UpstreamsCached
    <3> QED
      BY <2>1, <2>4, <2>5, <3>1 DEF UpstreamTouches
  <2>6. CASE /\ uPc' = "idle"
             /\ upFresh' = [upFresh EXCEPT ![uKey] = @ \ {"reconciler"}]
    <3>1. \A u \in Upstreams : "reconciler" \notin upFresh'[u]
      BY <1>1, <2>1, <2>6
         DEF UpstreamsTyped, UpstreamsFit, UpstreamCopiesAreCurrent
    <3>2. UpstreamsCached'
      BY <2>1, <2>4, <2>6, <3>1 DEF UpstreamsCached
    <3> QED
      BY <2>1, <2>4, <2>6, <3>2 DEF UpstreamTouches
  <2>7. CASE /\ uPc' = "status" /\ UNCHANGED <<uKey, upFresh>>
               /\ TouchServer(uObj.spec.serverRef, "ok")
    <3>1. srvFresh'[uObj.spec.serverRef] = {}
      BY <1>1, <2>2, <2>7 DEF TouchServer, WriteServer, PutServer, Applied,
         ServersTyped
    <3>2. ASSUME NEW u \in Upstreams, UpstreamTouched(u)', ~UpstreamTouched(u)
          PROVE  /\ u = uKey /\ upC[u] = up[u]
                 /\ up[u].spec = uObj.spec /\ Present(up[u])
      <4>1. u = uKey /\ "reconciler" \in upFresh[u]
        BY <2>1, <2>7, <3>2 DEF UpstreamTouched
      <4>2. "cache" \in upFresh[u]
        BY <4>1 DEF UpstreamsCached
      <4> QED
        BY <1>2, <2>1, <4>1, <4>2
           DEF UpstreamsFit, UpstreamCopiesAreCurrent, UpstreamCurrent
    <3>3. UpstreamsCached'
      BY <2>1, <2>7, <3>2 DEF UpstreamsCached
    <3> QED
      BY <2>1, <3>1, <3>2, <3>3 DEF UpstreamTouches
  <2> QED
    BY <2>3, <2>5, <2>6, <2>7
<1>7. CASE UpstreamTriggerThenRemove
  <2>1. /\ UNCHANGED <<up, upC, upFresh, uKey, uObj>> /\ uPc' = "removeFinalizer"
    BY <1>7 DEF UpstreamTriggerThenRemove, UpstreamContinue, upstreamVars
  <2>2. \A u \in Upstreams : UpstreamTouched(u)' => UpstreamTouched(u)
    BY <2>1 DEF UpstreamTouched
  <2>3. UpstreamsCached'
    BY <2>1, <2>2 DEF UpstreamsCached
  <2> QED
    BY <2>1, <2>2, <2>3 DEF UpstreamTouches
<1> QED
  BY <1>3, <1>5, <1>6, <1>7 DEF UpstreamStep

\* A user who edits a spec makes a generation that no condition is about.
LEMMA UsersTouchNoUpstream ==
  ASSUME TypeOK, UpstreamsFit, UpstreamsCached, Users, UNCHANGED upstreamLocals
  PROVE  UpstreamTouches
<1>1. UpstreamsTyped /\ UNCHANGED <<uPc, uKey, uObj>>
  BY DEF TypeOK, ClusterTypeOK, upstreamLocals
<1>2. \A q \in Upstreams : Present(up[q]) => up[q] \in Upstream
  BY <1>1 DEF UpstreamsTyped, Present
<1>3. ASSUME NEW q \in Upstreams, NEW spec \in UpstreamSpecs,
             CreateUpstream(q, spec)
      PROVE  UpstreamTouches
  <2>1. NewUpstream(spec).seen = FALSE
    BY DEF NewUpstream
  <2> QED
    BY <1>1, <1>3, <2>1, PutUpstreamTouches DEF CreateUpstream
<1>4. ASSUME NEW q \in Upstreams, NEW spec \in UpstreamSpecs, EditUpstream(q, spec)
      PROVE  UpstreamTouches
  <2> DEFINE o == [up[q] EXCEPT !.spec = spec, !.seen = FALSE]
  <2>1. up[q] \in Upstream /\ PutUpstream(q, o) /\ UNCHANGED upC
    BY <1>2, <1>4 DEF EditUpstream
  <2>2. o.seen = FALSE
    BY <2>1 DEF Upstream
  <2> HIDE DEF o
  <2> QED
    BY <1>1, <2>1, <2>2, PutUpstreamTouches
<1>5. ASSUME NEW q \in Upstreams, DeleteUpstream(q) PROVE UpstreamTouches
  <2> DEFINE o == [up[q] EXCEPT !.deleting = TRUE]
  <2>1. up[q] \in Upstream /\ PutUpstream(q, o) /\ Present(up[q]) /\ UNCHANGED upC
    BY <1>2, <1>5 DEF DeleteUpstream
  <2>2. o.spec = up[q].spec /\ o.Ready = up[q].Ready /\ o.seen = up[q].seen
    BY <2>1 DEF Upstream
  <2> HIDE DEF o
  <2>3. o.seen /\ o.Ready = "True" => UpstreamTouched(q) /\ o.spec = up[q].spec
    BY <2>1, <2>2 DEF UpstreamTouched
  <2> QED
    BY <1>1, <2>1, <2>3, PutUpstreamTouches
<1>6. CASE UsersElsewhere
  <2>1. UNCHANGED upstreamVars
    BY <1>6, UsersElsewhereKeepUpstreams
  <2> QED
    BY <1>1, <2>1, ElsewhereTouchesNoUpstream DEF upstreamVars
<1> QED
  BY <1>3, <1>4, <1>5, <1>6 DEF Users, UsersElsewhere

\* Every step.
LEMMA UpstreamTouchesNext ==
  ASSUME TypeOK, UpstreamsFit, UpstreamsCached, [Next]_vars PROVE UpstreamTouches
<1>1. UpstreamsTyped
  BY DEF TypeOK, ClusterTypeOK
<1>2. ASSUME UNCHANGED <<upstreamVars, upstreamLocals>> PROVE UpstreamTouches
  BY <1>2, ElsewhereTouchesNoUpstream DEF upstreamVars, upstreamLocals
<1>3. ASSUME NEW q \in Upstreams, FetchUpstream(q) PROVE UpstreamTouches
  <2>1. CASE UNCHANGED <<upstreamLocals, upFresh>>
    BY <1>2, <1>3, <2>1 DEF FetchUpstream, upstreamVars
  <2>2. CASE /\ uPc' = FirstUpstreamStep(upC[q]) /\ uKey' = q /\ uObj' = upC[q]
             /\ upFresh' = TakeCopy(upFresh, q)
    <3>1. UNCHANGED <<up, upC>> /\ uPc = "idle"
      BY <1>3 DEF FetchUpstream
    <3>2. uPc' # "status"
      BY <2>2 DEF FirstUpstreamStep
    <3>3. \A u \in Upstreams : UpstreamTouched(u)' => UpstreamTouched(u)
      BY <3>1, <3>2 DEF UpstreamTouched
    <3>4. \A u \in Upstreams : "reconciler" \notin upFresh[u]
      BY <3>1 DEF UpstreamsFit, UpstreamCopiesAreCurrent
    <3>5. ASSUME NEW u \in Upstreams, "reconciler" \in upFresh'[u]
          PROVE  "cache" \in upFresh'[u]
      BY <1>1, <2>2, <3>4, <3>5 DEF TakeCopy, UpstreamsTyped
    <3>6. UpstreamsCached'
      BY <3>1, <3>3, <3>5 DEF UpstreamsCached
    <3> QED
      BY <3>1, <3>3, <3>6 DEF UpstreamTouches
  <2> QED
    BY <1>3, <2>1, <2>2 DEF FetchUpstream
<1>4. CASE UpstreamController
  BY <1>3, <1>4, UpstreamStepTouches DEF UpstreamController
<1>5. CASE ServerController \/ RouteController
  <2>1. UNCHANGED upstreamLocals
    BY <1>5 DEF ServerController, RouteController, upstreamControllerVars
  <2>2. UNCHANGED upstreamVars
    BY <1>5, ServerStepTyped, RouteStepTyped
       DEF ServerController, FetchServer, RouteController, FetchRoute
  <2> QED
    BY <1>2, <2>1, <2>2
<1>6. CASE Environment
  <2>1. UNCHANGED upstreamLocals
    BY <1>6 DEF Environment, upstreamControllerVars
  <2>2. Kubernetes => UNCHANGED upstreamVars
    BY DEF Kubernetes, Surge, Rollout, Terminate, CollectGarbage
  <2> QED
    BY <1>2, <1>6, <2>1, <2>2, UsersTouchNoUpstream DEF Environment
<1>7. ASSUME NEW q \in Upstreams, UpstreamEvent(q) PROVE UpstreamTouches
  <2>1. /\ UNCHANGED <<up, uPc, uKey, uObj>> /\ upC' = [upC EXCEPT ![q] = up[q]]
        /\ upFresh' = [upFresh EXCEPT ![q] = @ \cup {"cache"}]
    BY <1>7 DEF UpstreamEvent, CatchUpUpstream, upstreamLocals
  <2>2. \A u \in Upstreams : UpstreamTouched(u)' => UpstreamTouched(u)
    BY <1>1, <2>1 DEF UpstreamTouched, UpstreamsTyped
  <2>3. UpstreamsCached'
    <3> SUFFICES ASSUME NEW u \in Upstreams
                 PROVE  /\ "reconciler" \in upFresh'[u] => "cache" \in upFresh'[u]
                        /\ UpstreamTouched(u)' => /\ Present(upC'[u])
                                                  /\ upC'[u].spec = up'[u].spec
      BY DEF UpstreamsCached
    <3>1. CASE u = q
      BY <1>1, <2>1, <3>1 DEF UpstreamTouched, UpstreamsTyped, UpstreamsCached
    <3>2. CASE u # q
      BY <1>1, <2>1, <2>2, <3>2 DEF UpstreamsCached, UpstreamsTyped
    <3> QED
      BY <3>1, <3>2
  <2> QED
    BY <2>1, <2>2, <2>3 DEF UpstreamTouches
<1>8. CASE \/ \E s \in Servers : ServerEvent(s)
           \/ \E r \in Routes : RouteEvent(r)
           \/ \E s \in Servers, k \in Kinds : ChildEvent(s, k)
           \/ UNCHANGED vars
  BY <1>2, <1>8 DEF ServerEvent, CatchUpServer, RouteEvent, CatchUpRoute,
     ChildEvent, CatchUpChild, upstreamControllerVars, vars, clusterVars
<1>9. CASE Restart
  <2>1. UNCHANGED up /\ upC' = up /\ uPc' = "idle"
        /\ upFresh' = [u \in Upstreams |-> {"cache"}]
    BY <1>9 DEF Restart, RelistAll
  <2> QED
    BY <2>1 DEF UpstreamTouches, UpstreamsCached, UpstreamTouched
<1> QED
  BY <1>4, <1>5, <1>6, <1>7, <1>8, <1>9 DEF Next, Events

\* The touched upstreams are carried on.
LEMMA UpstreamsCarriedNext ==
  ASSUME TypeOK, ServersFit, ServersSettle, UpstreamsFit, UpstreamsCached,
         UpstreamsCarried, [Next]_vars
  PROVE  UpstreamsCached' /\ UpstreamsCarried'
<1>1. UpstreamTouches
  BY UpstreamTouchesNext
<1>2. ASSUME NEW u \in Upstreams, UpstreamTouched(u)'
      PROVE  Carried(up[u].spec.serverRef, "upstreams",
                     UpstreamBlockOf(u, up[u].spec))'
  <2>1. CASE "cache" \notin srvFresh'[up'[u].spec.serverRef]
    BY <2>1 DEF Carried
  <2>2. CASE UpstreamTouched(u) /\ up'[u].spec = up[u].spec
    <3>1. PICK spec : spec = up[u].spec
      OBVIOUS
    <3>2. PICK s \in Servers : s = spec.serverRef
      BY <2>2, <3>1, ClusterAssumption
         DEF TypeOK, ClusterTypeOK, UpstreamsTyped, UpstreamTouched, Present,
             Upstream, UpstreamSpecType
    <3>3. Carried(s, "upstreams", UpstreamBlockOf(u, spec))
      BY <2>2, <3>1, <3>2 DEF UpstreamsCarried
    <3>4. UpstreamBlockOf(u, spec) \in ListUpstreams(s, upC)
      BY <2>2, <3>1, <3>2 DEF UpstreamsCached, ListUpstreams, UpstreamBlockOf
    <3>5. WillHave(s, "upstreams", UpstreamBlockOf(u, spec))
      BY <3>4, RenderingsHaveAll DEF WillHave
    <3>6. Carried(s, "upstreams", UpstreamBlockOf(u, spec))'
      BY <3>3, <3>5, CarriedNext
    <3> QED
      BY <2>2, <3>1, <3>2, <3>6 DEF Carried, UpstreamBlockOf
  <2> QED
    BY <1>1, <1>2, <2>1, <2>2 DEF UpstreamTouches
<1> QED
  BY <1>1, <1>2 DEF UpstreamTouches, UpstreamsCarried

\* A route or an upstream is reported Ready by a reconciler that has only touched
\* its server.  Yet once that server is at rest, with a spec that is accepted, its
\* ConfigMap has the block that the resource declares.
THEOREM ReadyResourcesAreServed == Spec => []ReadyIsServed
<1> DEFINE ServersPart == ServersFit /\ ServersHonest /\ HashesFit /\ ServersSettle
           RoutesPart == RoutesFit /\ RoutesCached /\ RoutesCarried
           UpstreamsPart == UpstreamsFit /\ UpstreamsCached /\ UpstreamsCarried
           Inv == TypeOK /\ ServersPart /\ RoutesPart /\ UpstreamsPart
<1>1. Init => Inv
  BY TypeOKInit, ServersFitInit, ServersHonestInit, HashesFitInit,
     ServersSettleInit, RoutesFitInit, RoutesCarriedInit, UpstreamsFitInit,
     UpstreamsCarriedInit
<1>2. Inv /\ [Next]_vars => Inv'
  BY TypeOKNext, ServersFitNext, ServersHonestNext, HashesFitNext,
     ServersSettleNext, RoutesFitNext, RoutesCarriedNext, UpstreamsFitNext,
     UpstreamsCarriedNext
<1>3. Inv => ReadyIsServed
  <2> SUFFICES ASSUME Inv, NEW s \in Servers, ServerSettled(s), Present(srv[s]),
                      srv[s].spec \in ValidServerSpecs
               PROVE  LET cfg == kid[s]["ConfigMap"].data
                      IN /\ \A r \in Routes :
                              /\ Present(rt[r]) /\ rt[r].seen /\ rt[r].Ready = "True"
                              /\ rt[r].spec.serverRef = s
                              => \E i \in DOMAIN cfg.blocks :
                                   cfg.blocks[i] = [route |-> r,
                                                    spec |-> rt[r].spec]
                         /\ \A u \in Upstreams :
                              /\ Present(up[u]) /\ up[u].seen /\ up[u].Ready = "True"
                              /\ up[u].spec.serverRef = s
                              => \E i \in DOMAIN cfg.upstreams :
                                   cfg.upstreams[i] =
                                     [upstream |-> u, backends |-> up[u].spec.backends]
    BY DEF ReadyIsServed
  <2>1. kid[s]["ConfigMap"].data = srv[s].status.hash
    BY ClusterAssumption DEF ServersSettle, SettledServersAreInLine, ServerInLine
  <2>2. ASSUME NEW field, NEW b, Carried(s, field, b)
        PROVE  Has(kid[s]["ConfigMap"].data, field, b)
    BY <2>1, <2>2 DEF Carried, ServerSettled
  <2>3. ASSUME NEW r \in Routes, Present(rt[r]), rt[r].seen, rt[r].Ready = "True",
               rt[r].spec.serverRef = s
        PROVE  Has(kid[s]["ConfigMap"].data, "blocks", BlockOf(r, rt[r].spec))
    BY <2>2, <2>3 DEF RoutesCarried, RouteTouched
  <2>4. ASSUME NEW u \in Upstreams, Present(up[u]), up[u].seen,
               up[u].Ready = "True", up[u].spec.serverRef = s
        PROVE  Has(kid[s]["ConfigMap"].data, "upstreams",
                   UpstreamBlockOf(u, up[u].spec))
    BY <2>2, <2>4 DEF UpstreamsCarried, UpstreamTouched
  <2> QED
    BY <2>3, <2>4 DEF Has, BlockOf, UpstreamBlockOf
<1> QED
  BY <1>1, <1>2, <1>3, PTL DEF Spec
=============================================================================
