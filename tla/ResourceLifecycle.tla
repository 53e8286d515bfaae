------------------------- MODULE ResourceLifecycle --------------------------
(***************************************************************************)
(* What the life of a custom resource promises its users, whatever number  *)
(* of reconcilers writes it from lagging copies.  A spec is what users     *)
(* last asked for, or that with its zero values replaced by defaults.      *)
(* Only users ask for deletion, and that is never taken back.  The         *)
(* operator's finalizer is put on live resources and taken off dying ones, *)
(* and a resource that carries it goes only when it is taken off.  Every   *)
(* operation acts on the resource as it is, none on a remembered one.      *)
(***************************************************************************)
CONSTANTS Names, Specs, Defaults, Absent

VARIABLES
  objects,
  requests   \* what users have asked for so far, of these resources or others

vars == <<objects, requests>>

Exists(n) == objects[n] # Absent

Become(n, o) == objects' = [objects EXCEPT ![n] = o]

Init == objects \in [Names -> {Absent} \cup
                       [spec : Specs, fin : BOOLEAN, deleting : {FALSE}]]

-----------------------------------------------------------------------------
Create(n, spec) ==
  /\ ~Exists(n)
  /\ Become(n, [spec |-> spec, fin |-> FALSE, deleting |-> FALSE])

Edit(n, spec) == Exists(n) /\ Become(n, [objects[n] EXCEPT !.spec = spec])

RequestDeletion(n) ==
  /\ Exists(n) /\ ~objects[n].deleting
  /\ \/ /\ objects[n].fin
        /\ Become(n, [spec |-> objects[n].spec, fin |-> TRUE, deleting |-> TRUE])
     \/ ~objects[n].fin /\ Become(n, Absent)

\* Whatever users do is counted; what is not of these resources leaves them be.
Asked == \/ \E n \in Names : \/ \E spec \in Specs : Create(n, spec) \/ Edit(n, spec)
                             \/ RequestDeletion(n)
         \/ UNCHANGED objects

-----------------------------------------------------------------------------
Adopt(n) ==
  /\ Exists(n) /\ ~objects[n].deleting
  /\ Become(n, [spec |-> Defaults[objects[n].spec], fin |-> TRUE,
                deleting |-> FALSE])

\* A write that is about something else replaces zero values all the same.
Normalise(n) ==
  Exists(n) /\ Become(n, [objects[n] EXCEPT !.spec = Defaults[objects[n].spec]])

Release(n) == /\ Exists(n) /\ objects[n].deleting /\ objects[n].fin
              /\ Become(n, Absent)

Unasked == \E n \in Names : Adopt(n) \/ Normalise(n) \/ Release(n)

-----------------------------------------------------------------------------
Next == \/ requests' # requests /\ Asked
        \/ UNCHANGED requests /\ Unasked

Spec == Init /\ [][Next]_vars
=============================================================================
