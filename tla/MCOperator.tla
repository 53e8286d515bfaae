----------------------------- MODULE MCOperator -----------------------------
(***************************************************************************)
(* Small instances of Operator for TLC.                                    *)
(***************************************************************************)
EXTENDS Operator

CONSTANTS s1, s2, r1, r2, u1, sv, b0, b1, v0, v1, v2

\* A well-formed route of s1 without upstreams, and variants of it: with the
\* priority zero, refused, refused and with an upstream that is not there, of
\* another server.
Plain == [serverRef |-> s1, priority |-> DefaultPriority, rev |-> 0,
          valid |-> TRUE, upstreamRefs |-> {}]
First == [Plain EXCEPT !.priority = 0]
Invalid == [Plain EXCEPT !.valid = FALSE]
Dangling == [Invalid EXCEPT !.upstreamRefs = {u1}]
Elsewhere == [Plain EXCEPT !.serverRef = s2]

\* An upstream of s1 with the backends b1, and variants of it: with a weight of
\* zero, discovering its backends, refused.
Static == [serverRef |-> s1, backends |-> b1, service |-> Absent, valid |-> TRUE]
Weightless == [Static EXCEPT !.backends = b0]
Discovering == [Static EXCEPT !.service = sv, !.backends = NoBackends]
Broken == [Static EXCEPT !.valid = FALSE]

\* v0 is v1 with the access log off, b0 is b1 with a weight of zero.
LogDefaults == [v \in ServerSpecs |-> IF v = v0 THEN v1 ELSE v]
PriorityDefaults ==
  [x \in RouteSpecs |-> IF x.priority = 0
                          THEN [x EXCEPT !.priority = DefaultPriority] ELSE x]
WeightDefaults ==
  [x \in UpstreamSpecs |-> IF x.backends = b0
                             THEN [x EXCEPT !.backends = b1] ELSE x]

NoSpecs == {}
OneRouteSpec == {Plain}
HereOrElsewhere == {Plain, Elsewhere}
ValidOrNot == {Plain, Invalid, Dangling}
AnyRouteSpec == {Plain, First, Dangling}
OneDiscovering == {Discovering}
GivenOrDiscovered == {Static, Discovering}
AnyUpstreamSpec == {Static, Weightless, Discovering, Broken}

\* What exists when the operator starts, of each kind one spec for all or Absent
\* for none, and what users do then.  Every Service starts with b1.
Start(server, route, upstream, does) ==
  [servers |-> [s \in Servers |-> server], routes |-> [r \in Routes |-> route],
   upstreams |-> [u \in Upstreams |-> upstream],
   endpoints |-> [x \in Services |-> b1], users |-> does]

\* The only route of s1 is deleted, or moved to a server that is not there yet.
LeavingRoute ==
  {[Start(v1, Plain, Absent, {op}) EXCEPT !.servers[s2] = Absent] :
     op \in {"deleteRoute", "moveRoute"}}
EditedServer == {Start(v1, Absent, Absent, {"editServer"})}
Reconfigured == {Start(v1, Plain, Absent, {"editServer"})}
Untouched == {Start(v1, Plain, Absent, {})}
Discovered == {Start(v1, Absent, Discovering, {})}

\* One of each kind is made; one with zeros in it, or its server, is changed
\* or goes: before there is a server, below a refused one, below one with children.
Lifecycles ==
  {Start(Absent, Absent, Absent, {"createServer", "createRoute", "createUpstream"}),
   Start(Absent, First, Absent, {"createServer", "editRoute", "deleteRoute"}),
   Start(Absent, Absent, Weightless, {"editUpstream", "deleteUpstream"}),
   Start(v1, First, Absent, {"editServer", "deleteServer", "editRoute", "deleteRoute"}),
   Start(v1, Absent, Discovering,
         {"deleteServer", "editUpstream", "deleteUpstream", "scaleService"}),
   Start(v2, Absent, Absent, {"editServer", "deleteServer"}),
   Start(v2, Plain, Absent, {"deleteServer"}),
   Start(v2, Dangling, Absent, {"deleteRoute"}),
   Start(v2, Absent, Discovering, {})}

\* A route made valid or one the server fails over, a Service scaled, or their
\* server deleted, in the middle of set-up; below a server that was refused: it
\* is deleted, a route is edited.
SetUps ==
  {Start(v1, Plain, Absent, {"deleteServer"}),
   Start(v1, Invalid, Absent, {"editRoute"}),
   Start(v1, Absent, Discovering, {"scaleService"}),
   Start(v2, Absent, Static, {"deleteServer"}),
   Start(v2, Plain, Absent, {"editRoute"})}

Ownerships ==
  {Start(v1, Absent, Absent,
         {"createServer", "editServer", "deleteServer", "tamper"})}
=============================================================================
