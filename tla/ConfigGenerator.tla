-------------------------- MODULE ConfigGenerator --------------------------
(***************************************************************************)
(* internal/config: the text of nginx.conf as the generator assembles it.  *)
(* Of the text only its structure is kept: where blocks open and close,    *)
(* the directives that define or use a name, and what a location does.     *)
(* A name is a sequence of characters.  An input is generated once.        *)
(***************************************************************************)
EXTENDS Naturals, FiniteSets, Sequences, SequencesExt

CONSTANTS
  UpstreamNames,   \* names of NginxUpstreams, as sequences of characters
  RouteNames,
  Priorities,
  Paths,           \* paths of locations, as sequences of characters
  OtherActions,    \* what a location may do instead: see ActionOrder
  Limits,          \* whether there may be rate limits, and whether not
  TLSKinds,        \* among "off", "bare" (no Secret named) and "secret"
  MaxUpstreams, MaxRoutes, MaxLocations,  \* bounds of an input
  NotYet, Failed   \* what there is in place of a text

NoName == <<>>
Namespace == <<"n", "s">>

SeqsUpTo(S, n) == UNION {[1..k -> S] : k \in 0..n}

\* The fields the template tries in this order when there is no upstreamRef.
ActionOrder == <<"proxyPass", "staticContent", "return">>

\* others: those of them that are set.  CRD and template allow any number.
Locations == [path : Paths, upstreamRef : UpstreamNames \cup {NoName},
              others : SUBSET OtherActions, limited : Limits]
RouteInputs == [name : RouteNames, priority : Priorities, limited : Limits,
                tls : TLSKinds, locations : SeqsUpTo(Locations, MaxLocations)]

VARIABLES monitoring, routes, upstreams, fullConfig
vars == <<monitoring, routes, upstreams, fullConfig>>

-----------------------------------------------------------------------------
Open(kind, name) == [token |-> "open", kind |-> kind, name |-> name]
Close == [token |-> "close", kind |-> "", name |-> NoName]
Directive(kind, name) == [token |-> "directive", kind |-> kind, name |-> name]
OnlyIf(condition, text) == IF condition THEN text ELSE <<>>

ValidateNginxRouteLaxly(route) == route.locations # <<>>   \* mutant: no count

\* ValidateNginxRoute, as far as locations go: each does just one thing.
ValidateNginxRoute(route) ==
  /\ route.locations # <<>>
  /\ \A l \in Range(route.locations) :
       Cardinality(l.others) + (IF l.upstreamRef = NoName THEN 0 ELSE 1) = 1

SanitizeName(name) ==
  [i \in DOMAIN name |-> IF name[i] \in {".", "/", "-", " "} THEN "_"
                                                            ELSE name[i]]
Qualified(name) == SanitizeName(Namespace \o <<"-">> \o name)

GenerateMainConfig ==
  <<Open("events", NoName), Close, Open("http", NoName)>>
    \o OnlyIf(monitoring, <<Open("server", NoName), Close>>)
    \o <<Directive("include", NoName), Close>>

GenerateUpstreamConfig(name) == <<Open("upstream", Qualified(name)), Close>>

ZoneName(route) == Qualified(route.name)
LocationZoneName(route, location) ==
  SanitizeName(Namespace \o <<"-">> \o route.name \o <<"-">> \o location.path)

\* What a location does; of several things it declares, the first.
Action(location) ==
  LET set == {i \in DOMAIN ActionOrder : ActionOrder[i] \in location.others}
      first == CHOOSE i \in set : \A j \in set : i <= j
  IN IF location.upstreamRef # NoName
       THEN <<Directive("proxy_pass", Qualified(location.upstreamRef))>>
       ELSE OnlyIf(set # {}, <<Directive(ActionOrder[first], NoName)>>)

LocationConfig(route, location) ==
  <<Open("location", location.path)>> \o Action(location)
    \o OnlyIf(location.limited,
              <<Directive("limit_req", LocationZoneName(route, location))>>)
    \o <<Close>>

RouteConfig(route) ==
  OnlyIf(route.limited, <<Directive("limit_req_zone", ZoneName(route))>>)
    \o <<Open("server", route.name)>>
    \o OnlyIf(route.tls # "off", <<Directive("listen_ssl", NoName)>>)
    \o OnlyIf(route.tls = "secret", <<Directive("ssl_certificate", NoName)>>)
    \o OnlyIf(route.limited, <<Directive("limit_req", ZoneName(route))>>)
    \o FlattenSeq([i \in DOMAIN route.locations |->
                     LocationConfig(route, route.locations[i])])
    \o <<Close>>

\* Mutant: a reference that is not in the map is left to NGINX.
ResolvesAnyway(route, upstreamMap) == TRUE

\* GenerateRouteConfig fails on a reference that is not in the map.
Resolves(route, upstreamMap) ==
  \A i \in DOMAIN route.locations :
    route.locations[i].upstreamRef \in upstreamMap \cup {NoName}

\* Mutant: the routes are taken as they come.
UnsortedOrders == {[i \in DOMAIN routes |-> i]}

\* The cache lists in any order, and sort.Slice is not stable: any order of the
\* indices that respects priority.
SortedOrders ==
  {p \in [DOMAIN routes -> DOMAIN routes] :
     /\ \A i, j \in DOMAIN p : p[i] = p[j] => i = j
     /\ \A i, j \in DOMAIN p :
          i < j => routes[p[i]].priority <= routes[p[j]].priority}

FullConfig(order) ==
  GenerateMainConfig
    \o FlattenSeq([i \in DOMAIN upstreams |->
                     GenerateUpstreamConfig(upstreams[i])])
    \o FlattenSeq([i \in DOMAIN routes |-> RouteConfig(routes[order[i]])])

\* What any text is made of.
NamesInTexts ==
  {NoName} \cup RouteNames \cup Paths
    \cup {Qualified(name) : name \in UpstreamNames \cup RouteNames}
    \cup {LocationZoneName(r, l) : r \in [name : RouteNames], l \in [path : Paths]}
KindsInTexts ==
  {"", "events", "http", "include", "upstream", "server", "listen_ssl",
   "ssl_certificate", "location", "limit_req_zone", "limit_req", "proxy_pass",
   "proxyPass", "staticContent", "return"}
Tokens == [token : {"open", "close", "directive"}, kind : KindsInTexts,
           name : NamesInTexts]
Texts == Seq(Tokens)

\* Routes have names, and a text is not taken for the lack of one.
ASSUME GeneratorAssumption ==
  /\ {MaxUpstreams, MaxRoutes, MaxLocations} \subseteq Nat
  /\ Limits \subseteq BOOLEAN /\ OtherActions \subseteq Range(ActionOrder)
  /\ NoName \notin RouteNames
  /\ NotYet \notin Texts /\ Failed \notin Texts /\ NotYet # Failed

\* One failing route fails the whole configuration.
GenerateFullConfig ==
  /\ fullConfig = NotYet
  /\ IF \A i \in DOMAIN routes : Resolves(routes[i], Range(upstreams))
       THEN fullConfig' \in {FullConfig(order) : order \in SortedOrders}
       ELSE fullConfig' = Failed
  /\ UNCHANGED <<monitoring, routes, upstreams>>

\* Resources of one kind in one namespace differ in name.
DistinctNames(s, name(_)) ==
  \A i, j \in DOMAIN s : name(s[i]) = name(s[j]) => i = j
RouteName(route) == route.name
Itself(name) == name

Init ==
  /\ monitoring \in BOOLEAN
  /\ upstreams \in SeqsUpTo(UpstreamNames, MaxUpstreams)
  /\ DistinctNames(upstreams, Itself)
  /\ routes \in SeqsUpTo(RouteInputs, MaxRoutes)
  /\ DistinctNames(routes, RouteName)
  /\ fullConfig = NotYet

Next == GenerateFullConfig

Spec == Init /\ [][Next]_vars

-----------------------------------------------------------------------------
Generated == fullConfig \notin {NotYet, Failed}
Where(token, kind) ==
  {i \in DOMAIN fullConfig : fullConfig[i].token = token
                             /\ fullConfig[i].kind = kind}
NamesAt(places) == {fullConfig[i].name : i \in places}

\* The blocks a token stands in: those opened before it and not closed.
OpenAt(j, i) ==
  LET count(t, last) == Cardinality({k \in j..last : fullConfig[k].token = t})
  IN /\ fullConfig[j].token = "open"
     /\ \A k \in j..i - 1 : count("open", k) > count("close", k)

\* A route with a dangling upstreamRef would make NGINX look the name up in
\* the DNS when it starts.  Every name proxied to has its upstream block, and
\* a configuration is generated whenever all references resolve.
ReferencesResolve ==
  IF Generated
    THEN NamesAt(Where("directive", "proxy_pass"))
           \subseteq NamesAt(Where("open", "upstream"))
    ELSE fullConfig = Failed =>
           \E i \in DOMAIN routes : \E j \in DOMAIN routes[i].locations :
             LET ref == routes[i].locations[j].upstreamRef
             IN ref # NoName /\ ref \notin Range(upstreams)

\* "Routes are sorted by priority" (generator.go): whatever the sort does with
\* equal ones, each route has one server block, none before one of a lower
\* priority, and every upstream block comes before them all.
RoutesInOrder ==
  Generated =>
    LET places == {i \in Where("open", "server") : fullConfig[i].name # NoName}
        priority(i) == (CHOOSE r \in Range(routes) :
                          r.name = fullConfig[i].name).priority
    IN /\ Cardinality(places) = Len(routes)
       /\ NamesAt(places) = {r.name : r \in Range(routes)}
       /\ \A i, j \in places : i < j => priority(i) <= priority(j)
       /\ \A i \in places, u \in Where("open", "upstream") : u < i

\* The validator asks of a location to do one thing, the template picks one of
\* several, and invalid routes are rendered too: no location of any route is told
\* to do two things, and those of a valid one each do the thing they declare.
ActionKinds == {"proxy_pass"} \cup Range(ActionOrder)
Declared(l) == IF l.upstreamRef # NoName THEN {"proxy_pass"} ELSE l.others
KindsIn(i) == {fullConfig[j].kind :
                 j \in {k \in i + 1..Len(fullConfig) :
                          OpenAt(i, k) /\ fullConfig[k].token = "directive"}}
LocationsActAsDeclared ==
  Generated =>
    /\ \A i \in Where("open", "location") :
         Cardinality(KindsIn(i) \cap ActionKinds) <= 1
    /\ \A r \in Range(routes) : ValidateNginxRoute(r) =>
         \A l \in Range(r.locations) :
           \E i \in Where("open", "server"), j \in Where("open", "location") :
             /\ fullConfig[i].name = r.name /\ OpenAt(i, j)
             /\ fullConfig[j].name = l.path
             /\ KindsIn(j) \cap ActionKinds = Declared(l)
=============================================================================
