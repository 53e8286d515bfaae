# TLA+ models of the nginx-operator

This directory models the NGINX operator of this repository in TLA+. The modules
are translated from the Go source and checked on small instances with TLC; the
central facts are proved for every value of the constants with the TLA+ proof
system. `PROJECT.json` lists the components, the runs, a mutation of the model
for every property, the source lines every definition stands for (`map`), the
hazards and the findings.

    tlc -config Lifecycle.cfg MCOperator    # any run: see PROJECT.json "runs"
    tlapm LifecycleProofs.tla               # any module named *Proofs

Contents: [the system](#the-system), [modules](#modules-and-how-they-follow-the-code),
[runs](#runs), [bounds](#bounds), [fairness](#fairness), [findings](#findings),
[proofs](#what-is-proved), [left out](#what-is-not-modelled-and-why),
[plan](#plan).

## The system

A user declares three kinds of custom resource. An `NginxServer` is an NGINX
deployment; `NginxRoute`s are the `server` blocks it serves, each naming its
server in `serverRef`; `NginxUpstream`s are the backends that locations of a
route proxy to. The operator renders all of them into one `nginx.conf`, keeps it
in a ConfigMap and runs it in a Deployment behind a Service.

| Component | Source | State it keeps | Operations |
|---|---|---|---|
| Server controller | `internal/controller/nginxserver_controller.go` | none between reconciles but its workqueue; within one, a copy of the server and the text it rendered | Reconcile: adopt, validate, generate, write ConfigMap, Deployment, Service, status; handleDeletion |
| Route controller | `internal/controller/nginxroute_controller.go` | likewise | Reconcile: adopt, validate, touch the server, report; handleDeletion; findRoutesForServer |
| Upstream controller | `internal/controller/nginxupstream_controller.go` | likewise | Reconcile: adopt, validate, look up Endpoints, touch the server, report, come back after 30 s; handleDeletion; findUpstreamsForServer |
| Configuration generator | `internal/config/generator.go`, `templates.go` | none: a function of a server, its routes and upstreams | GenerateFullConfig, ConfigHash |
| Validator | `internal/config/validator.go` | none | Validate* |
| Resource manager | `internal/nginx/manager.go` | none | Build* of the children |
| Reloader sidecar | `cmd/reloader/main.go` | `lastConfigHash`, `healthy`; the position of its loop | tick, walk, `nginx -t`, `nginx -s reload` |
| Operator process | `cmd/operator/main.go` | the controllers, their shared informer caches, the leader lease | start |
| API types | `api/v1alpha1/` | specs, conditions, finalizers, annotations | |

### How the parts interact

The controllers never call each other. They share the API server's objects, read
them from **informer caches that lag**, and wake each other through the **events**
of the objects they write:

* an event of an NginxServer wakes the server controller and, through
  `findRoutesForServer` and `findUpstreamsForServer`, the route and the upstream
  controller for each route and upstream that names it;
* an event of an NginxRoute or an NginxUpstream wakes its own controller only, which
  then *touches* the server - writes it with a fresh `last-reload` annotation - to
  wake the server controller;
* an event of a ConfigMap, Deployment or Service wakes the server controller for
  the owner;
* a change of Endpoints wakes nobody: an upstream that discovers its backends comes
  back by itself 30 seconds after a reconcile that succeeded, and only then.

Writes are optimistic: each carries the `resourceVersion` of the copy it was made
from and is refused as a conflict if the object has been written since. Reconcile
then returns its error and the key is queued again.

Kubernetes acts on the same objects: the garbage collector deletes children whose
owner is gone, and the Deployment controller replaces pods when the pod template,
`config-hash` annotation included, changes.

In each pod the reloader watches `/etc/nginx/conf.d` beside the NGINX master. They
share files and a signal, and nothing else.

### What is hard about it

* *Stale reads*: every decision is taken on a cached object and every write made
  several steps later (server: up to five writes per reconcile).
* *Four writers of one object*: users and all three controllers write the NginxServer.
* *A copy that is changed before it is written*: the upstream controller puts the
  backends it discovers into the spec of its own copy.
* *Writes of more than was meant*: an Update goes through the Go type, which omits
  zero values, and through the defaults of the CRD, which replace them.
* *Partial failure*: any of the writes may fail, conflict, or be applied and lose
  its reply; the process may be restarted between two of them.
* *Wake-ups by event only*: what no event announces is not noticed. Only upstreams
  with service discovery look again by themselves, and only after a success.
* *Deletion*: finalizers, the garbage collector, and resources created anew under
  the name of a deleted one.
* *Files that change under a reader*: the reloader hashes, NGINX tests, and the
  master loads the files each for itself, one after the other.

`PROJECT.json` "hazards" has each at the line where it bites.

### What makes each part correct

| Component | Must hold | Property |
|---|---|---|
| All three controllers | No write from an old copy takes back an edit or a deletion, changes more of a spec than its zero values, adopts a dying resource, or releases one nobody deleted | `ServerLifecycle`, `RouteLifecycle`, `UpstreamLifecycle` (refinement) |
| | No write changes a spec that a user has written | refuted, see [findings](#findings) |
| | A Ready condition is about the spec of the generation it names, and that spec was accepted | `ServerReadyForItsSpec`, `ReadyForAcceptedSpecs` |
| | A resource that nothing will make its controller look at again leaves nothing to do | `SettledServersAreInLine`, `SettledRoutesAreInLine`, `SettledUpstreamsAreInLine` |
| | What is Ready is in the configuration of its server, once that server is at rest | `ReadyIsServed` |
| Server controller | The hash in the status is the Deployment's | `PublishedHashIsDeployed` |
| | Children come to hold what the resources declare, under a living owner | `ConfigConverges`, `NoOrphans` |
| | The status follows | `StatusConverges` |
| | Pods run what their annotation says; nothing restarts them without a change; Ready means serving; the operator comes to rest; a deleted route is no longer served | refuted, see [findings](#findings) |
| Route controller | A Ready route is valid and its server exists | `ReadyRoutesHaveServers` |
| Upstream controller | A Ready upstream is valid, its server exists, and it reports the Endpoints its Service has | `ReadyUpstreamsAreBacked` |
| | What is discovered is served | refuted, see [findings](#findings) |
| Generator | Every name proxied to is defined; the routes are all there, in order | `ReferencesResolve`, `RoutesInOrder` |
| Generator and validator | A location does the one thing it was declared to do | `LocationsActAsDeclared` |
| Reloader | A hash remembered as loaded is loaded | `NothingMissed` |
| | Changes, and good ones, are loaded; bad ones are reported | `ChangesGetLoaded`, `GoodConfigsGetLoaded`, `BadConfigsAreReported` |

## Modules and how they follow the code

    Cluster                        API objects, caches, users, Kubernetes
      NginxServerController        extends Cluster
      NginxRouteController         extends Cluster
      NginxUpstreamController      extends Cluster
        Operator                   composes the three; properties
          MCOperator               instances for TLC
          OperatorProofs           types
            LifecycleProofs        refinement of ResourceLifecycle: servers, routes
              UpstreamLifecycleProofs    and upstreams
                StatusProofs       Ready is of the right spec
              HashProofs           PublishedHashIsDeployed
                SettledProofs      no wake-up is lost; what is Ready is served
                                   (extends StatusProofs as well)
    ResourceLifecycle              abstract specification, instantiated by Operator
    Reloader                       MCReloader, ReloaderProofs
    ConfigGenerator                MCConfigGenerator, ConfigGeneratorProofs

**Cluster** is the environment: no code of the repository, modelled from how the
reconcilers use their client. `srv`, `rt`, `up` and `kid` are what the API server
holds, `srvC`, `rtC`, `upC`, `kidC` the informer caches, `endpoints` what a Get of a
Service's Endpoints returns. Resource versions are only ever compared
for equality with the current one, so instead of numbers the model keeps who holds
a current copy: `srvFresh[s] \subseteq {"cache", "reconciler"}`. A write clears the
set; a write by someone not in it is a conflict. This is exact for the comparison
the API server makes, and it keeps the state space finite although touches never
end. A cache that lags catches up in one step: an informer may skip states but
never goes back. `Replies` is the set of outcomes of a write: applied, applied
without effect (no event comes of it), conflict, error, or *lost* - applied, with
an error as the reply.

An `Update` is not the identity on the fields it does not mean to change. The typed
object is marshalled with `omitempty`, so that a `false` or a zero is left out, and the
API fills in the default the CRD declares: `accessLogEnabled`, `gzipEnabled` and
`preferServerCiphers` come back `true`, a route's `priority` 100, a backend's `weight` 1.
`UpdatedServer`, `UpdatedRoute` and `UpdatedUpstream` do that to a spec, with the
constants `ServerDefaults`, `RouteDefaults` and `UpstreamDefaults`; when it changes
the spec, the resource has a new generation (`seen` is cleared). `Status().Update` takes nothing of
the spec along.

The Deployment controller surges: with `maxSurge` 1 and `maxUnavailable` 0 it starts
new pods before it stops old ones, and until they are ready the ready replicas are not
all replicas (`Surge`, then `Rollout`).

**NginxServerController** has one action per stretch of `Reconcile` that ends in an
API write, so that everything else may move between two writes:

| Code | Action |
|---|---|
| `Get`, deletion and finalizer tests, validation | `FetchServer`, which decides the next step from the cached copy |
| `handleDeletion` | `ServerHandleDeletion` |
| finalizer added | `ServerAddFinalizer` |
| validation or generation failed | `ServerNotValid`, `ServerNotGenerated` |
| list routes and upstreams, generate | `GenerateFullConfig` |
| `reconcileConfigMap`, `-Deployment`, `-Service` | `ReconcileChild(k)`: Get from the cache, then Create, Update or leave alone |
| `updateStatus` | `UpdateStatus` |

`sObj` and `sCfg` are the locals `server` and `fullConfig`. The workqueue is the
set `sQ`: it merges equal keys, as the real one does. `Requeue`, `RequeueAfter` and
a returned error all put the key back; how long it waits is left out.

A configuration is the server's spec and the sequences of upstream and of server
blocks it was rendered from. Its hash is taken to be as good as itself (SHA-256). The
list order of the cache is arbitrary, upstreams are rendered as they come and
`sort.Slice` is not stable, so `Renderings` is the set of all orders of the upstreams
and all orders of the routes that respect priority. A reference of a route resolves
when the upstream is in the cached list (`ReferencesAreListed`); one that does not
fails the generation.

**NginxRouteController** likewise: `FetchRoute`, `RouteAddFinalizer`, `Trigger`,
`TriggerThenRemove` and `RouteRemoveFinalizer` (handleDeletion), and the writes of
the Ready condition, `RouteReady` and `RouteNotReady`. The Get of the server and its
touch are one step; a touch of a lagging copy is refused like any other write.

**NginxUpstreamController** has the same shape. `ResolveAndTrigger` is the Get of the
server, `resolveServiceEndpoints` and the touch: a server that is not there, or
Endpoints that are not, lead to a status that says so (`UpstreamNotReady`) and to no
requeue; a touch that fails ends the reconcile with an error. Endpoints that exist without
a ready address are a success with an empty list (`NoBackends`), and the upstream is
Ready. `ResolveServiceEndpoints` overwrites `spec.backends` of the reconciler's copy, as the code
does, beside its status; a copy may thus have a spec nobody wrote (`UpstreamCopy`).
`UpstreamReady` is `Status().Update`: `Reported` takes the status from the copy and everything
else from the object the API has. It puts the key back if there is discovery.

**Operator** interleaves the controllers, adds the watches (`ServerEvent`,
`RouteEvent`, `UpstreamEvent`, `ChildEvent`), the restart of the process, fairness and the
properties.

**ResourceLifecycle** is the abstract specification of one kind of custom resource
as its users see it, each operation acting on the resource as it *is*. What users ask
for - Create, Edit, RequestDeletion - is counted in `requests`; the operations nobody
asked for - Adopt, Normalise, Release - come in between and leave that count alone. So only
users ask for a deletion or for another spec. Adopt puts the finalizer on a live
resource, Release takes it off a dying one, and Adopt and Normalise may replace the zero values of
a spec by their defaults, and nothing else of it. `Operator` instantiates it three times with the
refinement mapping `Life`, which keeps spec, finalizer and deletion mark and drops uid and
status, and with `requests <- ops`. That controllers working from *remembered* copies implement it is what
optimistic concurrency is for.

**Reloader** has one action per program step: `Tick`, `ReadFile(f)` for every file
of the walk, `Compare`, `ValidateConfig` (`nginx -t`), `ReloadNginx` (parse, then
signal), `RecordReload`; `NginxLoads` is the master acting on the signal, later, and
reading the files once more. `WalkFails` and the failing disjuncts are the error
returns, a timeout after the signal is out among them. A hash is a function from
files to path and content, so a *torn* hash - one file old, another new - can occur.

**ConfigGenerator** is the assembly of the text as a sequence of tokens: blocks that
open and close, and directives that define or use a name or say what a location does.
What a directive says otherwise is left out. `Action` is the chain of the route
template that picks the first of several things a location declares, and
`ValidateNginxRoute` the count in the validator that is meant to keep it from having
to. Names are sequences of characters because `sanitizeName`
maps different ones to one.

In the controller modules the generator is the operator `Renderings` and the
validator the constant set `ValidServerSpecs` and the field `valid` of a route's and
an upstream's spec: a controller does not look into the text.

Some definitions are followed or preceded by one marked *mutant*: the same thing
with a bug one might write. `PROJECT.json` "mutants" pairs each property with one
that breaks it.

## Runs

Passing runs:

| Run | Question | Result |
|---|---|---|
| `lifecycle` | From a server, with a route, an upstream or neither, that do or do not exist yet, with zeros in their specs or without, one user operation and one failed or lost write at any moment: is every step of the three controllers one of `ResourceLifecycle`, every Ready condition of the spec it is about, and every route and upstream that is left alone in line? | `ServerLifecycle`, `RouteLifecycle`, `UpstreamLifecycle`, `ServerReadyForItsSpec`, `ReadyForAcceptedSpecs`, `SettledRoutesAreInLine`, `SettledUpstreamsAreInLine` hold |
| `convergence` | A route turns valid or makes the generation fail, a Service is scaled or loses its Endpoints, or the server is deleted under a route or an upstream, at any moment of the set-up | `ReadyIsServed`, `ConfigConverges`, `ReadyRoutesHaveServers`, `ReadyUpstreamsAreBacked` hold |
| `ownership` | A server is edited, deleted, created anew, any of its three children deleted, a write fails, the operator is restarted | `TypeOK`, `SettledServersAreInLine`, `NoOrphans`, `ConfigConverges`, `StatusConverges`, `PublishedHashIsDeployed` hold |
| `reloader_loop` | Files published three times at any moment of a check, a failing command, a restart | `TypeOK`, `NothingMissed`, `ChangesGetLoaded`, `GoodConfigsGetLoaded`, `BadConfigsAreReported` hold |
| `generated_config` | Every input of up to two routes, a location each that does nothing, one thing or several, limited or not, and up to two upstreams | `ReferencesResolve`, `RoutesInOrder`, `LocationsActAsDeclared` hold |

Runs that find the code at odds with its own words: `hot_loop`, `deleted_route`,
`reverted_edit`, `discovery`, `equal_priorities`, `early_ready`, `undone_edit`; see
[findings](#findings).

`PublishedHashIsDeployed` is less obvious than it looks: the status is written three
writes after the hash is computed, the Deployment may be deleted and the server
edited in between. It holds because the Deployment is *always* written, never
compared, and by this controller only. A Deployment that is left alone when the
cached copy looks right breaks it: that is its mutant.

`SettledServersAreInLine`, `SettledRoutesAreInLine` and `SettledUpstreamsAreInLine` are the
safety side of convergence, and need no fairness. A resource is *settled* when its key
is on no queue, no reconcile runs for it and no event of it is on its way: nothing will
make its controller look at it again. Then it must be *in line*: adopted, alive, with a
status that is right and, for a server, with its children, configuration and status
in agreement. A failure that is swallowed, a requeue that is left out, a watch that is
missing or a cached copy taken for the present leaves a resource settled and out of
line; each mutant is one of these. A route in line is Ready just if the *cache* has its
server: it may lag, but then an event of the server is on its way and will wake
the route. A server that is refused is in line with `Ready = "False"` and
whatever children it had.

`ReadyIsServed` relates two controllers that never meet. The route controller reports
Ready after it has touched the server, and the server's reconcile lists the routes later,
from the informer cache. The property holds because the route was reconciled
*from* that cache, whose copy is thus at least as new by then, and because the touch, if
nothing else, makes an event. It says nothing while the server is being worked on,
where it cannot hold, and nothing of a server whose spec is refused. The mutant lists only the
routes that are Ready already, which is written after the touch.

`StatusConverges` is claimed and checked for servers without routes only. With a
route, the unending touches of `hot_loop` each make a conflict of the status
update they fall in front of, and nothing in the code bounds how often that
happens; we assume nothing about it (see [fairness](#fairness)).

`ConfigConverges` speaks of servers whose routes and upstreams are all valid and
resolve. One that fails its own validation is rendered all the same at the next
reconcile of its server, but does not cause one; the code promises nothing here. It
allows the blocks of resources that are gone, which may stay behind: that is the
finding `deleted_route`, of upstreams as well as of routes.

`ReadyRoutesHaveServers` allows a Ready route whose server is dying: only when it
is gone is there an event that tells of it. `ReadyUpstreamsAreBacked` likewise, and it
promises nothing of an upstream that is *not* Ready: one whose look-up failed once is
not looked at again until some event, though its Endpoints may long be back.

`ServerLifecycle`, `RouteLifecycle` and `UpstreamLifecycle` say what remains true of a
controller that does not mean to change a spec and does: it never goes back to an
earlier spec, and what changes are zero values, to their defaults. That nothing changes at all is
refuted (`undone_edit`). `UpstreamLifecycle` is also where the copy the reconciler overwrites would
show: were it written with `Update`, which is the mutant, the discovered backends would replace
those of the user.

`ReadyForAcceptedSpecs` claims nothing of what an upstream has discovered. One whose Endpoints
exist and are empty is Ready with nothing found.

`LocationsActAsDeclared` has two halves. Routes are rendered whether the validator
accepts them or not, so the template must write one action at most for any input; and
where the validator accepts, that action is the one declared. The mutant is a
validator that does not count.

In `reloader_loop`, files are published from the very first, also before and during the walk
at the start. A reloader takes what it then finds for loaded, so that a change between
the start of NGINX and that walk, or during a restart of the reloader, is lost until the next one.
The code guarantees nothing better, and the properties claim nothing better:
`NothingMissed` is about a reloader that has recorded a reload (`reloaded`),
`GoodConfigsGetLoaded` and `BadConfigsAreReported` except what was `TakenForLoaded`, and
`ChangesGetLoaded` holds of any reloader that is up and remembers another hash.

### Bounds

`MaxOps` bounds user operations, `MaxFaults` failed or lost writes, `MaxCrashes`
restarts, `MaxEvents` the three together; the events of objects, queues, conflicts and
retries need no bound, since versions and queues are sets. `Starts` lists what exists
when a behaviour begins together with the kinds of operation users then make, so that
a run has each operation where it matters. Liveness is checked on the complete state
graph.

* *One server.* Two servers share nothing but the workqueue, which is fair, and a
  route that moves from one to the other: `deleted_route` has a second name, of a
  server that does not exist (yet), for its route to move to.
  Names matter over time rather than side by side: a server is deleted and created
  anew (`born`, `uid`).
* *One route or one upstream, two routes where order matters.* The controllers treat
  them as sets; two are what an unstable sort needs.
* *One Service with a list of backends, an empty one, or no Endpoints at all*: what was
  discovered is the present list, an old one, or cannot be had.
* *One zero of each kind* in `lifecycle`: a server with its log off (`v0`), a route of priority 0
  (`First`), a backend of weight 0 (`b0`). Each is what an Update would change.
* *One refused spec of each kind*, for routes in both runs also one that names an upstream
  that is not there, so that its server's next generation fails.
* *Refused servers.* Most behaviours of `lifecycle` have a server whose spec is refused: the
  routes and upstreams below it go through all of their own steps, and its children, in which none of
  the properties checked there of routes and upstreams has a part, stay away. Behaviours
  with an accepted server, and with one whose configuration fails, are among them too. `convergence` has
  a refused one where a route is edited or the server deleted under an upstream.
* *Two specs.* One edit tells old from new; `reverted_edit` needs the way back. Two
  specs of a server also stand for two port lists of its Service.
* *Two events.* In `ownership` and `reverted_edit` one operation may interrupt the
  repair of another, and in `ownership` a failed write or a restart may. In `lifecycle`
  a failed or lost write may meet any one operation. Operations fall at any moment, in
  `lifecycle` and `ownership` from before the finalizers are written
  (`Adopted = FALSE`) on. In `convergence` one event has to be enough: three
  controllers that repair at the same time are its subject, and it keeps the graph
  small enough for liveness. Faults and restarts are in `ownership`.
* A failed write puts the key back, and the next reconcile reads everything anew, so
  that a second failure meets the same situations.
* The other runs start with the finalizers in place, a cluster that an earlier
  process of the operator has adopted, to save those steps.
* *Reloader*: two files make a torn walk possible, with the only good directories
  being those where they match; three publications allow bad-good-bad and
  good-bad-good around one check.
* *Generator*: two routes are needed for an order, one location and one upstream for a
  reference, two upstream names for a dangling one, two other actions beside the reference for a
  location that declares too much. The generator never depends on more. Rate limits come and go;
  routes have TLS, of which no property checked speaks.

Deadlock is not checked where the system may really stop: an operator at rest has
nothing to do once users have used up `MaxOps`, and an input is generated once. The
reloader never stops, and its run checks for deadlock.

### Fairness

* Workers, informers, the garbage collector and the Deployment controller are
  weakly fair: they go on as long as they can.
* Taking a *given* key off the workqueue is strongly fair. The workqueue of
  controller-runtime is first-in first-out and one worker runs per controller: a
  waiting key is reached though others come and go. Where a run has only one key of a
  kind (`Rivals`) there is nothing to be fair between, and weak fairness is enough.
* `RetryFairness`: finalizer writes follow the Get they are based on at once and are
  retried until they succeed. If they are attempted for ever, some attempt gets
  through. Without it a behaviour in which a touch falls in between *every* time
  would count. The same is assumed of the touch that a refresh of an upstream makes
  right after its Get of the server: without it, the touches of others could keep an
  upstream from ever reporting what it found. `updateStatus` comes after three other
  API writes and is not covered.
* Users owe nothing and stop after `MaxOps`.
* Reloader: the ticker ticks, a check runs to its end, the master handles its
  signals.

## Findings

Each is a run that ends in a counterexample, of one property that quotes what the
repository says; `PROJECT.json` "findings" has the lines.

1. `hot_loop`. With one server and one route that nobody touches, the operator never
   rests: the touch of the server is an event that wakes the route controller, which
   touches the server.
2. `deleted_route`. The server is touched *before* the route is gone, and the list
   does not look at deletion timestamps: the reconcile may render the route once
   more, and no later event removes the block. A route that is moved to another server
   leaves its block in the same way: only the new server is touched. (If the loop of the first finding
   runs through another route, that hides it.)
3. `reverted_edit`. An edit is taken back while the cache lags: the ConfigMap is left
   alone because the *cached* one is as wanted, and pods start with the text in
   between under the hash of the first. The later repair of the ConfigMap restarts
   nothing, since a `subPath` mount does not follow.
4. `discovery`. Discovered backends go into the spec of the reconciler's own copy, and
   the only write that follows is one of the status: they are reported, and the server
   controller renders the backends the user wrote, or none.
5. `equal_priorities`. Equal priorities - the default - come in any order, and upstreams
   are not sorted at all: the hash changes and pods roll though nothing was changed.
6. `early_ready`. Ready turns True with the new hash while the pods still run the old
   one: readiness comes from a cached Deployment status older than the spec just
   written.
7. `undone_edit`. A user turns the access log of a server off; the next touch by one of
   its routes, which is to update an annotation, turns it on again: `false` is omitted
   from the JSON of the typed object and the CRD's default is `true`. No race is needed, and
   with a route that is touched again and again the edit never lasts. The finalizers do the same to
   a route of priority 0 or an upstream's weight 0.

One more was met that needs no model checker, and no run is spent on it (`PROJECT.json` "hazards",
generator.go:380): upstream and server blocks are appended after the `http` block is
closed, where NGINX does not know them; a location's rate limit uses a zone nobody defines; a
route with TLS and no Secret listens for TLS without a certificate; and `a-b` and `a.b`
share an upstream name.

## What is proved

Every theorem is about `Spec`, for every value of the constants under the module's
assumptions: any number of servers, routes, upstreams, specs, operations, faults and restarts.
The assumptions are those any cluster satisfies: specs come from the declared
sets, `Absent` is no object, and (`IsFiniteSet(Routes)`, `IsFiniteSet(Upstreams)`)
there are finitely many routes and upstreams to list.

**`OperatorProofs!TypeCorrect`** (`Spec => []TypeOK`). `TypeOK` is inductive. One lemma
per operator that writes (`PutServer`, `WriteChild`, ...), one per action, one for the
environment. The part that is not routine is `RenderingsTyped`: an order of a finite
set of blocks is a sequence of them.

**`LifecycleProofs!ServersLiveTheirLife`** (`Spec => ServerLifecycle`) and
**`RoutesLiveTheirLife`** (`Spec => RouteLifecycle`): the refinement. A step of a
controller is justified by what it *remembers*, a step of the abstract specification
by what *is*. The inductive invariant bridges the two:

* `ServerCopiesAreCurrent`: a holder listed in `srvFresh[s]` has the object as it is.
  Hence a write that was applied was made from the present object.
* `ServerStepFits`: what the running reconcile is about to do fits its copy. It
  removes a finalizer only from a copy that is being deleted and has it, and adds one
  only to a copy that is not.
* `DyingServersAreHeld`: an object being deleted that still exists has its finalizer,
  so that removing it is a Release and never a step in the void.

With these, every applied write of a controller maps to Adopt, Normalise or Release, or
changes nothing that `Life` keeps, and every user operation to Create, Edit or RequestDeletion. That
the touch of a server by the *route* and the *upstream* controller is a Normalise needs the same invariant: it
writes back the cached object, defaults filled in, and that object is the present one. The
proof for routes has the same plan (`RoutesFit`).

**`UpstreamLifecycleProofs!UpstreamsLiveTheirLife`** (`Spec => UpstreamLifecycle`). The plan
is the same (`UpstreamsFit`), but that a current copy *equals* the object is no longer true
once discovery has overwritten the backends in its spec. The invariant says which steps may
work on such a copy: only the last, `status`, and what it writes is `Reported`, of which
nothing but the status comes from the copy. There the invariant asks only that the copy and
the object `Agree` in all but the backends. `TypeOK` has the counterpart: in every other
step the copy is an object the API could have. The finalizer writes, which do take the spec
along, are made from copies that equal the object.

**`HashProofs!PublishedHashesAreDeployed`** (`Spec => PublishedHashIsDeployed`). The
invariant `HashesFit` adds that cached children that count as current are, and
`IsDeployed`: once a reconcile is past its Deployment, that Deployment carries
`sCfg` or is gone. No one else changes the `data` of a child - users and the
garbage collector delete, `Rollout` changes readiness - and a write that "succeeded"
without effect was made over a current copy that already carried it.

**`StatusProofs!ServersReadyForTheirSpec`** (`Spec => []ServerReadyForItsSpec`) and
**`ReadyIsForAcceptedSpecs`** (`Spec => []ReadyForAcceptedSpecs`). Controllers write whole
copies, spec and status together, which they took from caches that lag. So the invariant
(`ServersHonest`, `RoutesHonest`, `UpstreamsHonest`) claims the property of *every version*
there is of a resource - in the API, in the cache, in the copy of a reconcile - and
adds what a reconcile knows at each step: past validation its copy's spec is an
accepted one, past the generation `sCfg` is of that spec. An edit clears `seen`, that is,
it makes a generation no condition is about; so does an Update whose defaults change the
spec (`UpdatedServerHonest` and its like). That the status of a server lands on the
generation it was computed from needs no reasoning about freshness at all: it is
written with the copy it was computed from, or refused.

**`SettledProofs!SettledServers`**, **`SettledRoutes`** and **`SettledUpstreams`**
(`Spec => []SettledServersAreInLine` and so on). What is settled says nothing of how it
came to rest, so the invariant follows a reconcile from its Get to its end:

* `ServerRunsOnCurrent`: a reconcile whose key was *not* put back meanwhile, of a server
  whose cached copy is current, has itself a current copy. For if its copy was
  overtaken, then by a write whose event the cache has yet to see (it is not current), or
  has seen, in which case the event has put the key back.
* `DoneStaysDone`: under the same condition, the children already written are as they
  were written, unless an event of them is on its way. Whoever changes a child makes an event.
* `ServerPastFinalizer`: past its first steps a reconcile works on an adopted server, and
  calls a spec refused only if it is.

The last step of a reconcile then ends in one of three ways. It puts the key back; or
it has written, which makes an event; or its write was without effect, which the API
says only of a current copy that already had all of it. The third is where *settled*
begins, and with the invariants above everything is in line. Routes and upstreams go
the same way (`RoutesSettle`, `UpstreamsSettle`), with one more case: an event of the *server*
changes what their status should be, and `FindRoutesForServer` puts back all keys of
routes that the cache has - those it does not have are not settled.

**`SettledProofs!ReadyResourcesAreServed`** (`Spec => []ReadyIsServed`). A route counts as
*touched* from the moment its reconcile has touched the server until its spec is edited or
its Ready condition says otherwise. The invariant has two parts for routes, and the same two for
upstreams:

* `RoutesCached`: the cache has every touched route with the spec it has in the API. For
  the touch was followed by a write of the status only if the copy, taken from the cache,
  was current.
* `RoutesCarried`: for a touched route, either its server is to be looked at again -
  a key, or an event - or the configuration in `sCfg`, where a reconcile of the server is
  past its generation, or that of its status, where none is, has the block
  (`Carried`). A touch that succeeds makes an event; a server's reconcile that gets to
  `GenerateFullConfig` lists all that is cached, and `RenderingsHaveAll` says that each order of
  them has all of them; and the status is that of `sCfg` when the reconcile ends well.

Together with `SettledServers`, by which the ConfigMap of a settled server is that of its
status, this is the property. For upstreams `UpstreamsCached` has a third part: what
discovery changes in the reconciler's copy is not its status.

**`ConfigGeneratorProofs!ReferencesAlwaysResolve`**, **`RoutesAlwaysInOrder`** and
**`LocationsAlwaysAct`** (`Spec => []ReferencesResolve`, `[]RoutesInOrder`,
`[]LocationsActAsDeclared`), for inputs of any size. The invariant `Assembled` only says that the
text is not there yet, has failed with reason, or is `FullConfig` of an order that
`SortedOrders` allows; the work is in the text. It is a concatenation of sequences of sequences of
tokens, made with `FlattenSeq`, which is defined by recursion. The library's
induction theorems take an operator and cannot be instantiated here, so the
module derives an induction principle for *sets* of numbers from the well-foundedness
of finite sets under inclusion (`SetInduction`). With it, `FlattenSeq` is shown to lay out its
parts one after the other, at offsets that exist: each place of the whole belongs to
one part, and each token of a part has its place. What the properties say of places
and blocks - which server block comes first, in which location a directive stands -
follows from offsets.

**`ReloaderProofs!TypeCorrect`** (`Spec => []TypeOK`), and **`ReloaderProofs!NoConfigMissed`**
(`Spec => []NothingMissed`, given `Stamped`). `NothingMissed` is not
inductive. `Inv` adds that hashes held carry no later stamp than the present one
(`HashesAreOld`) and that, between the signal and its record, a hash which is still
current is loaded or about to be (`RecordedIsLoaded`). The argument is that a
publication makes a hash that none held can equal, so that a walk which read an
older file can never be mistaken for the present.

The hypothesis is needed: with `Stamped = FALSE`, a plain directory, TLC finds a
walk that reads files in the state of a later publication and a load in between.
`Stamped` is what the operator's pods have: the volume is a ConfigMap, whose
real files lie in a directory named for the publication, and the walk hashes paths.
Nothing is assumed of when files are published; what a reloader finds at its start
is outside the claim, not outside the model.

### Only model-checked

Liveness (`ConfigConverges`, `NoOrphans`, `StatusConverges`, `ReadyRoutesHaveServers`,
`ReadyUpstreamsAreBacked`, `ChangesGetLoaded`, `GoodConfigsGetLoaded`,
`BadConfigsAreReported`): fairness and ENABLED are out of the prover's reach. The
counterexamples are TLC's by nature. Every invariant and every safety property that a
passing run checks is proved.

## What is not modelled, and why

* **Validation rules** other than what a location does: stateless tests of fields,
  covered by `validator_test.go`; what matters to the controllers is only that some
  specs are refused.
* **Fields of the children** (ports, probes, security contexts, the load balancer
  fields and annotations of the Service), of which no property speaks. Which child
  depends on what, is modelled. Reading them for the model met with some that look
  wrong, which `PROJECT.json` "hazards" lists: probes of a port nothing need listen on,
  Service fields that no comparison looks at, specs that pass the validator and make
  objects the API refuses.
* **PodDisruptionBudget and autoscaler** of a server, which the repository's `README.md`
  names and no code builds.
* **Text of directives**, cache settings, the defaults of global settings:
  `generator_test.go` covers them. What of TLS and rate limits defines or uses a name is
  among the tokens, and no property is about it: see the end of [findings](#findings).
* **Fields with a default other than the one of each kind** that stands for them, and defaults inside
  a list the reconciler does not touch: `ServerDefaults` and its like are any functions on specs.
* **Counts of backends** in an upstream's status: reported, never read.
* **Replicas**: a Deployment is ready or it is not.
* **Leader election** is client-go's; one active process is taken for granted. A
  process that has lost its lease but not yet stopped would be a second writer, whose
  writes meet the same version checks.
* **How long** things wait: backoff, poll interval, `RequeueAfter`.
* **`/status` and the counters** of the reloader: reported, never read.
* **The reloader and the operator together**: the volume the reloader watches is a
  ConfigMap that `BuildConfDConfigMap` could build and nothing creates, while the
  rendered text goes into `nginx.conf`. Until the two meet in the code, the reloader is
  modelled over any directory.
* Deep copies (generated), version constants, chart and manifests (declarative).

## Plan

Done, in this order, the most important behaviour first: the environment and the
server and route controllers with their composition; the abstract life of a resource
and the refinement; the reloader; the generator; the proofs; the upstream controller
with service discovery, its composition with the other two, its refinement and proof;
what a location does, the validator that guards it, and TLS in the generator; what a Ready
condition is worth, what is left to do when nothing is due, and the proofs of both; the
proofs about the generator's text.

Next:

1. Two servers at work side by side, and routes and upstreams that move between them,
   in `convergence` (`moveUpstream` is an operation of `Cluster` that no run makes yet).
2. The children's fields as a module of their own: which edits of a spec reach which
   object, and which comparison misses them.
3. The volume between the resource manager and the reloader, once the code has one.
4. Theorems: the safety half of ownership - a child is only ever written for the owner
   that the reconcile saw.
