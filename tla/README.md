# Verification of resource-watcher-demo

The program watches every resource type of a Kubernetes cluster and keeps, in
memory, a graph of how the cluster's objects are connected (a Deployment to its
ReplicaSets, a Service to the Pods it selects, ...), so that connected objects
can be asked for in GraphQL.  This directory models the program's own code,
`main.go` and `graph/`, in TLA+; the vendored libraries are modelled as far as
that code depends on them.  TLC checks small instances, TLAPS proves theorems
for all of them.

Contents: 1 inventory; 2 plan; 3 modules and code; 4 runs; 5 bounds;
6 fairness; 7 proofs; 8 faulty variants; 9 what is not modelled.

## 1. Inventory

One process.  `main.go` adds three runnables to a controller-runtime manager:
the HTTP server, the type poller, and the configurator.  The configurator adds a
controller per resource type while the manager runs.  All of them meet in four
package variables (`graph/vars.go`): `objGraph`, `Schema`, `resourceChannel`
and `resourceTracker`.

| Component | Code | State | Operations | Talks to |
|---|---|---|---|---|
| Object graph | graph/graph.go:32-94 | `edges`, `ids`, a `sync.RWMutex` | `Update` | called by reconcilers |
| Graph readers | graph/graph.go:96-145 | worklist and visited set of each call | `Links`, `links`, `connectedOIDs` | called by GraphQL resolvers, read lock |
| Resource graph response | graph/graph.go:152-258 | the connections collected by one call | `ResourceGraph`, `connectedEdges` | called by `/graph`, read lock |
| Type discovery | graph/setup.go:57-125 | `resourceTracker`, `resourceChannel` (100 slots) | `PollNewResourceTypes`, `SetupGraphReconciler`, `SetupWithManager` | API discovery, manager |
| Reconciler | graph/reconciler.go | none of its own; work queue of its controller | `Reconcile` | API server, finder, object graph |
| Object finder | graph/lib.go | none | `ListConnectedObjectIDs`, `ResourcesFor`, `List`, ... | API server |
| References and selectors | graph/lib.go | none | `ParseResourceRefs`, `ExtractSelector`, `Namespaces`, ... | used by the finder |
| Object locator | graph/lib.go | none | `Get`, `Locate`, `getTheObject` | finder |
| GraphQL schema | graph/graphql.go | none | `find`, one resolver per edge label | `Links`, per object and field |
| Query execution | graph/setup.go:127-341 | buffer pool | `ExecGraphQLQuery`, `ExecRawQuery`, `ExecQuery`, `execRestQuery` | schema, API server |
| The manager's client | main.go:71-74, vendored | informers and their caches, the mapper's memory | `Get`, `Create`, `RESTMapping` | API server; asked by reconcilers, queries and pages |
| Page renderer | graph/renderer.go | none | `RenderLayout`, `RenderPageBlock` | query execution |
| HTTP and wiring | main.go | none | handlers, start-up | everything |
| Demonstrations | disc/, gql/, pdb-demo/, yaml-multi-line/ | none | - | - |

What is hard about it, and what makes each part correct:

* **Object graph.** An edge is stored twice, once at each end; a call must
  withdraw what its object declared earlier, including labels that are gone
  altogether, without touching what others declared; two objects may declare the
  same edge.  Correct means: the two halves agree; every edge is backed by a
  current declaration; no edge is lost except by withdrawal; every current
  declaration has its edge.  The last does not hold (findings below).
* **Graph readers.** Two walks over a graph full of circles (every edge is a
  circle), while other goroutines want to change it.  Correct means: the answer
  is exactly what is linked in one state of the graph; a call ends; callers do
  not starve writers.
* **Type discovery.** Three goroutines, a bounded channel, partial failures of
  discovery, a builder that starts a controller before it configures it, a watch
  whose error may go where nobody reads it, and a shutdown that can come at any
  moment.  Correct means: every served type gets one controller, is never forgotten
  on the way and is watched (not if its watch found no informer: section 4);
  everybody returns when cancelled (they do not: findings).
* **Reconciler.** Reads are of different moments; errors of lists are
  swallowed; deletions are ignored; only the declaring object's kind is watched.
* **Finder and locator.** Each connection type is written twice, forward (from
  its source) and backward (from its target), and the two must agree and mean what
  the descriptor says: labels, names or owners, in the right namespaces.  A locator
  walks over snapshots of objects that change behind its back, between the requests
  of one call too.
* **Queries and pages.** A query over several hops takes the lock once per
  object and hop, and its references are read from a cluster that has moved on,
  through informers that lag behind it; kinds are looked up in a mapper that has its
  own idea of what is served.  Correct means: an answer has everything that was linked
  and in sight all the time and nothing that never was.  A page is a sequence of queries, some of which create objects, and
  any step may fail: a view that is returned is complete, and a failed one leaves
  behind only what its blocks up to the failure have created.

The hazards of `PROJECT.json` name the lines.

## 2. Plan

Order of work, the most central behaviour first:

1. `ObjectGraph` over `DeclaredGraph`: the data structure everything else reads
   and writes.  *Done, with proofs.*
2. `GraphReaders`, which extends `ObjectGraph`: readers under the lock.
   *Done, with proofs.*
3. `Discovery`: poller, channel, configurator, controllers, shutdown. *Done,
   with proofs.*
4. `GraphSync`, composing the reconcilers with `ObjectGraph`: the cluster, lagging
   informers, the work queue with its retries and per-key exclusion, lists that
   are stale or fail.  *Done, with proofs.*
5. `ResourceGraph`: `resourceGraph` and `connectedEdges`.  *Done, with proofs.*
6. `Finder` and `Locator`: the four connection types in both directions, against
   the relation that a descriptor means; `Locate` over a changing cluster.  *Done,
   with proofs.*
7. `CachedClient`, what the manager's client answers, and over it `GraphQuery`:
   resolvers over several hops, the collection of references, and the
   reads, while graph and cluster change.  *Done, with proofs (in
   `PageRenderer_proofs`).*
8. `PageRenderer`, which composes the queries to views.  *Done, with proofs.*

Every safety property that a passing run checks is now stated by a theorem.  What is
left is an abstract specification of a query (one answer, pieced together from what
was linked at several times) that `GraphQuery` implements.

## 3. Modules and code

**`DeclaredGraph`** is what the graph promises: objects declare connections, and
the links are the symmetric closure of the declarations.

**`ObjectGraph`** is `edges`, `ids` and `Update`.  `Update` holds the write lock
throughout, so it is one action; `Relabel` says what it does to one label:
`LeftAlone` is the `Difference(conns).Len() == 0` shortcut (graph.go:46), `Unlink`
the two deletions (50-53, and 83-86 for labels that are gone), `Link` the two
insertions (57-73).  Absent map keys and empty sets are the same here; the head of
the module says why nothing can tell them apart.  `Targets` bounds what
an object may declare (the registry's descriptors); `ConnsOf` is every result
`ListConnectedObjectIDs` may then have.

**`GraphReaders`** adds readers.  `CallUpdate` is the call of `Lock`, after which
new readers wait (`MayRLock`), `LockedUpdate` the body once the readers have left
(`MayLock`).  `CallLinks` takes the read lock and starts the first walk, `Visit` is
one iteration of `connectedOIDs`, `SeedLinks` ends the walk along `offshoot` and
starts the one along the label from the object and its offshoots, `Return` ends
the call.  Map iteration order is a choice among all orderings.

**`Discovery`** is the poller (`Poll`, `Scan`, `Send`, `EndOfPoll`, `PollerStops`),
the configurator (`Receive`, `AddController`, `RefuseController`, `WatchType`), the
controllers as far as their start and watch can go wrong (`StartController`,
`SyncCache`, `SyncFails`, `AttachWatch`, `LoseWatch`, `ControllerEnds`) and the
manager's shutdown (`Signal`, `EngageStop`, `GracePeriodEnds`).  In this version of controller-runtime the builder calls
`Manager.Add` before `Watch`, and a running manager starts what is added, so
`Start` and `Watch` race.  A watch that comes first is started, and waited for, by
`Start`, whose error is the manager's (`syncing`).  One that comes after `Start` is
left to a goroutine (`attaching`): if the cache has no informer for the type, because
the mapper does not know it (any more, or yet), the goroutine offers its error on a
channel that only `Start` would have read, and the controller, without objects or
error, is `deaf` for good.  `RefuseController` is the error of `Manager.Add` after the
stop procedure, the only one with which the configurator returns.  The stop procedure keeps the manager's mutex while it
waits for the runnables, so `Manager.Add` blocks.  Discovery selects one version
of each kind, the preferred one unless its list failed (`Selections`).

**`ResourceGraph`** is one call of `resourceGraph` after another, with Updates in
between.  `ConnectedEdges` is an iteration of `connectedEdges`, for any object in the
worklist; `WalkEnds` goes to the next label, in any order, since `ListEdgeLabels`
ranges over a map.  `Key` is the normal form of an edge (graph.go:234-245), `Skip` the
kinds of the offshoots, which the walks along other labels leave out.

**`GraphSync`** is `Reconcile` and `ListConnectedObjectIDs` with what feeds them.
`Change` is the cluster's, `SyncInformer`, `Deliver` and `Resync` are the informer of
a kind: its first list, an event, the repetition of everything each ten hours.  A
controller watches its own kind only, so an event enqueues the object it is about
and nobody else.  `Take` is the work queue handing an object to the one worker of its
kind; the queue sets an object aside that becomes dirty while it is processed.
`GetObject` and `ListConnection` read caches that lag, each in its own way, except
the kinds of `Live` (Pods, by `ClientDisableCacheFor`); `UpdateGraph` ends with
`ObjectGraph`'s `Update`.  `GetFails` leads to a rate-limited retry (`RetryAfter`),
`ListFails` does not: whenever a connection gives no objects, whatever the error,
`ListConnectedObjectIDs` goes on to the next (lib.go:171).  An object that is gone
is dropped from the queue; what it declared stays in the graph.  Objects are
abstracted to what connections look at: a value selects other values (`Match`) and
names objects (`Names`), and if one named object is not found the whole connection
is empty (lib.go:297-300, 368-371, 676-679).  The queue's order is abstracted to a
set; `unheeded` is a history variable for the statement of `OwnChangesHeeded`.

**`Finder`** is `ResourcesFor` as an operator: `Forward` and `Backward` have one
operator for each type of connection (`Selected`, `Named`, `Owners`, `Referenced`;
`Selecting`, `Naming`, `Children`, `Referring`).  An object is its identity, its UID
(`births`) and its *look*, what connections may see of it: labels, a selector, a
namespace selector, owners, and the rows that its reference paths yield.  JSON paths,
CSV and name templates are thus data.  Results are sets, since their order and
repetitions are lost in `appendObjects`, and come with the error that ends the call;
a selector that is absent selects nothing, one that cannot be read is an error, and an
object that is named and not there makes the whole result a NotFound.  A forward call
makes a request for each namespace, owner or reference: `Asks` are its requests, `Ask`
is the answer of one, and `ResourcesFor` what the call returns if nothing changes
between them (`Together`; `InTurn` for references, which are followed in order).

**`Locator`** is `Locate` with `List`, `Get` and `getTheObject`.  `Locate` reads
the source and resolves the path to connections with directions, `Follow` is one
request of a call of `ResourcesFor`, `NextHop` the end of a hop or of the walk.
`asking` is the object whose call has begun, `left` the requests it has yet to make and
`gathered` what it has found; a NotFound drops all of it, another error ends `Locate`.
`Change` is the cluster's, between any two requests; an object that is created again
has another UID.  Nothing in the repository calls `Locate`: the client here reads what
there is when it is asked.

**`CachedClient`** is what `mgr.GetClient()` answers.  The mapper (`mapped`) keeps kinds
that are withdrawn; a kind it does not know makes it load everything anew, unless it
has spent its five reloads (dynamicrestmapper.go:178), and without the groups whose
discovery fails just then (restmapper/discovery.go:147-174 drops the error): so a
lookup succeeds (`Maps`) or has no match (`Lacks`), and there may be no match for a
kind that is served.  `Get` reads an informer, one for each kind and form of objects
(unstructured, or their metadata), except for the kinds of `Live`, which it reads from
the API server.  The first `Get` of a kind opens the informer and waits for its list
with `context.TODO()`, without a deadline (`Ready`, `SyncInformer`); after that its
cache lags behind the cluster (`Sight`, `Deliver`).

**`GraphQuery`** extends `ObjectGraph` by the queries.  `Resolve` is one call of a
label's resolver, for any branch of the answer in any order: graphql-go executes
fields one after the other, and a branch's lists depend on that branch only.  It
reads the graph in one step, which `LinksCorrect` (in `GraphReaders_proofs`) and
`ResolversReadLinks` (in `PageRenderer_proofs`) justify.
`Collect` is `extractRefs`, `MapTarget` and `Expand` are `ExecGraphQLQuery`'s second
half, `CreateAnswer` is `execRestQuery`; if the query has a template, `MapSource` looks
up the source's kind and `ReadSource` reads its metadata first (`renderRESTQuery`).
`UpdateGraph`, `CreateOrDelete` and `Serve` change the world between any two of these
steps, `LookupElsewhere` is somebody else's reload of the mapper, `Sync` and `Catch` are
the informers'.  `RequestFails` is any error of a request; one about a kind that is not
served, or not known to the mapper any more, may fail at any time.  The history
variables remember what was linked and what the client had in sight at all times, and
at some time, since the query began.

**`PageRenderer`** composes `GraphQuery`'s steps to `RenderLayout`.  `Begin` looks up the
source's kind, `FindSource` reads the source, or `FailToFind`.  Blocks are chosen
(`Chosen`), or given one by one (`RenderPageBlock`), and rendered in order:
`RenderConnection` shows a connection to a kind without a match as missing, or starts
its query, `ShowAnswer` takes the answer.  `FailToMap` and `FailToConvert` are the
errors that belong to the renderer itself; `SyncAwaited` is the informer that a
request waits for.

`MC...` modules hold the instances; `..._proofs` modules the theorems, those about
`Finder` in `Locator_proofs` and those about `GraphQuery` in `PageRenderer_proofs`.
**`NaturalRecursion`** has induction and recursion over an interval, which the latter
two need for paths, queries and layouts of any length.

## 4. Runs

| Run | Question | Outcome |
|---|---|---|
| `graph_triple` | Three objects that may declare one another and themselves in every way: are the halves of edges always together (`Symmetric`), is every edge backed by a current declaration (`EdgesDeclared`), does an edge vanish only when one of its ends withdraws it (`LostOnlyIfWithdrawn`)? | hold |
| `graph_steady` | A rolling update without mutual declarations and without declarations that only grow: does `Update` implement `DeclaredGraph`? | holds |
| `graph_growth` | Is every declaration in the graph (`Complete`)? | **violated**, finding 1 |
| `graph_mutual` | The same, with two objects that declare each other and no pure growth | **violated**, finding 2 |
| `readers` | Do two concurrent calls of `Links` answer with exactly what is linked (`AnswersAreSnapshots`), symmetrically for direct labels (`DirectLinksMutual`), and return (`LinksReturns`), with circles in the graph and Updates waiting?  Do Updates get their turn (`UpdatesAreApplied`)? | hold |
| `resource_graph` | Does a response have exactly the connections that belong to the object (`ResponseExact`), the same for each of its offshoots (`OffshootsAgree`), and none of somebody else's objects (`NoStrangers`)?  Does the call return (`ResourceGraphReturns`)? | hold |
| `discovery` | Is a recorded type always in exactly one place (`EachTypeInOnePlace`), does it get only one controller (`ControllersStartOnce`), and does every preferred type that stays served come to be watched (`ServedTypesWatched`), under failing discovery, both orders of `Start` and `Watch`, and shutdown at any time? | hold, the last but for watches that are lost |
| `shutdown` | Given time, does the poller return when cancelled (`PollerReturns`)? | **violated**, finding 3 |
| `sync` | Is an object's own change ever missed: with nothing left to do for it, does the graph hold what its connections give now, unless what it connects to has changed since, or a list failed (`OwnChangesHeeded`)?  Do declarations follow a cluster that comes to rest (`DeclarationsFollow`), and are all remaining edges accounted for by one of their ends (`EdgesFollow`)? | hold, the latter two thanks to resyncs |
| `sync_failed` | Is an object whose connections could not be listed queued again (`FailedListsRetried`)? | **violated**, finding 4 |
| `finder` | In every state of the cluster, does `ResourcesFor` give forward what the connection means (`LinksExact`), and backward the same pairs (`DirectionsAgree`)?  While two objects change during a walk, does `Locate` find what there was all the time (`LocateMissesNothing`), and nothing to which no hops led, each at some time (`LocateInventsNothing`)? | hold, with the exceptions below |
| `pages` | Does an answer lie between what was linked, and in the client's sight, always and ever (`RefsBetween`, `ObjectsAreAnswers`)?  Is a view complete (`ViewComplete`), are creations neither repeated nor made in vain (`CreationsAccounted`), does only a kind that the mapper did not know show as missing (`MissingWasMissing`), and does every request return (`PageReturns`)? | hold, the last but for waits for a kind that is not served |

Findings:

1. *Growth is taken for no change* (graph.go:46).  `oldConns.Difference(conns)` is
   empty also when `conns` has more.  The label is skipped, `ids` is updated all the
   same, and the new edge is not made, now or at any later reconciliation with
   the same result.  A Deployment whose second ReplicaSet appears while the first
   remains never gets linked to it by its own declaration.  (The ReplicaSet's
   declaration of its owner usually makes the edge from the other side.)
2. *One end's withdrawal deletes the other's edge* (graph.go:50-53).  When a
   Deployment and its ReplicaSet declare each other and one stops, the edge goes;
   the other's next `Update` with unchanged connections does not restore it.
3. *Poller and configurator do not return* (setup.go:97, 114).  The poller sends
   without a `select` on its context: with the channel full and the configurator in
   `Manager.Add`, which waits for the mutex that the stop procedure holds, the send
   blocks.  The configurator ignores its context, and the channel it ranges over is
   closed only after `PollImmediateUntil` has returned nil, which it never does with
   a condition that is never true.  The manager's grace period of 30 seconds ends
   the wait, with an error.
4. *A failed list is not retried* (lib.go:171).  The condition for going on to the
   next connection is true of every failed list, because none returns objects with
   its error.  `Reconcile` reports success, the queue forgets the object, and
   `Update` has withdrawn the edges of the failed connection.  The comment in
   `Reconcile` (reconciler.go:59-61) makes an exception of not-found errors only.
   Only the next resync, after up to ten hours, repairs the graph.

Where the finder's two directions do *not* agree, `DirectionsAgree` says so in its
hypotheses; no doc, comment or test of the repository decides which is meant:

* `Replaced`: an owner that was deleted and created again is found by name forward
  (findOwners, lib.go:669-692) and not by UID backward (findChildren, lib.go:722);
* `Elsewhere`: a reference that states a namespace is followed into it forward
  (lib.go:353-363), while backward the stated namespace is not compared with the
  object's (lib.go:549-570); and a connection whose namespace path is
  `metadata.namespace` lists, backward, the object's own namespace only
  (lib.go:496-499), whatever namespace the reference states.  The latter came up in
  the proof: 48 of the vendored descriptors have such a connection, among them
  RoleBinding, whose subjects state a namespace, so that from a ServiceAccount the
  RoleBindings of other namespaces are not found.  The code has a `TODO: check that
  namespacePath must be empty` in both directions (lib.go:310, 489), which says neither;
* and one direction may fail where the other answers: forward on an object that
  is named and missing, backward on any object in reach whose selector cannot be read.

`LocateInventsNothing` says of each hop to an object found that it was there at some
time (`Ever`): a single request of its start would have led to its end.  It does not say
that a whole call would have, nor that all hops to the object were there at one time,
because neither holds: an object that names y1 and y2, of which only y1 is there,
leads nowhere; if y1 is read, then deleted and y2 created, and then y2 read, it has led
to both.  There is an exception besides (`Mixed`): the old look of an object may be
matched with the new looks of others, so a hop from an object that changed together
with another may join a pair that never was; and so may a hop from a kind to itself,
where the other is the same object.  (No vendored descriptor has such a connection.)

Three more properties make exceptions that the code forces on them.  Nothing in the
repository says otherwise, so they are not findings, but a reader should know them:

* `ServedTypesWatched` ends in `watching` or `deaf`: a controller whose watch came after
  its start, and found no informer for its type, stays without one, although the type
  be served ever after, and the tracker keeps later polls from making up for it;
* `MissingWasMissing` is about what the mapper knew.  A kind that is served all the time
  is shown as missing if the mapper was loaded without its group, or before the kind
  was installed, and may not be loaded again just yet;
* `PageReturns` excepts a request that has come to wait for an informer of a kind that is
  not served (`Stranded`): the wait has no deadline.

`CHECK_DEADLOCK FALSE` in the runs of `Discovery`: the process really ends.

## 5. Bounds

* Graph: three objects suffice for every relation an `Update` can have to an edge
  (at the source, at the target, at neither), and `Triple` lets every object
  declare every subset, itself included.  Labels are independent in the code
  except for the second loop, which two labels in `graph_steady` exercise.
* Readers: a circle of three has objects that are queued twice, and answers that
  are found only through the offshoots.  Two readers and one waiting writer are all
  the lock can tell apart: a second writer waits for the first.
* ResourceGraph: two Pods, of which the ReplicaSet may own none, one or both, with a
  Service and a Node in common; the Ingress is a second step behind the Service.  Two
  labels besides offshoot show that a walk starts afresh.
* Discovery: a kind with two versions and a kind with one; a channel of one slot
  instead of 100, so that it is full early.  Pollers and configurators are
  singletons in the code too.  Whether a type has an informer when it is asked for is
  left open at each `LoseWatch` and `SyncFails`.  There is no ignored type in this instance (they are
  in the theorems).
* GraphSync: a Deployment and its ReplicaSet, connected in both directions, by a
  selector and by name; two values and the absence of an object.  `sync` reads the
  Deployment live and the ReplicaSet from the cache, `sync_failed` has a ReplicaSet and
  a Pod, live as in `main.go`.  One change (`MaxChanges`) and one failure (`MaxFailures`), each at any
  step of a reconciliation, let an object be deleted or changed while it is looked at,
  and be let down.  The theorems hold for all bounds.
* Finder: sixteen objects of twelve kinds, and a connection for each type and each way
  of naming namespaces, modelled on the registry's descriptors (a Service's Pods, a
  ServiceMonitor's Services, a ReplicaSet's Pods and its owner, scale targets, service
  accounts of Pods and of bindings, the AppBinding and the generic view of a database, with
  a view whose name does not fit the template).  Two Pods and two
  Services have the same name in two namespaces.  From the usual world two changes lead
  to every pair of unusual looks: selectors that are empty, absent or malformed, names
  that are not there, owners that were created again.  The monitor asks for two
  namespaces, and the ClusterRoleBinding has several subjects, of which the first is
  there and another is not at first: calls of more than one request, between which
  the changes come too.  The paths have three hops, two, one and none, both
  directions, a wrong turn, and a source by name.
* Pages: a Deployment, a ReplicaSet, a Pod and a Service with the Pod's name, which
  tells references from objects.  There are three beginnings: all is well; there is no
  Pod, and a Service in the cache only; ReplicaSets have no informer yet, and the mapper
  has lost the core group, which is the one that a reload may lose.  Pods are read live,
  as in `main.go`, the other kinds through informers that lag by any number of changes.
  Queries have one hop and two, where two branches find different things, an error in
  the second hop, and a REST query with a template.
  The layout has a block of each kind, two of them creating objects, the last of which
  comes after a query that may fail.  Two changes or failures (`MaxChanges`): one
  between two hops and one before the reads, or a failure after a change.  One request
  is served at a time: requests share nothing but the graph, the cluster, the mapper and
  the informers, which change on their own here (`LookupElsewhere`, `Sync`).

`MaxChanges` and `MaxFailures` are the only bounds on counters; `created` is reset with each
request, `births` and `behind` are bounded by `MaxChanges`.

## 6. Fairness

* `GraphReaders`: the steps of a walk and the entry of a waiting writer are weakly
  fair.  They are loop bodies without blocking operations and a lock that,
  according to `sync.RWMutex`, readers cannot keep from a waiting writer.  Calls
  themselves are not fair: nobody need ask.
* `ResourceGraph`: a call that has begun goes on; its loops do not block.
* `Discovery`: goroutines that can run do (weak fairness); the select between
  tick and cancellation in the poll is random, so neither wins for ever (strong
  fairness of `PollCompletely` and `PollerStops`); discovery is assumed to succeed in
  full infinitely often if it is tried infinitely often, for otherwise nothing
  can be promised about what is never listed.  A cache sync of a type that remains
  served succeeds eventually unless it fails, by the two-minute timeout or for want of
  an informer; a watch that is attached after the start likewise, unless it is lost,
  which is never assumed to happen.  The end
  of the grace period, the signal and the API server's changes are not fair.
  `PatientSpec` asks whether runnables return by themselves, so it never lets the
  grace period end.
* `PageRenderer`: a request that is served goes on (`WF(Render)`).  Its steps are the
  program's own and requests that return or fail; the only ones that wait are reads of
  a kind whose informer has not listed it, and that informer lists the kind as long
  as it is served (`WF(SyncAwaited)`).  A kind that is withdrawn is not listed, and
  nothing ends the wait then.  New requests, changes, failures and events of the
  informers are not fair.
* `GraphSync`: informers deliver and workers run (weak fairness), and a delayed retry
  comes.  `Take` is strongly fair because the queue is first in, first out, so a
  queued object is not passed over for ever though its worker is busy time and
  again.  Resyncs keep coming because controller-runtime's default `SyncPeriod` is
  ten hours and `main.go` sets no other.  Changes and failures are not fair.

## 7. Proofs

The `_proofs` modules hold for every set of objects, kinds, labels, readers and
types, every capacity of the channel, every path, query and layout, and every number
of changes and failures.

* `ObjectGraph_proofs` (from `TargetsAssumption`).  The lemma `UpdateEdges` says
  pointwise what an `Update` does to an edge: nothing, if the edge does not touch
  `src` or the label is left alone; otherwise the edge is there if `src` declares it
  now, or if it was there and `src` did not declare it.  From it follow
  `TypeCorrect`, `EdgesSymmetric`, `NoPhantomEdges` and `NothingLostByAccident`, each
  inductive with type correctness (and, for phantom edges, symmetry).
  `SteadyRefines`: if no two objects can declare each other (`OneWay`) and no
  declaration only grows, then `edges` *is* the symmetric closure of `ids`
  (`Exact`, the inductive invariant), so `Update` implements `DeclaredGraph`.
* `GraphReaders_proofs` (from `FiniteAssumption`, `LabelsAssumption`).
  `ReadersAreInvisible`: every step of the readers is an `Update` or a stutter
  of `ObjectGraph`, so what is proved there carries over.  `LinksCorrect`: the
  inductive invariant `WalkInv` is the loop invariant of `connectedOIDs`: the
  seeds are in the frontier (processed or queued), the neighbours of what is
  processed are in the frontier, and the frontier is within what is reachable;
  with an empty queue, processed is exactly what is reachable.  It survives
  `LockedUpdate` only because nobody is in a walk then.  `LinksMutual` follows
  from the symmetry of the graph.
* `ResourceGraph_proofs` (from `LabelsAssumption`, `KindsAssumption`,
  `TargetsAssumption`).  `WalkInv` is the loop invariant of `connectedEdges`, with what
  the earlier walks have left in `connections` (`Earlier`) and what this one has added
  so far; `ResourceGraphCorrect` follows when the last walk ends.  `NoStrangersShown`
  holds because a path that keeps clear of the offshoots' kinds ends in an offshoot
  only if it has not left them.  `FamilyAnswersAlike` needs the graph's symmetry, which
  comes from `ObjectGraph_proofs` by `RequestsAreInvisible`.
* `Discovery_proofs` (from `DiscoveryAssumption`).  `NoTypeLostOrRepeated` needs,
  besides type correctness, `Held`: `unsent` and `received` hold exactly one type in
  the states where poller and configurator have one in hand, and which state its
  controller is in.  `NoSecondController` follows: a controller is created only
  for a type in `received` that has none.
* `GraphSync_proofs` (from `SyncAssumption`, `TargetsOfKinds`, `IdleAssumption`, and
  `TargetsAssumption`).  `OwnChangesAreHeeded` is not inductive: it says nothing of
  an object in a worker's hands.  `Heed` adds that: unless the object has been let
  down since it was taken up, or an event for it is pending, the value the worker
  holds is what the client would answer now, and what it has found so far is what
  the listed connections would give now.  `WorkersOK` says that a worker only finds
  what the descriptors allow, whence `SyncRefinesGraph`: every reconciliation is a
  step of `ObjectGraph`, and its theorems hold here too (`SyncedGraph`).

* `Locator_proofs` (from `FinderAssumption`, `LooksAssumption`, `LocatorAssumption`,
  `EdgesAssumption`).
  - `LinksAreExact` and `DirectionsAlwaysAgree` are about `ResourcesFor` in any state of
    a cluster, so all that is invariant is the shape of the cluster (`ClusterOK`).  Each
    type of connection has a lemma for each direction: which objects the code's loops
    give, in terms of labels, names and owners (`SelectedExact`, `NamedExact`,
    `OwnersExact`, `ReferencedExact`; `SelectingExact`, `NamingExact`, `ChildrenExact`,
    `ReferringExact`).  References need `TurnsTaken` and `JudgedInTurn` besides: a row
    that decides ends the loop over rows and paths, and forward the first missing object
    ends everything.
  - `LocatorTypeCorrect`: `LocatorInv` says that the hops of a walk are chained
    (`ResolvedChain`, by induction on the path), that what is in hand are snapshots
    of the kinds where the hop starts and ends, and (`CallInv`) that what a call has yet
    to ask is part of what it asks.
  - `NothingMissed` and `NothingInvented` compare two moments.  `HistoryInv` says that
    an object in hand that has not changed is as it was read, and that what is shown to
    one that changed alone was joined to it before; the lemmas `SameRead`, `SameHop` and
    `SameLinks` say what a change of other objects leaves alone.  The bounds themselves are fixed points,
    so the invariants `NoneMissed` and `NoneInvented` speak of every family of sets, one
    for each hop, that is closed under the pairs (`Within`, `Around`); the levels of `Via`
    are such a family (`ViaFamily`), which gives the properties.
  - That a call goes on while the cluster changes makes each of them say something of
    the objects gathered.  `NoneInvented`: each was shown by a request that the call made
    (`ShownBefore`, `FollowedKnown`), so its hop is in `Ever` or mixed.  `NoneMissed` needs
    `NoneForgotten`: of the objects to which the call's object was joined all the time
    (`Standing`), each is gathered already or is what one of the requests left will
    show (`Hits`); `CallFinds`, by type of connection, says that a call's requests
    together show all that `ResourcesFor` would give, and `FollowedFinds` that a call
    which ends has none of them left out.
* `PageRenderer_proofs` (from `QueryAssumption`, `PageAssumption`, `TargetsAssumption`).
  - `PageTypeCorrect`: `TypeInv` says in which states of a page which states of a query
    may be, and whose query it is.
  - `ViewsComplete`: `shown` and `left` together are `Chosen` (`ProgressInv`).
  - `NoStrayCreations`: `created` is the number of REST blocks shown, and one more
    exactly while the REST query of the next block has been answered and not shown,
    or has failed after it created its object (`CreationInv`).
  - `NothingMissingByMistake`: `lacked` has what the mapper does not know now
    (`MissingInv`), and a kind is not shown as missing unless it is in there.
  - `QueriesFindTheRefs`: `ReachedInv` says, of every family of sets that has the
    source and is closed under what was linked at some time, that it covers the tree and
    the references found (`NoneBeyond`); and of every family that covers what is still
    to be resolved and is closed under what was linked all the time, that it has, with
    the references found, all that the query must find (`NoneMissed`).  To resolve
    one object of the tree preserves either because `Links` is then between `always`
    and `ever` (`HistoryInv`).
  - `QueriesFindTheObjects`: `ReadInv`, the same for the references that have been read,
    whose objects are in the client's sight at the moment of the read, and so between
    `present` and the complement of `gone`.
  - `ResolversReadLinks`: `Links`, here a function of as many steps as there are
    objects, is `Linked` of `GraphReaders`, there an intersection of closed sets: each
    step adds an object until none is left to add (`WalkWidens`).  With `LinksCorrect` it
    makes one step of a resolver stand for the two walks under the lock.
  - `QueriedGraph`: every step is, of the graph, an `Update` or none, so the graph
    stays symmetric and free of phantom edges, and loses nothing by accident, though
    it starts out with every object reconciled.

The assumptions about constants are what the code, the API server or the vendored
data grant.  `LooksAssumption` is Kubernetes': an owner is in its dependant's
namespace or in none, and a reference to it says its kind and name; no
namespace is called "".  `EdgesAssumption` is a property of data: it holds of the
connections in all 271 vendored descriptors.  `PageAssumption`, `QueryAssumption`
and `LocatorAssumption` say that layouts and paths are lists, and requests well formed.
TLC evaluates each of them in the runs.

Only model-checked: the liveness properties (`LinksReturns`, `UpdatesAreApplied`,
`ServedTypesWatched`, `DeclarationsFollow`, `EdgesFollow`,
`ResourceGraphReturns`, `PageReturns`), which need fairness and `ENABLED`; and the
violations.  The provers do not see through recursive operators and the folds of the
library, nor can they use an induction theorem that takes a predicate as its
parameter.  What must be proved by induction (paths, queries, layouts, loops over
references) is therefore a recursive function over an interval here, whose
definition `IntervalRecursion` justifies and whose properties `IntervalInduction` gives,
as sets of numbers.

## 8. Faulty variants

The definitions commented "Faulty" are forms the code might have had with a bug
(a missing back edge, a forgotten second loop, a lock not taken, a tracker not
consulted, a send that gives up).  They are not used by the specifications;
substituting one for the definition after it violates the property
`PROJECT.json` names for it.

## 9. Not modelled

* String formats (OIDs, templates, JSON paths, CSV), the HTTP layer, the rows of
  tables and logging: no property here is about them.  In particular `evalJsonPath`,
  `Extract` and set-based selector requirements (`matchExpressions`) are part of a look.
  `ExtractName` is the inverse of a name template; that a dot in a template matches any
  character, since the template is compiled as a regular expression, is left out: no two
  kinds of the registry have names that differ only there.
* `ListConnectedResources` and `ListConnectedPartials`: nothing in the repository
  calls them, and they change no state.
* `main.go`: its handlers make one call with fixed arguments and print the result.
* The vendored descriptor registry: its effect is `Targets`, and the connections
  of `MCLocator` are modelled on it.
* The demonstrations in disc/, gql/, pdb-demo/ and yaml-multi-line/: straight-line
  programs without state.
