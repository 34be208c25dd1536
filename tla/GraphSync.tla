------------------------------ MODULE GraphSync ------------------------------
(***************************************************************************)
(* How the graph follows the cluster: Reconcile (graph/reconciler.go) and  *)
(* ListConnectedObjectIDs (graph/lib.go), one worker per kind, with the    *)
(* informers, the work queue and the client that feed them.                *)
(*                                                                         *)
(* An object is abstracted to a value: whatever of it connections look at  *)
(* (labels, selector, owners, references).  A connection of kind k finds   *)
(* the objects of its target kind whose value matches the one that         *)
(* Reconcile has read of its own object, or those that it names (owners,   *)
(* references).  The connections are read one by one, from informers that  *)
(* lag behind the cluster each in its own way; kinds in Live are read from *)
(* the API server itself (ClientDisableCacheFor).                          *)
(***************************************************************************)
EXTENDS ObjectGraph, Integers

CONSTANTS
  Kind,        \* the kinds that have a controller
  KindOf,      \* KindOf[x]: the kind of object x
  Live,        \* the kinds whose objects are not read from a cache
  Connections, \* Connections[k]: the connections of k's descriptor, one per
               \* target kind and set of labels
  Value,       \* what an object may look like
  Absent,      \* the object does not exist
  Match,       \* the pairs <<v, w>> such that v's connections select w
  Names,       \* the pairs <<v, y>> such that v's connections name object y
  Idle,        \* a worker that is waiting for the queue
  MaxChanges,  \* bound on the changes of the cluster
  MaxFailures  \* bound on the requests that fail

\* A connection of a descriptor: by name (OwnedBy, MatchName, MatchRef), or by
\* a selector.
Connection == [to : Kind, labels : SUBSET EdgeLabel, byName : BOOLEAN]

ASSUME SyncAssumption ==
  /\ KindOf \in [OID -> Kind]
  /\ Live \subseteq Kind
  /\ Connections \in [Kind -> SUBSET Connection]
  /\ Absent \notin Value
  /\ Match \subseteq Value \X Value
  /\ Names \subseteq Value \X OID
  /\ MaxChanges \in Nat /\ MaxFailures \in Nat

\* What the descriptors allow an object to be connected to.
ASSUME TargetsOfKinds ==
  \A x, y \in OID : \A l \in EdgeLabel :
    y \in Targets[x][l] <=> \E c \in Connections[KindOf[x]] : c.to = KindOf[y] /\ l \in c.labels

VARIABLES
  cluster,     \* cluster[x]: the value of x, or Absent
  cache,       \* cache[x]: what the informer of x's kind knows of x
  synced,      \* the kinds whose informer has its first list
  undelivered, \* objects with a change that the informer has not seen
  dirty,       \* objects queued, or to be queued when their worker is done
  retrying,    \* objects that come back to the queue after a delay
  worker,      \* worker[k]: the reconciliation in progress, or Idle
  changes,     \* the changes so far
  failures,    \* the failed requests so far
  unheeded     \* history: objects that something they may be connected to, or
               \* a failed list, has let down since they were last taken up

queueVars == <<dirty, retrying, worker>>
graphVars == <<edges, ids>>
syncVars  == <<graphVars, cluster, cache, synced, undelivered, queueVars, changes, failures, unheeded>>

Objects(k) == {x \in OID : KindOf[x] = k}

\* A reconciliation of x: "get" before x is read; then view is what was read,
\* todo the connections not yet listed, conns what the others have found.
Reconciliation ==
  [src : OID, pc : {"get"}]
    \cup [src : OID, pc : {"list"}, view : Value,
          todo : SUBSET Connection, conns : Conns]

ASSUME IdleAssumption == Idle \notin Reconciliation

SyncInit ==
  /\ Init
  /\ cluster     \in [OID -> Value \cup {Absent}]
  /\ cache       = [x \in OID |-> Absent]
  /\ synced      = {}
  /\ undelivered = {}
  /\ dirty       = {}
  /\ retrying    = {}
  /\ worker      = [k \in Kind |-> Idle]
  /\ changes     = 0
  /\ failures    = 0
  /\ unheeded    = {}

\* What the client answers now about y.
Seen(y) == IF KindOf[y] \in Live THEN cluster[y] ELSE cache[y]

\* The objects that may find y.
Finders(y) == {x \in OID : \E c \in Connections[KindOf[x]] : c.to = KindOf[y]}

Selected(v, c) == {y \in OID : KindOf[y] = c.to /\ <<v, Seen(y)>> \in Match}
Named(v, c)    == {y \in OID : KindOf[y] = c.to /\ <<v, y>> \in Names}

\* ResourcesFor: a selector is one list; named objects are read one by one,
\* and if one of them is not found nothing is returned.
FoundBy(v, c) ==
  IF ~c.byName THEN Selected(v, c)
  ELSE IF \E y \in Named(v, c) : Seen(y) = Absent THEN {} ELSE Named(v, c)

\* What the connections C find for a value v, per label.
FoundByAll(v, C) ==
  [l \in EdgeLabel |-> {y \in OID : \E c \in C : l \in c.labels /\ y \in FoundBy(v, c)}]

-----------------------------------------------------------------------------
(* The cluster *)

Change(x, v) ==
  /\ changes < MaxChanges
  /\ cluster[x] # v
  /\ cluster'     = [cluster EXCEPT ![x] = v]
  /\ undelivered' = undelivered \cup {x}
  /\ unheeded'    = IF KindOf[x] \in Live THEN unheeded \cup Finders(x) ELSE unheeded
  /\ changes'     = changes + 1
  /\ UNCHANGED <<graphVars, cache, synced, queueVars, failures>>

-----------------------------------------------------------------------------
(* Informers.  A controller enqueues the objects of its own kind only. *)

\* The first list of a kind: an event for everything there is.
SyncInformer(k) ==
  /\ k \notin synced
  /\ synced'      = synced \cup {k}
  /\ cache'       = [x \in OID |-> IF KindOf[x] = k THEN cluster[x] ELSE cache[x]]
  /\ undelivered' = undelivered \ Objects(k)
  /\ dirty'       = dirty \cup {x \in Objects(k) : cluster[x] # Absent}
  /\ UNCHANGED <<graphVars, cluster, retrying, worker, changes, failures, unheeded>>

\* Faulty: an object that is being processed is not queued again.
DeliverUnlessProcessing(x) ==
  /\ x \in undelivered
  /\ KindOf[x] \in synced
  /\ cache'       = [cache EXCEPT ![x] = cluster[x]]
  /\ undelivered' = undelivered \ {x}
  /\ dirty'       = IF \E k \in Kind : worker[k] # Idle /\ worker[k].src = x THEN dirty ELSE dirty \cup {x}
  /\ unheeded'    = IF KindOf[x] \in Live THEN unheeded ELSE unheeded \cup Finders(x)
  /\ UNCHANGED <<graphVars, cluster, synced, retrying, worker, changes, failures>>

\* An object was created, updated or deleted.
Deliver(x) ==
  /\ x \in undelivered
  /\ KindOf[x] \in synced
  /\ cache'       = [cache EXCEPT ![x] = cluster[x]]
  /\ undelivered' = undelivered \ {x}
  /\ dirty'       = dirty \cup {x}
  /\ unheeded'    = IF KindOf[x] \in Live THEN unheeded ELSE unheeded \cup Finders(x)
  /\ UNCHANGED <<graphVars, cluster, synced, retrying, worker, changes, failures>>

\* Faulty: an informer without a resync period.
ResyncNever(k) == k \in synced /\ UNCHANGED syncVars

\* Every SyncPeriod, ten hours, the informer repeats what it knows.
Resync(k) ==
  /\ k \in synced
  /\ dirty' = dirty \cup {x \in Objects(k) : cache[x] # Absent}
  /\ UNCHANGED <<graphVars, cluster, cache, synced, undelivered, retrying, worker, changes, failures, unheeded>>

-----------------------------------------------------------------------------
(* Reconcile *)

\* The worker of x's kind gets x from the queue.  An x that becomes dirty
\* while it is processed waits until its worker is done.
Take(x) ==
  /\ x \in dirty
  /\ worker[KindOf[x]] = Idle
  /\ dirty'    = dirty \ {x}
  /\ worker'   = [worker EXCEPT ![KindOf[x]] = [src |-> x, pc |-> "get"]]
  /\ unheeded' = unheeded \ {x}
  /\ UNCHANGED <<graphVars, cluster, cache, synced, undelivered, retrying, changes, failures>>

\* Reconciliation r with other lists.
WithLists(r, todo, conns) ==
  [src |-> r.src, pc |-> "list", view |-> r.view, todo |-> todo, conns |-> conns]

Working(k, pc) == worker[k] # Idle /\ worker[k].pc = pc

\* An object that is not found is forgotten by the queue, and by nobody else:
\* the graph keeps what it declared.
GetObject(k) ==
  /\ Working(k, "get")
  /\ LET x == worker[k].src
     IN  worker' = [worker EXCEPT ![k] =
           IF Seen(x) = Absent
           THEN Idle
           ELSE [src |-> x, pc |-> "list", view |-> Seen(x), todo |-> Connections[k],
                 conns |-> [l \in EdgeLabel |-> {}]]]
  /\ UNCHANGED <<graphVars, cluster, cache, synced, undelivered, dirty, retrying, changes, failures, unheeded>>

\* Any other error is returned, and the queue adds the object again later.
GetFails(k) ==
  /\ Working(k, "get")
  /\ failures < MaxFailures
  /\ failures' = failures + 1
  /\ worker'   = [worker EXCEPT ![k] = Idle]
  /\ retrying' = retrying \cup {worker[k].src}
  /\ UNCHANGED <<graphVars, cluster, cache, synced, undelivered, dirty, changes, unheeded>>

\* Faulty: the kind is recorded in the place of the object.
ListConnectionKind(k, c) ==
  /\ Working(k, "list")
  /\ c \in worker[k].todo
  /\ c.to \in synced \cup Live
  /\ LET found == {KindOf[y] : y \in FoundBy(worker[k].view, c)}
     IN  worker' = [worker EXCEPT ![k] = WithLists(@, @.todo \ {c},
           [l \in EdgeLabel |-> @.conns[l] \cup (IF l \in c.labels THEN found ELSE {})])]
  /\ UNCHANGED <<graphVars, cluster, cache, synced, undelivered, dirty, retrying, changes, failures, unheeded>>

\* ResourcesFor one of the connections, in the order of a map.  A cached read
\* waits for the informer of the target kind.
ListConnection(k, c) ==
  /\ Working(k, "list")
  /\ c \in worker[k].todo
  /\ c.to \in synced \cup Live
  /\ LET found == FoundBy(worker[k].view, c)
     IN  worker' = [worker EXCEPT ![k] = WithLists(@, @.todo \ {c},
           [l \in EdgeLabel |-> @.conns[l] \cup (IF l \in c.labels THEN found ELSE {})])]
  /\ UNCHANGED <<graphVars, cluster, cache, synced, undelivered, dirty, retrying, changes, failures, unheeded>>

\* It fails, without objects: whatever the error, ListConnectedObjectIDs goes
\* on to the next connection.
ListFails(k, c) ==
  /\ Working(k, "list")
  /\ c \in worker[k].todo
  /\ failures < MaxFailures
  /\ failures' = failures + 1
  /\ worker'   = [worker EXCEPT ![k] = WithLists(@, @.todo \ {c}, @.conns)]
  /\ unheeded' = unheeded \cup {worker[k].src}
  /\ UNCHANGED <<graphVars, cluster, cache, synced, undelivered, dirty, retrying, changes>>

UpdateGraph(k) ==
  /\ Working(k, "list")
  /\ worker[k].todo = {}
  /\ Update(worker[k].src, worker[k].conns)
  /\ worker' = [worker EXCEPT ![k] = Idle]
  /\ UNCHANGED <<cluster, cache, synced, undelivered, dirty, retrying, changes, failures, unheeded>>

\* The rate limiter's delay is over.
RetryAfter(x) ==
  /\ x \in retrying
  /\ retrying' = retrying \ {x}
  /\ dirty'    = dirty \cup {x}
  /\ UNCHANGED <<graphVars, cluster, cache, synced, undelivered, worker, changes, failures, unheeded>>

-----------------------------------------------------------------------------
Reconcile(k) ==
  \/ GetObject(k)
  \/ \E c \in Connections[k] : ListConnection(k, c)
  \/ UpdateGraph(k)

Fails(k) ==
  \/ GetFails(k)
  \/ \E c \in Connections[k] : ListFails(k, c)

SyncNext ==
  \/ \E x \in OID : \E v \in Value \cup {Absent} : Change(x, v)
  \/ \E k \in Kind : SyncInformer(k)
  \/ \E x \in OID : Deliver(x)
  \/ \E k \in Kind : Resync(k)
  \/ \E x \in OID : Take(x)
  \/ \E k \in Kind : Reconcile(k)
  \/ \E k \in Kind : Fails(k)
  \/ \E x \in OID : RetryAfter(x)

SyncSpec == SyncInit /\ [][SyncNext]_syncVars

\* Informers and workers run, the queue is served in order, and resyncs keep
\* coming, however slowly.
SyncFairness ==
  /\ \A k \in Kind : /\ WF_syncVars(SyncInformer(k))
                     /\ WF_syncVars(Resync(k))
                     /\ WF_syncVars(Reconcile(k))
  /\ \A x \in OID :  /\ WF_syncVars(Deliver(x))
                     /\ SF_syncVars(Take(x))
                     /\ WF_syncVars(RetryAfter(x))

FairSyncSpec == SyncSpec /\ SyncFairness

-----------------------------------------------------------------------------
(* Properties *)

SyncTypeOK ==
  /\ TypeOK
  /\ cluster     \in [OID -> Value \cup {Absent}]
  /\ cache       \in [OID -> Value \cup {Absent}]
  /\ synced      \subseteq Kind
  /\ undelivered \subseteq OID
  /\ dirty       \subseteq OID
  /\ retrying    \subseteq OID
  /\ worker      \in [Kind -> Reconciliation \cup {Idle}]
  /\ \A k \in Kind : worker[k] # Idle => KindOf[worker[k].src] = k
  /\ changes     \in 0..MaxChanges
  /\ failures    \in 0..MaxFailures
  /\ unheeded    \subseteq OID

\* What a reconciliation of x would find now.
Current(x) == FoundByAll(Seen(x), Connections[KindOf[x]])

\* Nothing is going to reconcile x for the time being.
Settled(x) ==
  /\ x \notin dirty \cup retrying \cup undelivered
  /\ KindOf[x] \in synced
  /\ \A k \in Kind : worker[k] # Idle => worker[k].src # x

\* An object's own changes are never missed.  When nothing is left to do for
\* an object that exists, the graph holds the connections that the object has
\* now, unless what it may be connected to has changed since, or a list has
\* failed.  In particular a change that arrives while the object is being
\* reconciled leads to another reconciliation.
OwnChangesHeeded ==
  \A x \in OID :
    Settled(x) /\ x \notin unheeded /\ Seen(x) # Absent => ids[x] = Current(x)

\* Without the exceptions, when the cluster has come to rest: the resyncs, and
\* only they, make up for changes of connected objects, which the controller of
\* the declaring object does not watch, and for failed lists.
DeclarationsFollow ==
  \A x \in OID : <>[](cluster[x] = Absent \/ ids[x] = Current(x))

\* Then no edge is left between two objects, both existing, that neither of
\* them accounts for.
EdgesFollow ==
  \A x, y \in OID : \A l \in EdgeLabel :
    <>[](/\ cluster[x] # Absent
         /\ cluster[y] # Absent
         /\ y \in edges[x][l]
         => y \in Current(x)[l] \/ x \in Current(y)[l])

\* An object whose connections could not be listed, for another reason than
\* that something was not found, is reconciled again soon, and not only when
\* the next resync comes.  Not what the code does: the error does not get as
\* far as Reconcile.
FailedListsRetried ==
  [][\A k \in Kind :
       Working(k, "list") /\ worker'[k] # worker[k] /\ failures' > failures
         => worker[k].src \in retrying']_syncVars
=============================================================================
