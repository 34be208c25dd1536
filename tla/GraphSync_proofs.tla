-------------------------- MODULE GraphSync_proofs --------------------------
(***************************************************************************)
(* Reconciliation for every cluster, every set of connections, and any     *)
(* number of changes and failures.  The heart is Heed: what a worker has   *)
(* listed so far, and what the graph holds when the object is settled, is  *)
(* what the same lists would give now, unless something let it down.       *)
(***************************************************************************)
EXTENDS GraphSync, ObjectGraph_proofs

\* The reconciliation of x, if it is in progress.
InHand(x) ==
  IF worker[KindOf[x]] # Idle /\ worker[KindOf[x]].src = x THEN worker[KindOf[x]] ELSE Idle

\* Only objects of kinds with a controller are queued and reconciled, and a
\* worker collects nothing that its descriptor does not allow.
WorkersOK ==
  /\ \A x \in dirty \cup retrying : KindOf[x] \in synced
  /\ \A k \in Kind : worker[k] # Idle =>
       /\ k \in synced
       /\ worker[k].pc = "list" =>
            /\ worker[k].todo \subseteq Connections[k]
            /\ worker[k].conns \in ConnsOf(worker[k].src)

Informed(x) ==
  /\ x \notin dirty \cup retrying \cup undelivered \cup unheeded
  /\ KindOf[x] \in synced

\* conns is what the connections C would give now, and their lists can be had.
Listed(x, conns, C) ==
  /\ conns = FoundByAll(Seen(x), C)
  /\ \A c \in C : c.to \in synced \cup Live

Heed(x) ==
  Informed(x) =>
    /\ InHand(x) = Idle /\ Seen(x) # Absent => Listed(x, ids[x], Connections[KindOf[x]])
    /\ InHand(x) # Idle /\ InHand(x).pc = "list" =>
         /\ InHand(x).view = Seen(x)
         /\ Listed(x, InHand(x).conns, Connections[KindOf[x]] \ InHand(x).todo)

SyncInv == SyncTypeOK /\ WorkersOK /\ \A x \in OID : Heed(x)

-----------------------------------------------------------------------------
\* The invariant is what the property needs.
LEMMA SyncInvHeeds == SyncInv => OwnChangesHeeded
<1> SUFFICES ASSUME SyncInv, NEW x \in OID, Settled(x), x \notin unheeded, Seen(x) # Absent
             PROVE  ids[x] = Current(x)
  BY DEF OwnChangesHeeded
<1>1. KindOf[x] \in Kind
  BY SyncAssumption
<1>2. InHand(x) = Idle /\ Informed(x)
  BY <1>1 DEF Settled, InHand, Informed
<1> QED
  BY <1>2 DEF SyncInv, Heed, Listed, Current

\* Steps that do not concern x: it looks the same, its reconciliation is where
\* it was, and what it may find looks the same.
LEMMA HeedKept ==
  ASSUME SyncInv, NEW x \in OID,
         Informed(x)' => Informed(x),
         Informed(x)' => Seen(x)' = Seen(x),
         Informed(x)' => \A y \in OID : y \in OID /\ x \in Finders(y) /\ KindOf[y] \in synced \cup Live
                                          => Seen(y)' = Seen(y),
         InHand(x)' = InHand(x), ids'[x] = ids[x], synced \subseteq synced'
  PROVE  Heed(x)'
<1> SUFFICES ASSUME Informed(x)' PROVE Heed(x)'
  BY DEF Heed
<1> DEFINE all == Connections[KindOf[x]]
<1>1. Heed(x) /\ Informed(x) /\ Seen(x)' = Seen(x)
  BY DEF SyncInv
<1>2. ASSUME NEW C \in SUBSET all, NEW conns, Listed(x, conns, C)
      PROVE  Listed(x, conns, C)'
  <2>1. \A c \in C : \A y \in OID : KindOf[y] = c.to => Seen(y)' = Seen(y)
    BY <1>2 DEF Listed, Finders
  <2>2. FoundByAll(Seen(x), C)' = FoundByAll(Seen(x), C)
    BY <2>1, <1>1 DEF FoundBy, Selected, Named, FoundByAll
  <2> QED
    BY <1>2, <2>2 DEF Listed
<1>3. CASE InHand(x) = Idle
  <2>1. Seen(x)' # Absent => Listed(x, ids[x], all)'
    BY <1>1, <1>2, <1>3 DEF Heed
  <2> QED
    BY <1>3, <2>1 DEF Heed, Listed
<1>4. CASE InHand(x) # Idle
  <2>1. InHand(x).pc = "list" =>
          InHand(x).view = Seen(x)' /\ Listed(x, InHand(x).conns, all \ InHand(x).todo)
    BY <1>1, <1>4 DEF Heed
  <2>2. InHand(x).pc = "list" => (Listed(x, InHand(x).conns, all \ InHand(x).todo))'
    <3>1. (all \ InHand(x).todo)' = all \ InHand(x).todo
      OBVIOUS
    <3> QED
      BY <2>1, <1>2 DEF Listed
  <2> QED
    BY <1>4, <2>1, <2>2 DEF Heed
<1> QED
  BY <1>3, <1>4

-----------------------------------------------------------------------------
(***************************************************************************)
(* Every step preserves the invariant.                                     *)
(***************************************************************************)

\* Nothing has been listed, reconciled or queued yet.
LEMMA SyncInvInit == SyncInit => SyncInv
<1> SUFFICES ASSUME SyncInit PROVE SyncInv
  OBVIOUS
<1>1. SyncTypeOK
  BY InitTypeOK, SyncAssumption DEF SyncInit, SyncTypeOK
<1>2. WorkersOK
  BY DEF SyncInit, WorkersOK
<1>3. \A x \in OID : ~Informed(x)
  BY DEF SyncInit, Informed
<1> QED
  BY <1>1, <1>2, <1>3 DEF SyncInv, Heed

\* Who may find a changed object of a live kind is let down.
LEMMA ChangeInv ==
  ASSUME SyncInv, NEW x0 \in OID, NEW v \in Value \cup {Absent}, Change(x0, v)
  PROVE  SyncInv'
<1>1. SyncTypeOK'
  BY SyncAssumption DEF SyncInv, SyncTypeOK, Change, graphVars, queueVars, TypeOK, Finders
<1>2. WorkersOK'
  BY DEF SyncInv, WorkersOK, Change, queueVars
<1>3. ASSUME NEW x \in OID PROVE Heed(x)'
  <2>1. \A y \in OID : y # x0 \/ KindOf[x0] \notin Live => Seen(y)' = Seen(y)
    BY DEF Change, Seen, SyncInv, SyncTypeOK
  <2>2. Informed(x)' => Informed(x) /\ x # x0 /\ (KindOf[x0] \in Live => x \notin Finders(x0))
    BY DEF Informed, Change, queueVars
  <2>3. InHand(x)' = InHand(x) /\ ids'[x] = ids[x] /\ synced' = synced
    BY DEF Change, InHand, queueVars, graphVars
  <2> QED
    BY <2>1, <2>2, <2>3, HeedKept
<1> QED
  BY <1>1, <1>2, <1>3 DEF SyncInv

\* Nobody has listed a kind whose informer has not synced.
LEMMA SyncInformerInv ==
  ASSUME SyncInv, NEW k \in Kind, SyncInformer(k)
  PROVE  SyncInv'
<1>1. SyncTypeOK'
  BY DEF SyncInv, SyncTypeOK, SyncInformer, graphVars, TypeOK, Objects
<1>2. WorkersOK'
  BY DEF SyncInv, WorkersOK, SyncInformer, Objects
<1>3. ASSUME NEW x \in OID PROVE Heed(x)'
  <2>1. \A y \in OID : KindOf[y] # k \/ KindOf[y] \in Live => Seen(y)' = Seen(y)
    BY DEF SyncInformer, Seen
  <2>2. InHand(x)' = InHand(x) /\ ids'[x] = ids[x] /\ synced' = synced \cup {k} /\ k \notin synced
    BY DEF SyncInformer, InHand, graphVars
  <2>3. CASE KindOf[x] # k
    <3>1. Informed(x)' => Informed(x)
      BY <2>3 DEF Informed, SyncInformer, Objects
    <3> QED
      BY <2>1, <2>2, <2>3, <3>1, HeedKept
  <2>4. CASE KindOf[x] = k
    <3>1. InHand(x)' = Idle
      BY <2>2, <2>4 DEF SyncInv, WorkersOK, InHand
    <3>2. Informed(x)' => Seen(x)' = Absent
      BY <2>4 DEF Informed, SyncInformer, Objects, Seen
    <3> QED
      BY <3>1, <3>2 DEF Heed
  <2> QED
    BY <2>3, <2>4
<1> QED
  BY <1>1, <1>2, <1>3 DEF SyncInv

\* Who may find a changed object of a cached kind is let down.
LEMMA DeliverInv ==
  ASSUME SyncInv, NEW x0 \in OID, Deliver(x0)
  PROVE  SyncInv'
<1>1. SyncTypeOK'
  BY DEF SyncInv, SyncTypeOK, Deliver, graphVars, TypeOK, Finders
<1>2. WorkersOK'
  BY DEF SyncInv, WorkersOK, Deliver
<1>3. ASSUME NEW x \in OID PROVE Heed(x)'
  <2>1. \A y \in OID : y # x0 \/ KindOf[x0] \in Live => Seen(y)' = Seen(y)
    BY DEF Deliver, Seen, SyncInv, SyncTypeOK
  <2>2. Informed(x)' => Informed(x) /\ x # x0 /\ (KindOf[x0] \notin Live => x \notin Finders(x0))
    BY DEF Informed, Deliver
  <2>3. InHand(x)' = InHand(x) /\ ids'[x] = ids[x] /\ synced' = synced
    BY DEF Deliver, InHand, graphVars
  <2> QED
    BY <2>1, <2>2, <2>3, HeedKept
<1> QED
  BY <1>1, <1>2, <1>3 DEF SyncInv

\* Objects that are queued again are no longer settled.
LEMMA QueueInv ==
  ASSUME SyncInv, \/ \E k \in Kind : Resync(k)
                  \/ \E x \in OID : RetryAfter(x)
  PROVE  SyncInv'
<1>1. /\ UNCHANGED <<edges, ids, cluster, cache, synced, undelivered, worker, changes, failures, unheeded>>
      /\ dirty' \cup retrying' \subseteq OID
      /\ dirty \cup retrying \subseteq dirty' \cup retrying'
      /\ \A x \in dirty' \cup retrying' : KindOf[x] \in synced
  BY DEF Resync, RetryAfter, graphVars, SyncInv, SyncTypeOK, WorkersOK, Objects
<1>2. SyncTypeOK'
  BY <1>1 DEF SyncInv, SyncTypeOK, TypeOK
<1>3. WorkersOK'
  BY <1>1 DEF SyncInv, WorkersOK
<1>4. ASSUME NEW x \in OID PROVE Heed(x)'
  <2>1. \A y \in OID : Seen(y)' = Seen(y)
    BY <1>1 DEF Seen
  <2>2. (Informed(x)' => Informed(x)) /\ InHand(x)' = InHand(x)
    BY <1>1 DEF Informed, InHand
  <2> QED
    BY <1>1, <2>1, <2>2, HeedKept
<1> QED
  BY <1>2, <1>3, <1>4 DEF SyncInv

\* A worker that takes an object up begins with nothing listed.
LEMMA TakeInv ==
  ASSUME SyncInv, NEW x0 \in OID, Take(x0)
  PROVE  SyncInv'
<1> DEFINE k0 == KindOf[x0]
           r  == [src |-> x0, pc |-> "get"]
<1>1. /\ k0 \in Kind /\ x0 \in dirty /\ worker[k0] = Idle /\ r \in Reconciliation /\ r # Idle
      /\ worker' = [worker EXCEPT ![k0] = r]
      /\ dirty' = dirty \ {x0} /\ unheeded' = unheeded \ {x0}
      /\ UNCHANGED <<edges, ids, cluster, cache, synced, undelivered, retrying, changes, failures>>
  BY SyncAssumption, IdleAssumption DEF Take, Reconciliation, graphVars
<1>2. SyncTypeOK'
  BY <1>1 DEF SyncInv, SyncTypeOK, TypeOK
<1>3. WorkersOK'
  BY <1>1 DEF SyncInv, SyncTypeOK, WorkersOK
<1>4. ASSUME NEW x \in OID PROVE Heed(x)'
  <2>1. CASE x = x0
    <3>1. InHand(x)' = r
      BY <1>1, <2>1 DEF InHand, SyncInv, SyncTypeOK
    <3> QED
      BY <1>1, <3>1 DEF Heed
  <2>2. CASE x # x0
    <3>1. InHand(x)' = InHand(x)
      BY <1>1, <2>2 DEF InHand, SyncInv, SyncTypeOK
    <3>2. \A y \in OID : Seen(y)' = Seen(y)
      BY <1>1 DEF Seen
    <3>3. Informed(x)' => Informed(x)
      BY <1>1, <2>2 DEF Informed
    <3> QED
      BY <1>1, <3>1, <3>2, <3>3, HeedKept
  <2> QED
    BY <2>1, <2>2
<1> QED
  BY <1>2, <1>3, <1>4 DEF SyncInv

\* What a worker in progress is known to be.
LEMMA WorkerShape ==
  ASSUME SyncInv, NEW k \in Kind, worker[k] # Idle
  PROVE  /\ worker[k] \in Reconciliation
         /\ worker[k].src \in OID /\ KindOf[worker[k].src] = k
         /\ InHand(worker[k].src) = worker[k]
         /\ worker[k].pc = "list" =>
              /\ worker[k] = [src |-> worker[k].src, pc |-> "list", view |-> worker[k].view,
                              todo |-> worker[k].todo, conns |-> worker[k].conns]
              /\ worker[k].view \in Value
              /\ worker[k].todo \in SUBSET Connection
              /\ worker[k].todo \subseteq Connections[k]
              /\ worker[k].conns \in Conns
              /\ worker[k].conns \in ConnsOf(worker[k].src)
<1>1. worker[k] \in Reconciliation /\ KindOf[worker[k].src] = k
  BY DEF SyncInv, SyncTypeOK
<1>2. worker[k].src \in OID
  BY <1>1 DEF Reconciliation
<1>3. worker[k].pc = "list" =>
        worker[k] \in [src : OID, pc : {"list"}, view : Value,
                       todo : SUBSET Connection, conns : Conns]
  BY <1>1 DEF Reconciliation
<1> QED
  BY <1>1, <1>2, <1>3 DEF SyncInv, WorkersOK, InHand

\* A reconciliation that has read its object is one.
LEMMA Listing ==
  ASSUME NEW src \in OID, NEW view \in Value, NEW conns \in Conns,
         NEW todo \in SUBSET Connection
  PROVE  LET r == [src |-> src, pc |-> "list", view |-> view, todo |-> todo, conns |-> conns]
         IN  r \in Reconciliation /\ r # Idle
BY IdleAssumption DEF Reconciliation

\* A step of the worker of kind k touches no other object.
LEMMA OthersKept ==
  ASSUME SyncInv, NEW k \in Kind, worker[k] # Idle, NEW w \in Reconciliation \cup {Idle},
         w # Idle => w.src = worker[k].src,
         worker' = [worker EXCEPT ![k] = w],
         UNCHANGED <<cluster, cache, synced, dirty, undelivered>>,
         retrying \subseteq retrying', unheeded \subseteq unheeded',
         NEW x \in OID, x # worker[k].src, ids'[x] = ids[x]
  PROVE  Heed(x)'
<1>1. InHand(x)' = InHand(x)
  BY WorkerShape, SyncAssumption DEF InHand, SyncInv, SyncTypeOK
<1>2. \A y \in OID : Seen(y)' = Seen(y)
  BY DEF Seen
<1>3. Informed(x)' => Informed(x)
  BY DEF Informed
<1> QED
  BY <1>1, <1>2, <1>3, HeedKept

\* The object read is the object seen.
LEMMA GetObjectInv ==
  ASSUME SyncInv, NEW k \in Kind, GetObject(k)
  PROVE  SyncInv'
<1> DEFINE x0 == worker[k].src
           none == [l \in EdgeLabel |-> {}]
           r == [src |-> x0, pc |-> "list", view |-> Seen(x0), todo |-> Connections[k], conns |-> none]
           w == IF Seen(x0) = Absent THEN Idle ELSE r
<1>1. /\ worker[k] # Idle /\ worker' = [worker EXCEPT ![k] = w]
      /\ UNCHANGED <<edges, ids, cluster, cache, synced, undelivered, dirty, retrying, changes, failures, unheeded>>
  BY DEF GetObject, Working, graphVars
<1>2. x0 \in OID /\ KindOf[x0] = k
  BY <1>1, WorkerShape
<1>3. Seen(x0) # Absent => r \in Reconciliation /\ r # Idle /\ none \in ConnsOf(x0)
  <2>1. Seen(x0) \in Value \cup {Absent}
    BY <1>2 DEF Seen, SyncInv, SyncTypeOK
  <2>2. none \in Conns /\ none \in ConnsOf(x0)
    BY DEF Conns, ConnsOf
  <2>3. Connections[k] \in SUBSET Connection
    BY SyncAssumption
  <2> QED
    BY <1>2, <2>1, <2>2, <2>3, Listing
<1>4. SyncTypeOK'
  BY <1>1, <1>2, <1>3 DEF SyncInv, SyncTypeOK, TypeOK
<1>5. WorkersOK'
  BY <1>1, <1>2, <1>3 DEF SyncInv, SyncTypeOK, WorkersOK
<1>6. ASSUME NEW x \in OID PROVE Heed(x)'
  <2>1. CASE x # x0
    BY <1>1, <1>3, <2>1, OthersKept
  <2>2. CASE x = x0 /\ Seen(x0) = Absent
    <3>1. InHand(x)' = Idle /\ Seen(x)' = Absent
      BY <1>1, <1>2, <2>2 DEF InHand, Seen, SyncInv, SyncTypeOK
    <3> QED
      BY <3>1 DEF Heed
  <2>3. CASE x = x0 /\ Seen(x0) # Absent
    <3>1. InHand(x)' = r /\ r # Idle
      BY <1>1, <1>2, <1>3, <2>3 DEF InHand, SyncInv, SyncTypeOK
    <3>2. Seen(x)' = Seen(x0)
      BY <1>1, <2>3 DEF Seen
    <3>3. Connections[KindOf[x]] \ r.todo = {}
      BY <1>2, <2>3
    <3>4. Listed(x, none, {})'
      BY DEF Listed, FoundByAll
    <3> QED
      BY <3>1, <3>2, <3>3, <3>4 DEF Heed
  <2> QED
    BY <2>1, <2>2, <2>3
<1> QED
  BY <1>4, <1>5, <1>6 DEF SyncInv

\* An object that could not be read will be retried.
LEMMA GetFailsInv ==
  ASSUME SyncInv, NEW k \in Kind, GetFails(k)
  PROVE  SyncInv'
<1> DEFINE x0 == worker[k].src
<1>1. /\ worker[k] # Idle /\ worker' = [worker EXCEPT ![k] = Idle]
      /\ retrying' = retrying \cup {x0} /\ failures < MaxFailures /\ failures' = failures + 1
      /\ UNCHANGED <<edges, ids, cluster, cache, synced, undelivered, dirty, changes, unheeded>>
  BY DEF GetFails, Working, graphVars
<1>2. x0 \in OID /\ KindOf[x0] = k
  BY <1>1, WorkerShape
<1>3. SyncTypeOK'
  BY <1>1, <1>2, SyncAssumption DEF SyncInv, SyncTypeOK, TypeOK
<1>4. WorkersOK'
  BY <1>1, <1>2 DEF SyncInv, SyncTypeOK, WorkersOK
<1>5. ASSUME NEW x \in OID PROVE Heed(x)'
  <2>1. CASE x # x0
    BY <1>1, <2>1, OthersKept
  <2>2. CASE x = x0
    BY <1>1, <2>2 DEF Heed, Informed
  <2> QED
    BY <2>1, <2>2
<1> QED
  BY <1>3, <1>4, <1>5 DEF SyncInv

\* One more connection has been listed.
LEMMA FoundByOneMore ==
  ASSUME NEW v, NEW C, NEW c, NEW l \in EdgeLabel
  PROVE  FoundByAll(v, C \cup {c})[l] =
           FoundByAll(v, C)[l] \cup (IF l \in c.labels THEN FoundBy(v, c) ELSE {})
<1>1. FoundBy(v, c) \subseteq OID
  BY DEF FoundBy, Selected, Named
<1> QED
  BY <1>1 DEF FoundByAll

\* What was listed stays current while nothing looks different.
LEMMA ListedKept ==
  ASSUME UNCHANGED <<cluster, cache, synced>>, NEW x, NEW conns, NEW C, Listed(x, conns, C)
  PROVE  Listed(x, conns, C)'
BY DEF Listed, FoundByAll, FoundBy, Selected, Named, Seen

\* What a list gives for its connection is current, and allowed.
LEMMA ListConnectionInv ==
  ASSUME SyncInv, NEW k \in Kind, NEW c \in Connections[k], ListConnection(k, c)
  PROVE  SyncInv'
<1> DEFINE x0    == worker[k].src
           found == FoundBy(worker[k].view, c)
           more  == [l \in EdgeLabel |->
                      worker[k].conns[l] \cup (IF l \in c.labels THEN found ELSE {})]
           w == [src |-> x0, pc |-> "list", view |-> worker[k].view,
                 todo |-> worker[k].todo \ {c}, conns |-> more]
<1>1. /\ worker[k] # Idle /\ worker[k].pc = "list" /\ c \in worker[k].todo
      /\ c.to \in synced \cup Live
      /\ UNCHANGED <<edges, ids, cluster, cache, synced, undelivered, dirty, retrying, changes, failures, unheeded>>
  BY DEF ListConnection, Working, graphVars
<1>2. x0 \in OID /\ KindOf[x0] = k /\ InHand(x0) = worker[k]
  BY <1>1, WorkerShape
<1>3. /\ worker[k] = [src |-> x0, pc |-> "list", view |-> worker[k].view,
                      todo |-> worker[k].todo, conns |-> worker[k].conns]
      /\ worker[k].view \in Value
      /\ worker[k].todo \in SUBSET Connection
      /\ worker[k].todo \subseteq Connections[k]
      /\ worker[k].conns \in ConnsOf(x0)
  BY <1>1, WorkerShape
<1>4. worker' = [worker EXCEPT ![k] = w]
  BY <1>3 DEF ListConnection, WithLists, SyncInv, SyncTypeOK
<1>5. more \in ConnsOf(x0) /\ more \in Conns
  <2>1. \A l \in EdgeLabel : l \in c.labels => found \subseteq Targets[x0][l]
    BY <1>2, TargetsOfKinds DEF FoundBy, Selected, Named
  <2>2. \A l \in EdgeLabel : worker[k].conns[l] \subseteq Targets[x0][l]
    BY <1>3 DEF ConnsOf
  <2>3. \A l \in EdgeLabel : more[l] \subseteq Targets[x0][l] /\ Targets[x0][l] \subseteq OID
    BY <1>2, <2>1, <2>2, TargetsAssumption
  <2>4. more \in [EdgeLabel -> SUBSET OID]
    BY <2>3
  <2> QED
    BY <2>3, <2>4 DEF ConnsOf, Conns
<1>6. w \in Reconciliation /\ w # Idle
  <2>1. worker[k].todo \ {c} \in SUBSET Connection
    BY <1>3
  <2> QED
    BY <1>2, <1>3, <1>5, <2>1, Listing
<1>7. SyncTypeOK'
  BY <1>1, <1>2, <1>4, <1>6 DEF SyncInv, SyncTypeOK, TypeOK
<1>8. WorkersOK'
  BY <1>1, <1>2, <1>3, <1>4, <1>5 DEF SyncInv, SyncTypeOK, WorkersOK
<1>9. ASSUME NEW x \in OID PROVE Heed(x)'
  <2>1. CASE x # x0
    BY <1>1, <1>4, <1>6, <2>1, OthersKept
  <2>2. CASE x = x0
    <3> DEFINE done == Connections[k] \ worker[k].todo
    <3>1. InHand(x)' = w /\ Seen(x)' = Seen(x0) /\ (Informed(x)' <=> Informed(x0))
      BY <1>1, <1>2, <1>4, <1>6, <2>2 DEF InHand, Seen, Informed, SyncInv, SyncTypeOK
    <3>2. Connections[k] \ (worker[k].todo \ {c}) = done \cup {c}
      BY <1>1
    <3>3. ASSUME Informed(x0)
          PROVE  /\ worker[k].view = Seen(x0)
                 /\ more = FoundByAll(Seen(x0), done \cup {c})
                 /\ \A d \in done \cup {c} : d.to \in synced \cup Live
      <4>1. worker[k].view = Seen(x0) /\ Listed(x0, worker[k].conns, done)
        BY <1>1, <1>2, <3>3 DEF SyncInv, Heed
      <4>2. ASSUME NEW l \in EdgeLabel PROVE more[l] = FoundByAll(Seen(x0), done \cup {c})[l]
        <5>1. FoundByAll(Seen(x0), done \cup {c})[l] =
                FoundByAll(Seen(x0), done)[l]
                  \cup (IF l \in c.labels THEN FoundBy(Seen(x0), c) ELSE {})
          BY FoundByOneMore
        <5>2. worker[k].conns[l] = FoundByAll(Seen(x0), done)[l]
          BY <4>1 DEF Listed
        <5> QED
          BY <4>1, <5>1, <5>2
      <4>3. more = FoundByAll(Seen(x0), done \cup {c})
        BY <4>2 DEF FoundByAll
      <4> QED
        BY <1>1, <4>1, <4>3 DEF Listed
    <3>4. PICK dn, cs : dn = done \cup {c} /\ cs = more
      OBVIOUS
    <3>5. Informed(x)' => Listed(x, cs, dn)'
      <4>1. Informed(x)' => Listed(x, cs, dn)
        BY <2>2, <3>1, <3>3, <3>4 DEF Listed
      <4> QED
        BY <1>1, <4>1, ListedKept
    <3>6. (Connections[KindOf[x]] \ InHand(x).todo)' = dn /\ (InHand(x).conns)' = cs
      BY <1>2, <2>2, <3>1, <3>2, <3>4
    <3>7. Informed(x)' => (InHand(x).view)' = Seen(x)'
      BY <2>2, <3>1, <3>3
    <3>8. Informed(x)' => Listed(x, InHand(x).conns, Connections[KindOf[x]] \ InHand(x).todo)'
      BY <3>5, <3>6 DEF Listed, FoundByAll
    <3> QED
      BY <1>6, <3>1, <3>7, <3>8 DEF Heed
  <2> QED
    BY <2>1, <2>2
<1> QED
  BY <1>7, <1>8, <1>9 DEF SyncInv

\* A failed list lets its object down.
LEMMA ListFailsInv ==
  ASSUME SyncInv, NEW k \in Kind, NEW c \in Connections[k], ListFails(k, c)
  PROVE  SyncInv'
<1> DEFINE x0 == worker[k].src
           w  == WithLists(worker[k], worker[k].todo \ {c}, worker[k].conns)
<1>1. /\ worker[k] # Idle /\ worker[k].pc = "list" /\ worker' = [worker EXCEPT ![k] = w]
      /\ unheeded' = unheeded \cup {x0} /\ failures < MaxFailures /\ failures' = failures + 1
      /\ UNCHANGED <<edges, ids, cluster, cache, synced, undelivered, dirty, retrying, changes>>
  BY DEF ListFails, Working, graphVars
<1>2. /\ x0 \in OID /\ KindOf[x0] = k /\ worker[k].view \in Value
      /\ worker[k].todo \ {c} \in SUBSET Connection
      /\ worker[k].todo \subseteq Connections[k]
      /\ worker[k].conns \in Conns /\ worker[k].conns \in ConnsOf(x0)
  BY <1>1, WorkerShape
<1>3. w \in Reconciliation /\ w # Idle
  BY <1>2, Listing DEF WithLists
<1>4. SyncTypeOK'
  BY <1>1, <1>2, <1>3, SyncAssumption DEF SyncInv, SyncTypeOK, TypeOK, WithLists
<1>5. WorkersOK'
  BY <1>1, <1>2, <1>3 DEF SyncInv, SyncTypeOK, WorkersOK, WithLists
<1>6. ASSUME NEW x \in OID PROVE Heed(x)'
  <2>1. CASE x # x0
    BY <1>1, <1>3, <2>1, OthersKept DEF WithLists
  <2>2. CASE x = x0
    BY <1>1, <2>2 DEF Heed, Informed
  <2> QED
    BY <2>1, <2>2
<1> QED
  BY <1>4, <1>5, <1>6 DEF SyncInv

\* With nothing left to list, what the graph is told is current.
LEMMA UpdateGraphInv ==
  ASSUME SyncInv, NEW k \in Kind, UpdateGraph(k)
  PROVE  SyncInv'
<1> DEFINE x0 == worker[k].src
<1>1. /\ worker[k] # Idle /\ worker[k].pc = "list" /\ worker[k].todo = {}
      /\ Update(x0, worker[k].conns) /\ worker' = [worker EXCEPT ![k] = Idle]
      /\ UNCHANGED <<cluster, cache, synced, undelivered, dirty, retrying, changes, failures, unheeded>>
  BY DEF UpdateGraph, Working
<1>2. x0 \in OID /\ KindOf[x0] = k /\ InHand(x0) = worker[k] /\ worker[k].conns \in Conns
  BY <1>1, WorkerShape
<1>3. TypeOK /\ TypeOK' /\ ids' = [ids EXCEPT ![x0] = worker[k].conns]
  BY <1>1, <1>2, UpdateTypeOK DEF SyncInv, SyncTypeOK, Update
<1>4. SyncTypeOK'
  BY <1>1, <1>3 DEF SyncInv, SyncTypeOK
<1>5. WorkersOK'
  BY <1>1 DEF SyncInv, SyncTypeOK, WorkersOK
<1>6. ASSUME NEW x \in OID PROVE Heed(x)'
  <2>1. CASE x # x0
    <3>1. ids'[x] = ids[x]
      BY <1>3, <2>1 DEF TypeOK
    <3> QED
      BY <1>1, <2>1, <3>1, OthersKept
  <2>2. CASE x = x0
    <3>1. InHand(x)' = Idle /\ (Informed(x)' <=> Informed(x0)) /\ ids'[x] = worker[k].conns
      BY <1>1, <1>2, <1>3, <2>2 DEF InHand, Informed, SyncInv, SyncTypeOK, TypeOK
    <3>2. PICK cs : cs = worker[k].conns
      OBVIOUS
    <3>3. Informed(x0) => Listed(x, cs, Connections[KindOf[x]])
      BY <1>1, <1>2, <2>2, <3>2 DEF SyncInv, Heed, Listed
    <3>4. Informed(x)' => Listed(x, cs, Connections[KindOf[x]])'
      BY <1>1, <3>1, <3>3, ListedKept
    <3> QED
      BY <3>1, <3>2, <3>4 DEF Heed, Listed
  <2> QED
    BY <2>1, <2>2
<1> QED
  BY <1>4, <1>5, <1>6 DEF SyncInv

\* A step that changes nothing.
LEMMA SyncStutter ==
  ASSUME SyncInv, UNCHANGED syncVars PROVE SyncInv'
<1>1. SyncTypeOK'
  BY DEF SyncInv, SyncTypeOK, TypeOK, syncVars, graphVars, queueVars
<1>2. WorkersOK'
  BY DEF SyncInv, WorkersOK, syncVars, queueVars
<1>3. ASSUME NEW x \in OID PROVE Heed(x)'
  <2>1. (Informed(x)' <=> Informed(x)) /\ InHand(x)' = InHand(x)
    BY DEF Informed, InHand, syncVars, queueVars
  <2>2. \A y \in OID : Seen(y)' = Seen(y)
    BY DEF Seen, syncVars
  <2>3. ids'[x] = ids[x] /\ synced' = synced
    BY DEF syncVars, graphVars
  <2> QED
    BY <2>1, <2>2, <2>3, HeedKept
<1> QED
  BY <1>1, <1>2, <1>3 DEF SyncInv

\* Every step preserves the inductive invariant.
LEMMA SyncInvStep == SyncInv /\ [SyncNext]_syncVars => SyncInv'
<1> SUFFICES ASSUME SyncInv, [SyncNext]_syncVars PROVE SyncInv'
  OBVIOUS
<1>1. ASSUME NEW x \in OID, NEW v \in Value \cup {Absent}, Change(x, v) PROVE SyncInv'
  BY <1>1, ChangeInv
<1>2. ASSUME NEW k \in Kind, SyncInformer(k) PROVE SyncInv'
  BY <1>2, SyncInformerInv
<1>3. ASSUME NEW x \in OID, Deliver(x) PROVE SyncInv'
  BY <1>3, DeliverInv
<1>4. CASE (\E k \in Kind : Resync(k)) \/ (\E x \in OID : RetryAfter(x))
  BY <1>4, QueueInv
<1>5. ASSUME NEW x \in OID, Take(x) PROVE SyncInv'
  BY <1>5, TakeInv
<1>6. ASSUME NEW k \in Kind, Reconcile(k) PROVE SyncInv'
  BY <1>6, GetObjectInv, ListConnectionInv, UpdateGraphInv DEF Reconcile
<1>7. ASSUME NEW k \in Kind, Fails(k) PROVE SyncInv'
  BY <1>7, GetFailsInv, ListFailsInv DEF Fails
<1>8. CASE UNCHANGED syncVars
  BY <1>8, SyncStutter
<1> QED
  BY <1>1, <1>2, <1>3, <1>4, <1>5, <1>6, <1>7, <1>8 DEF SyncNext

\* Whatever changes and whatever fails, nothing that is listed is out of date
\* without a reason.
THEOREM SyncInductive == SyncSpec => []SyncInv
BY SyncInvInit, SyncInvStep, PTL DEF SyncSpec

-----------------------------------------------------------------------------
\* Type correctness of the queue, the workers and what they have collected.
THEOREM SyncTypeCorrect == SyncSpec => []SyncTypeOK
<1>1. SyncInv => SyncTypeOK
  BY DEF SyncInv
<1> QED
  BY <1>1, SyncInductive, PTL

\* An object's own changes are never missed, with any number of objects,
\* kinds, changes and failures: the queue holds on to what becomes dirty while
\* it is processed.
THEOREM OwnChangesAreHeeded == SyncSpec => []OwnChangesHeeded
BY SyncInductive, SyncInvHeeds, PTL

\* Of the graph, whatever the reconcilers do is a sequence of Updates with
\* connections that the descriptors allow.
THEOREM SyncRefinesGraph == SyncSpec => Spec
<1>1. SyncInit => Init
  BY DEF SyncInit
<1>2. SyncInv /\ [SyncNext]_syncVars => [Next]_vars
  <2> SUFFICES ASSUME SyncInv, [SyncNext]_syncVars PROVE [Next]_vars
    OBVIOUS
  <2>1. ASSUME NEW k \in Kind, UpdateGraph(k) PROVE Next
    <3>1. /\ worker[k] # Idle /\ worker[k].pc = "list"
          /\ Update(worker[k].src, worker[k].conns)
      BY <2>1 DEF UpdateGraph, Working
    <3>2. worker[k].src \in OID /\ worker[k].conns \in ConnsOf(worker[k].src)
      BY <3>1, WorkerShape
    <3> QED
      BY <3>1, <3>2 DEF Next
  <2>2. ASSUME \A k \in Kind : ~UpdateGraph(k) PROVE UNCHANGED vars
    BY <2>2 DEF SyncNext, Change, SyncInformer, Deliver, Resync, Take, Reconcile, GetObject,
         ListConnection, Fails, GetFails, ListFails, RetryAfter, syncVars, graphVars, vars
  <2> QED
    BY <2>1, <2>2
<1> QED
  BY <1>1, <1>2, SyncInductive, PTL DEF SyncSpec, Spec

\* So what is proved of the graph holds of it while it follows a cluster.
COROLLARY SyncedGraph == SyncSpec => [](Symmetric /\ EdgesDeclared) /\ LostOnlyIfWithdrawn
BY SyncRefinesGraph, EdgesSymmetric, NoPhantomEdges, NothingLostByAccident, PTL
=============================================================================
