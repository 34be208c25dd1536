------------------------------ MODULE Locator ------------------------------
(***************************************************************************)
(* ObjectFinder.Locate (graph/lib.go): from one object along a path of     *)
(* named connections, each in the direction that fits, to the one object   *)
(* at its end.  Every object on the way costs a call of ResourcesFor, every *)
(* call one request or more, and the cluster changes between the requests, *)
(* while the snapshots that the walk has in hand grow old.                 *)
(***************************************************************************)
EXTENDS Finder

CONSTANTS
  Edges,      \* Edges[name]: the named connections
  Requests,   \* the locators: src (gvk, namespace, name, and the labels of a
              \* selector or Missing) and path, a sequence of names
  Worlds,     \* the clusters to start from
  Changes,    \* the pairs <<x, v>> of what may become of what
  MaxChanges  \* bound on the changes of the cluster

ASSUME LocatorAssumption ==
  /\ \A w \in Worlds : DOMAIN w = Object /\ \A x \in Object : w[x] \in Looks[x] \cup {Absent}
  /\ \A c \in Changes : c[1] \in Object /\ c[2] \in Looks[c[1]] \cup {Absent}
  /\ \A r \in Requests : r.path \in Seq(Range(r.path))
  /\ MaxChanges \in Nat

\* What holds of the descriptors' connections: namespaces are looked for in objects
\* that have one, other namespaces only for objects that do; an owner is one at
\* some level; and a name template takes every name.
ASSUME EdgesAssumption ==
  \A label \in DOMAIN Edges :
    LET e == Edges[label]
    IN  /\ e.type \in {"MatchSelector", "MatchName", "OwnedBy", "MatchRef"}
        /\ e.nsPath # "" => e.src \in Namespaced
        /\ e.nsPath \notin {"", MetadataNamespace} => e.dst \in Namespaced
        /\ e.type = "OwnedBy" => e.level \in {"Owner", "Controller"}
        /\ e.type = "MatchName" => \A x \in Object : GVKOf[x] = e.src => NameOf[x] \in DOMAIN e.rename
        /\ e.type = "MatchRef" =>
             /\ IsList(e.references)
             /\ \A x \in Object : \A v \in Looks[x] : GVKOf[x] = e.src => Range(e.references) \subseteq DOMAIN v.refs

VARIABLES
  pc,      \* "idle", "walk" or "done"
  hops,    \* the connections of the path: [edge, forward]
  at,      \* the hop that the walk is in
  ins,     \* the objects from which this hop has still to be made
  out,     \* the objects that it has led to
  asking,  \* the object whose call of ResourcesFor has begun, if any
  left,    \* the requests that this call has still to make
  gathered, \* the objects that it has found
  reply,   \* "none", "found", "notFound" or "failed"
  changes, \* the changes so far
  touched, \* history: the objects that changed since the start of the walk
  src,     \* history: the object it started from
  steady,  \* history: what the hops joined at all times before the last change
  seen     \* history: what single requests joined at some time before it

callVars == <<asking, left, gathered>>
walkVars == <<pc, hops, at, ins, out, callVars, reply, src>>
locatorVars == <<cluster, births, walkVars, changes, touched, steady, seen>>

Ids(S) == {o.id : o \in S}

\* The kinds that a hop leads from and to.
FromKind(hop) == IF hop.forward THEN hop.edge.src ELSE hop.edge.dst
ToKind(hop)   == IF hop.forward THEN hop.edge.dst ELSE hop.edge.src

\* Where the hops of a path start: the number of the hop, and an object.
Starts(path) ==
  LET objs == {Snapshot(x) : x \in {y \in Object : Exists(y)}}
  IN  {p \in (DOMAIN path) \X objs : GVKOf[p[2].id] = FromKind(path[p[1]])}

\* What the hops of a path join, if every call is answered at once.
Joined(path) ==
  UNION {{<<p[1], p[2].id>>} \X Ids(ResourcesFor(p[2], path[p[1]].edge, path[p[1]].forward).objs) : p \in Starts(path)}

\* What the requests of o's call show, each by itself.
Shown(o, hop) ==
  UNION {Ids(Ask(o, hop.edge, hop.forward, q).objs) : q \in Asks(o, hop.edge, hop.forward)}

\* What single requests join: the one names or selects the other, which is there.
Linked(path) == UNION {{<<p[1], p[2].id>>} \X Shown(p[2], path[p[1]]) : p \in Starts(path)}

LocatorInit ==
  /\ cluster \in Worlds
  /\ births  = [x \in Object |-> 1]
  /\ pc = "idle" /\ hops = <<>> /\ at = 0 /\ ins = {} /\ out = {} /\ reply = "none" /\ src = {}
  /\ asking = {} /\ left = {} /\ gathered = {}
  /\ changes = 0 /\ touched = {} /\ steady = {} /\ seen = {}

-----------------------------------------------------------------------------
(* The cluster *)

\* An object is created, with a new UID, changed or deleted.
Change(x, v) ==
  /\ pc = "walk"
  /\ changes < MaxChanges
  /\ cluster[x] # v
  /\ UNCHANGED walkVars
  /\ cluster' = [cluster EXCEPT ![x] = v]
  /\ births'  = [births EXCEPT ![x] = IF Exists(x) THEN @ ELSE @ + 1]
  /\ changes' = changes + 1
  /\ touched' = touched \cup {x}
  /\ steady'  = steady \cap Joined(hops)
  /\ seen'    = seen \cup Linked(hops)

-----------------------------------------------------------------------------
(* Locate *)

\* Faulty: objects are told apart by their names alone.
AppendByName(arr, items) ==
  items \cup {o \in arr : \A p \in items : NameOf[p.id] # NameOf[o.id]}

\* appendObjects: by namespace and name, the later one replaces the earlier.
AppendObjects(arr, items) ==
  items \cup {o \in arr : \A p \in items :
                <<NamespaceOf[p.id], NameOf[p.id]>> # <<NamespaceOf[o.id], NameOf[o.id]>>}

\* Faulty: every connection is followed forward.
ResolveForward(from, path) ==
  [ok   |-> \A i \in DOMAIN path : path[i] \in DOMAIN Edges,
   from |-> from,
   hops |-> [i \in DOMAIN path |-> [edge |-> Edges[path[i]], forward |-> TRUE]]]

\* Each name of the path continues from where the one before has led to; a
\* connection of a kind with itself is followed forward.
Resolve(from, path) ==
  LET way[i \in 0..Len(path)] ==
        IF i = 0 THEN [ok |-> TRUE, from |-> from, hops |-> <<>>]
        ELSE LET acc == way[i - 1]
                 e   == Edges[path[i]]
                 f   == e.src = acc.from
             IN  IF acc.ok /\ path[i] \in DOMAIN Edges /\ acc.from \in {e.src, e.dst}
                 THEN [ok |-> TRUE, from |-> IF f THEN e.dst ELSE e.src,
                       hops |-> Append(acc.hops, [edge |-> e, forward |-> f])]
                 ELSE [acc EXCEPT !.ok = FALSE]
  IN  way[Len(path)]

\* getTheObject
TheObject(objs) ==
  CASE objs = {}             -> "notFound"
    [] Cardinality(objs) = 1 -> "found"
    [] OTHER                 -> "failed"

\* ObjectFinder.Get by a selector.
GetSelected(ref) == {o \in List(ref.gvk, ref.namespace) : Matches(ref.selector, o.look.labels)}

NoCall == asking' = {} /\ left' = {} /\ gathered' = {}

Answer(result, objs, path) ==
  /\ pc' = "done"
  /\ reply' = result
  /\ out' = IF result = "found" THEN objs ELSE {}
  /\ hops' = path
  /\ NoCall
  /\ UNCHANGED <<at, ins>>

\* The source is read first, then the path is resolved.  A source that is given
\* by name is never found: it is asked for without its kind.
Locate(r) ==
  /\ pc = "idle"
  /\ LET objs == GetSelected(r.src)
         way  == Resolve(r.src.gvk, r.path)
     IN  /\ src' = IF r.src.selector # Missing THEN Ids(objs) ELSE {}
         /\ \/ /\ r.src.selector = Missing
               /\ Answer("failed", {}, <<>>)
            \/ /\ r.src.selector # Missing
               /\ TheObject(objs) # "found" \/ r.path = <<>>
               /\ Answer(TheObject(objs), objs, <<>>)
            \/ /\ r.src.selector # Missing
               /\ TheObject(objs) = "found" /\ r.path # <<>> /\ ~way.ok
               /\ Answer("failed", {}, <<>>)
            \/ /\ r.src.selector # Missing
               /\ TheObject(objs) = "found" /\ r.path # <<>> /\ way.ok
               /\ pc' = "walk" /\ hops' = way.hops /\ at' = 1 /\ ins' = objs /\ out' = {}
               /\ UNCHANGED <<callVars, reply>>
  /\ UNCHANGED <<cluster, births, changes>>
  /\ touched' = {}
  /\ steady'  = Joined(hops')
  /\ seen'    = {}

historyVars == <<cluster, births, changes, touched, steady, seen, src>>

\* The call for o has returned objs.
Followed(o, objs) ==
  /\ out' = AppendObjects(out, objs)
  /\ ins' = ins \ {o}
  /\ NoCall
  /\ UNCHANGED <<pc, hops, at, reply>>

\* The requests of o's call that are left, all of them before it begins.
Todo(o) == IF asking = {} THEN Asks(o, hops[at].edge, hops[at].forward) ELSE left

\* The next request of the call of ResourcesFor that has begun, or the first one
\* of a call for any of the objects in hand.  NotFound ends the call with
\* nothing, whatever it has found, any other error ends Locate.
Follow(o) ==
  /\ pc = "walk"
  /\ o \in ins /\ asking \subseteq {o}
  /\ \/ Todo(o) = {} /\ Followed(o, {})
     \/ \E q \in Todo(o) :
          LET result == Ask(o, hops[at].edge, hops[at].forward, q)
              more   == Todo(o) \ {q}
              found  == AppendObjects(gathered, result.objs)
          IN  /\ IsFirst(q, Todo(o), hops[at].edge, hops[at].forward)
              /\ \/ result.err = "failed"   /\ Answer("failed", {}, hops)
                 \/ result.err = "notFound" /\ Followed(o, {})
                 \/ result.err = "none" /\ more = {} /\ Followed(o, found)
                 \/ /\ result.err = "none" /\ more # {}
                    /\ asking' = {o} /\ left' = more /\ gathered' = found
                    /\ UNCHANGED <<pc, hops, at, ins, out, reply>>
  /\ UNCHANGED historyVars

\* Faulty: the objects of the hop before stay in the result.
NextHopKeepOut ==
  /\ pc = "walk" /\ ins = {}
  /\ \/ /\ at < Len(hops)
        /\ at' = at + 1 /\ ins' = out
        /\ UNCHANGED <<pc, hops, out, callVars, reply>>
     \/ /\ at = Len(hops)
        /\ Answer(TheObject(out), out, hops)
  /\ UNCHANGED historyVars

\* The hop is made: the next one starts from where it has led to, or, after the
\* last one, there has to be one object.
NextHop ==
  /\ pc = "walk" /\ ins = {}
  /\ \/ /\ at < Len(hops)
        /\ at' = at + 1 /\ ins' = out /\ out' = {}
        /\ UNCHANGED <<pc, hops, callVars, reply>>
     \/ /\ at = Len(hops)
        /\ Answer(TheObject(out), out, hops)
  /\ UNCHANGED historyVars

Return ==
  /\ pc = "done"
  /\ pc' = "idle" /\ hops' = <<>> /\ at' = 0 /\ ins' = {} /\ out' = {} /\ reply' = "none" /\ src' = {}
  /\ touched' = {} /\ steady' = {} /\ seen' = {}
  /\ UNCHANGED <<cluster, births, changes, callVars>>

LocatorNext ==
  \/ \E c \in Changes : Change(c[1], c[2])
  \/ \E r \in Requests : Locate(r)
  \/ \E o \in ins : Follow(o)
  \/ NextHop
  \/ Return

LocatorSpec == LocatorInit /\ [][LocatorNext]_locatorVars

-----------------------------------------------------------------------------
(* Properties *)

LocatorTypeOK ==
  /\ DOMAIN cluster = Object /\ \A x \in Object : cluster[x] \in Looks[x] \cup {Absent}
  /\ births  \in [Object -> 1..(1 + MaxChanges)]
  /\ pc      \in {"idle", "walk", "done"}
  /\ reply   \in {"none", "found", "notFound", "failed"}
  /\ pc = "walk" => at \in DOMAIN hops /\ \A o \in ins : GVKOf[o.id] = FromKind(hops[at])
  /\ asking \subseteq ins /\ (asking = {} => left = {} /\ gathered = {})
  /\ pc = "done" => (reply = "found" <=> Cardinality(out) = 1)
  /\ changes \in 0..MaxChanges

\* The objects, as <<namespace, name>>, that x names for e.
Called(x, e) ==
  LET o == Snapshot(x)
  IN  CASE e.type = "MatchSelector" -> {}
        [] e.type = "MatchName" ->
             {<<Scoped(e.dst, ns), e.rename[NameOf[x]]>> : ns \in OrAll(Namespaces(o, e.nsPath))}
        [] e.type = "OwnedBy" ->
             {<<Scoped(e.dst, NamespaceOf[x]), r.name>> :
                r \in {s \in o.look.owners : s.gvk = e.dst /\ (e.level = "Controller" => s.controller)}}
        [] e.type = "MatchRef" ->
             LET rows == UNION {Range(o.look.refs[path]) : path \in Range(e.references)}
             IN  {<<Scoped(e.dst, IF ref.namespace = "" THEN NamespaceOf[x] ELSE ref.namespace), ref.name>> :
                    ref \in {s \in {ResourceRef(row) : row \in rows} : Concerns(s, e.dst)}}

\* What x asks for includes the namespace of y.
InReach(x, y, e) ==
  LET sel == cluster[x].nsSelector
      own == NamespaceOf[y] = NamespaceOf[x]
  IN  \/ NamespaceAll \in {NamespaceOf[y], e.nsPath}
      \/ e.nsPath = MetadataNamespace /\ own
      \/ /\ e.nsPath # MetadataNamespace
         /\ \/ sel = Missing
            \/ sel # Missing /\ NamespaceOf[y] \in sel.names
            \/ sel # Missing /\ sel.names = {} /\ (sel.any \/ own)

\* y is an owner of x, at the level asked for.
Owned(level, x, y) ==
  level \in {"Owner", "Controller"} =>
    \E r \in cluster[x].owners : r.uid = <<y, births[y]>> /\ (level = "Controller" => r.controller)

\* What the connection e of x's kind means.
Related(x, y, e) ==
  LET o == Snapshot(x)
      p == Snapshot(y)
  IN  /\ Exists(x) /\ Exists(y) /\ GVKOf[x] = e.src /\ GVKOf[y] = e.dst
      /\ e.type # "OwnedBy" => Owned(e.level, y, x)
      /\ CASE e.type = "MatchSelector" -> /\ Selector(o, e) \notin {Missing, Malformed}
                                          /\ Matches(Selector(o, e), LabelsAt(p, e))
                                          /\ InReach(x, y, e)
           [] e.type = "OwnedBy" -> Owned(e.level, x, y)
           [] OTHER -> <<NamespaceOf[y], NameOf[y]>> \in Called(x, e)

\* x has an owner of the name, not the UID, of y, where y is.
Replaced(x, y, e) ==
  /\ e.type = "OwnedBy" /\ GVKOf[y] = e.dst
  /\ NamespaceOf[y] = Scoped(e.dst, NamespaceOf[x])
  /\ \E r \in cluster[x].owners :
       /\ r.gvk = e.dst /\ r.name = NameOf[y] /\ r.uid # Snapshot(y).uid
       /\ e.level = "Controller" => r.controller

\* x refers to the name of y in another namespace than y's; or in y's, where e
\* looks for x in y's alone.
Elsewhere(x, y, e) ==
  /\ e.type = "MatchRef" /\ e.dst \in Namespaced
  /\ \E n \in Called(x, e) :
       /\ n[2] = NameOf[y]
       /\ n[1] # NamespaceOf[y] \/ (e.nsPath = MetadataNamespace /\ n[1] # NamespaceOf[x])

\* ResourcesFor, from the side that has the selector, the references or the
\* owners, gives exactly what the connection means: right labels in the right
\* namespaces, the named objects, owned at the level asked for.  It gives
\* nothing at all only if the object names one that is not there, or has a
\* selector or references that cannot be read.  An owner that was deleted and
\* created again counts as itself, since it is looked up by its name.  (Asked
\* between two calls of Locate, when the cluster may be in any of its states.)
LinksExact ==
  pc = "idle" => \A e \in Range(Edges) : \A x \in {z \in Object : Exists(z) /\ GVKOf[z] = e.src} :
    LET result == ResourcesFor(Snapshot(x), e, TRUE)
        right  == {y \in Object : Exists(y) /\ (Related(x, y, e) \/ Replaced(x, y, e))}
    IN  CASE result.err = "none"     -> Ids(result.objs) = right
          [] result.err = "notFound" -> \E n \in Called(x, e) : Get(e.dst, n[1], n[2]) = {}
          [] result.err = "failed"   -> \/ e.type = "MatchSelector" /\ Selector(Snapshot(x), e) = Malformed
                                        \/ e.type = "MatchRef" /\ \E path \in Range(e.references) :
                                             \/ ~RowsOK(cluster[x].refs[path])
                                             \/ NamespaceOf[x] = NamespaceAll /\ e.dst \in Namespaced

\* The two directions of a connection, which are written as two programs, agree
\* whenever both give an answer.  They do not where an owner was replaced (it is
\* looked up by name in one direction and by UID in the other), where the
\* namespace that a reference states is not that of the object asked about (it
\* is not compared), and where it is, but objects that refer to it are looked for
\* in its namespace only (as are RoleBindings for a ServiceAccount).
DirectionsAgree ==
  pc = "idle" => \A e \in Range(Edges) : \A x, y \in Object :
    Exists(x) /\ Exists(y) /\ GVKOf[x] = e.src /\ GVKOf[y] = e.dst
      /\ ~Replaced(x, y, e) /\ ~Elsewhere(x, y, e) =>
    LET there == ResourcesFor(Snapshot(x), e, TRUE)
        back  == ResourcesFor(Snapshot(y), e, FALSE)
    IN  there.err = "none" /\ back.err = "none" => (y \in Ids(there.objs) <=> x \in Ids(back.objs))

\* Where hops that join the pairs of rel, each with the number of its hop, lead.
Via(rel) ==
  LET f[i \in 0..at] == IF i = 0 THEN src ELSE {q[2] : q \in {p \in rel : p[1][1] = i /\ p[1][2] \in f[i - 1]}}
  IN  f[at]

\* What was joined at all times, or at some time, since the walk began.
Always == steady \cap Joined(hops)
Ever   == seen \cup Linked(hops)

\* Whatever else happens in the cluster meanwhile, and in whichever order the
\* objects are followed, Locate misses no object to which there was a way all
\* the time, through objects that did not change.  One that is lost on the way
\* makes an ambiguous place look like a found object.
LocateMissesNothing ==
  pc = "walk" /\ ins = {} =>
    Via({p \in Always : p[1][2] \notin touched}) \subseteq Ids(out)

\* A changed object and what else changed, or itself.
Mixed ==
  {p \in ((DOMAIN hops) \X touched) \X Object :
     LET hop == hops[p[1][1]]
     IN  Cardinality(touched) > 1 \/ FromKind(hop) = ToKind(hop)}

\* Nor does it invent one: every hop to it was there at some time during the
\* walk, its start naming or selecting its end, or began at an object that changed
\* together with others, so that its old look was matched with their new ones; or
\* with its own, if the hop is from a kind to itself.  All hops of an object need
\* not have been there at one time: the one may be gone before the other comes.
LocateInventsNothing ==
  pc = "walk" => Ids(out) \subseteq Via(Ever \cup Mixed)
=============================================================================
