------------------------------- MODULE Finder -------------------------------
(***************************************************************************)
(* ObjectFinder.ResourcesFor (graph/lib.go): the objects that one object   *)
(* is connected to.  A connection belongs to its source kind, whose        *)
(* objects carry the selector, the references or the owners.  Forward      *)
(* goes from such an object to the objects it names or selects, backward   *)
(* from one of those to the objects that name or select it.                *)
(*                                                                         *)
(* What a finder has in hand is a snapshot of an object, as it was when it *)
(* was read.  A backward call is one request of the API server.  A forward *)
(* one makes a request for each namespace, owner or reference, one after   *)
(* the other: Asks are its requests, Ask the answer of one, and            *)
(* ResourcesFor what it returns if nothing happens in between.             *)
(***************************************************************************)
EXTENDS Integers, FiniteSetsExt, SequencesExt

CONSTANTS
  Object,       \* the objects there may be
  GVKOf,        \* GVKOf[x]: [group, kind], for the version that is watched
  NamespaceOf,  \* NamespaceOf[x]: NamespaceAll, if x is cluster-scoped
  NameOf,
  Namespaced,   \* the kinds whose objects have a namespace
  NamespaceAll, \* "", also the namespace of cluster-scoped objects
  Looks,        \* Looks[x]: what connections may see of x
  Absent,       \* x does not exist
  Missing,      \* a field that is not there
  Malformed     \* a selector that cannot be read as one

ASSUME FinderAssumption ==
  /\ NamespaceAll = ""
  /\ NamespaceOf \in [Object -> STRING]
  /\ \A x \in Object : GVKOf[x] \in Namespaced <=> NamespaceOf[x] # NamespaceAll
  /\ \A x, y \in Object :
       <<GVKOf[x], NamespaceOf[x], NameOf[x]>> = <<GVKOf[y], NamespaceOf[y], NameOf[y]>> => x = y
  /\ \A x \in Object : Absent \notin Looks[x]

IsList(s) == Len(s) \in Nat /\ DOMAIN s = 1..Len(s)

\* What Kubernetes grants: an owner is where its dependant can be, and a reference
\* to it says what it is; and no namespace is called "".
ASSUME LooksAssumption ==
  \A x \in Object : \A v \in Looks[x] :
    /\ \A path \in DOMAIN v.refs : IsList(v.refs[path])
    /\ v.nsSelector # Missing => NamespaceAll \notin v.nsSelector.names
    /\ \A y \in Object : \A r \in v.owners : r.uid[1] = y =>
         /\ r.gvk = GVKOf[y] /\ r.name = NameOf[y]
         /\ NamespaceOf[y] \in {NamespaceAll, NamespaceOf[x]}

VARIABLES
  cluster, \* cluster[x]: the look of x, or Absent
  births   \* births[x]: how often x was created; with x, its UID

Exists(x) == cluster[x] # Absent

Snapshot(x) == [id |-> x, uid |-> <<x, births[x]>>, look |-> cluster[x]]

-----------------------------------------------------------------------------
(* The client *)

\* isNamespaced: the namespace that a request for gvk carries.
Scoped(gvk, ns) == IF gvk \in Namespaced THEN ns ELSE NamespaceAll

\* Client.Get: one object or, NotFound, none.  Without a namespace an object of
\* a namespaced kind is not found.
Get(gvk, ns, name) ==
  {Snapshot(x) : x \in {y \in Object : /\ NameOf[y] = name /\ GVKOf[y] = gvk
                                      /\ NamespaceOf[y] = Scoped(gvk, ns)
                                      /\ Exists(y)}}

\* Client.List, in one namespace or in all.
List(gvk, ns) ==
  {Snapshot(x) : x \in {y \in Object : /\ GVKOf[y] = gvk
                                      /\ Scoped(gvk, ns) \in {NamespaceAll, NamespaceOf[y]}
                                      /\ Exists(y)}}

\* A call returns objects, or an error and none.
Found(S) == [err |-> "none", objs |-> S]
NotFound == [err |-> "notFound", objs |-> {}]
Failed   == [err |-> "failed", objs |-> {}]

\* Calls made one after the other: the first error is returned.
InTurn(results) ==
  LET bad == {i \in DOMAIN results : results[i].err # "none"}
  IN  IF bad = {}
      THEN Found(UNION {results[i].objs : i \in DOMAIN results})
      ELSE results[Min(bad)]

\* The same in any order.
Together(results) ==
  IF \A r \in results : r.err = "none"
  THEN Found(UNION {r.objs : r \in results})
  ELSE CHOOSE r \in results : r.err # "none"

-----------------------------------------------------------------------------
(* What is read from an object.  o, p and owner are snapshots, e is a      *)
(* connection with the kinds that it joins.                                *)

MetadataNamespace == "metadata.namespace"

\* The namespaces that o asks for, none meaning all.
Namespaces(o, path) ==
  LET sel == o.look.nsSelector
  IN  CASE path = MetadataNamespace -> {NamespaceOf[o.id]}
        [] path = ""                -> {}
        [] OTHER -> IF sel = Missing THEN {}
                    ELSE IF sel.names = {} /\ ~sel.any THEN {NamespaceOf[o.id]} ELSE sel.names

OrAll(namespaces) == IF namespaces = {} THEN {NamespaceAll} ELSE namespaces

\* Backward, only metadata.namespace narrows what is listed.
NamespaceBack(o, e) == IF e.nsPath = MetadataNamespace THEN NamespaceOf[o.id] ELSE NamespaceAll

\* A value of a selector template.
Eval(o, v) == CASE v = "{.metadata.name}"      -> NameOf[o.id]
                [] v = "{.metadata.namespace}" -> NamespaceOf[o.id]
                [] OTHER                       -> v

\* The labels asked for, as pairs of key and value.  Missing is the selector
\* that selects nothing, the empty set the one that selects everything.
Selector(o, e) ==
  IF e.selectorPath THEN o.look.selector
  ELSE {<<kv[1], Eval(o, kv[2])>> : kv \in e.selector}

\* The labels that are looked at: o's own, or those inside it that
\* targetLabelPath leads to.
LabelsAt(o, e) == IF e.targetLabelPath THEN o.look.inner ELSE o.look.labels

Matches(selector, labels) == labels # Missing /\ selector \subseteq labels

\* Faulty: an owner is recognised by its name.
IsConnectedByName(level, o, owner) ==
  CASE level = "Controller" -> \E r \in o.look.owners : r.controller /\ r.name = NameOf[owner.id]
    [] level = "Owner"      -> \E r \in o.look.owners : r.name = NameOf[owner.id]
    [] OTHER                -> TRUE

IsOwnedBy(o, owner) == \E r \in o.look.owners : r.uid = owner.uid

IsConnected(level, o, owner) ==
  CASE level = "Controller" -> \E r \in o.look.owners : r.controller /\ r.uid = owner.uid
    [] level = "Owner"      -> IsOwnedBy(o, owner)
    [] OTHER                -> TRUE

\* The rows that a reference path yields: name, then perhaps namespace, kind
\* and apiVersion, the last as a sequence of what "/" separates.
RowsOK(rows) == \A row \in Range(rows) : Len(row) \in 1..4 /\ Len(row) = Len(rows[1])

\* The group is what precedes "/", or all there is.
ResourceRef(row) ==
  [name      |-> row[1],
   namespace |-> IF Len(row) >= 2 THEN row[2] ELSE "",
   kind      |-> IF Len(row) >= 3 THEN row[3] ELSE "",
   apiGroup  |-> IF Len(row) = 4 THEN row[4][1] ELSE ""]

ParseResourceRefs(rows) == [i \in DOMAIN rows |-> ResourceRef(rows[i])]

\* What is set of kind and group must agree.
Concerns(ref, gvk) == ref.apiGroup \in {"", gvk.group} /\ ref.kind \in {"", gvk.kind}

-----------------------------------------------------------------------------
(* Forward: o is of kind e.src. *)

SelectedIn(o, e, ns) ==
  CASE Selector(o, e) = Malformed -> Failed
    [] Selector(o, e) = Missing   -> Found({})
    [] OTHER -> Found({p \in List(e.dst, ns) :
                         Matches(Selector(o, e), LabelsAt(p, e)) /\ IsConnected(e.level, p, o)})

\* Faulty: all namespaces, whatever o asks for.
SelectedAnywhere(o, e) == SelectedIn(o, e, NamespaceAll)

Selected(o, e) == Together({SelectedIn(o, e, ns) : ns \in OrAll(Namespaces(o, e.nsPath))})

\* One that is not there, and nothing is returned.
NamedIn(o, e, ns) ==
  LET got == Get(e.dst, ns, e.rename[NameOf[o.id]])
  IN  IF got = {} THEN NotFound ELSE Found({p \in got : IsConnected(e.level, p, o)})

Named(o, e) == Together({NamedIn(o, e, ns) : ns \in OrAll(Namespaces(o, e.nsPath))})

\* findOwners: by kind and name, in o's namespace; the UID is not compared.
\* An object has at most one owner that is its controller.
OwnerRefs(o, e) == {r \in o.look.owners : r.gvk = e.dst /\ (e.level = "Controller" => r.controller)}

OwnerBy(o, e, r) ==
  LET got == Get(e.dst, NamespaceOf[o.id], r.name)
  IN  IF got = {} THEN NotFound ELSE Found(got)

Owners(o, e) == Together({OwnerBy(o, e, r) : r \in OwnerRefs(o, e)})

\* One reference.
Fetch(o, ref, e) ==
  LET ns  == IF ref.namespace = "" THEN NamespaceOf[o.id] ELSE ref.namespace
      got == Get(e.dst, ns, ref.name)
  IN  CASE ~Concerns(ref, e.dst) -> Found({})
        [] Concerns(ref, e.dst) /\ e.dst \in Namespaced /\ ns = "" -> Failed
        [] OTHER -> IF got = {} THEN NotFound ELSE Found({p \in got : IsConnected(e.level, p, o)})

Referenced(o, e) ==
  LET ByPath(rows) ==
        IF ~RowsOK(rows) THEN Failed
        ELSE InTurn([i \in DOMAIN rows |-> Fetch(o, ParseResourceRefs(rows)[i], e)])
  IN  InTurn([j \in DOMAIN e.references |-> ByPath(o.look.refs[e.references[j]])])

-----------------------------------------------------------------------------
(* Backward: o is of kind e.dst. *)

\* One malformed selector among those looked at, and nothing is returned.
Selecting(o, e) ==
  LET asks == {p \in List(e.src, NamespaceBack(o, e)) :
                 \/ e.nsPath \in {"", MetadataNamespace}
                 \/ NamespaceOf[o.id] \in Namespaces(p, e.nsPath)
                 \/ Namespaces(p, e.nsPath) = {}}
  IN  CASE LabelsAt(o, e) = Missing -> Found({})
        [] LabelsAt(o, e) # Missing /\ (\E p \in asks : Selector(p, e) = Malformed) -> Failed
        [] OTHER -> Found({p \in asks : /\ Selector(p, e) # Missing
                                        /\ Matches(Selector(p, e), LabelsAt(o, e))
                                        /\ IsConnected(e.level, o, p)})

\* The template undone; a name may not fit it.
ExtractName(o, e) == {n \in DOMAIN e.rename : e.rename[n] = NameOf[o.id]}

Naming(o, e) ==
  LET got == UNION {Get(e.src, NamespaceBack(o, e), n) : n \in ExtractName(o, e)}
  IN  CASE ExtractName(o, e) = {} -> Failed
        [] ExtractName(o, e) # {} /\ got = {} -> NotFound
        [] OTHER -> Found({p \in got : IsConnected(e.level, o, p)})

\* findChildren: by UID.
Children(o, e) == Found({p \in List(e.src, NamespaceOf[o.id]) : IsConnected(e.level, p, o)})

\* What a reference of p says of o.  A namespace that it states is not compared.
Verdict(o, ref, p, e) ==
  LET implied == ref.namespace = "" /\ e.dst \in Namespaced
  IN  CASE ~Concerns(ref, e.dst) -> "other"
        [] Concerns(ref, e.dst) /\ implied /\ NamespaceOf[p.id] = "" -> "failed"
        [] OTHER -> IF (implied => NamespaceOf[p.id] = NamespaceOf[o.id]) /\ ref.name = NameOf[o.id]
                    THEN "match" ELSE "other"

\* The references are read up to the first that matches, or fails.
FirstDecisive(verdicts) ==
  LET decisive == {i \in DOMAIN verdicts : verdicts[i] # "other"}
  IN  IF decisive = {} THEN "other" ELSE verdicts[Min(decisive)]

RefersTo(o, p, e) ==
  LET ByPath(rows) ==
        IF ~RowsOK(rows) THEN "failed"
        ELSE FirstDecisive([i \in DOMAIN rows |-> Verdict(o, ParseResourceRefs(rows)[i], p, e)])
  IN  FirstDecisive([j \in DOMAIN e.references |-> ByPath(p.look.refs[e.references[j]])])

Referring(o, e) ==
  LET near == List(e.src, NamespaceBack(o, e))
  IN  IF \E p \in near : RefersTo(o, p, e) = "failed" THEN Failed
      ELSE Found({p \in near : RefersTo(o, p, e) = "match" /\ IsConnected(e.level, o, p)})

-----------------------------------------------------------------------------
Forward(o, e) ==
  CASE e.type = "MatchSelector" -> Selected(o, e)
    [] e.type = "MatchName"     -> Named(o, e)
    [] e.type = "OwnedBy"       -> Owners(o, e)
    [] e.type = "MatchRef"      -> Referenced(o, e)

Backward(o, e) ==
  CASE e.type = "MatchSelector" -> Selecting(o, e)
    [] e.type = "MatchName"     -> Naming(o, e)
    [] e.type = "OwnedBy"       -> Children(o, e)
    [] e.type = "MatchRef"      -> Referring(o, e)

\* What one call returns, if the cluster does not change meanwhile.
ResourcesFor(o, e, forward) ==
  IF GVKOf[o.id] # (IF forward THEN e.src ELSE e.dst) THEN Failed
  ELSE IF forward THEN Forward(o, e) ELSE Backward(o, e)
-----------------------------------------------------------------------------
(* A call, one request at a time. *)

\* The requests: by namespace, by owner, by the places of references, or just one.
Asks(o, e, forward) ==
  CASE ~forward -> {"list"}
    [] forward /\ e.type \in {"MatchSelector", "MatchName"} -> OrAll(Namespaces(o, e.nsPath))
    [] forward /\ e.type = "OwnedBy"  -> OwnerRefs(o, e)
    [] forward /\ e.type = "MatchRef" ->
         UNION {{j} \X DOMAIN o.look.refs[e.references[j]] : j \in DOMAIN e.references}

\* References are followed in the order in which they are written.
IsFirst(q, asks, e, forward) ==
  forward /\ e.type = "MatchRef" =>
    \A p \in asks : q[1] < p[1] \/ (q[1] = p[1] /\ q[2] <= p[2])

\* The rows of a path are parsed before the first of them is followed.
FetchAt(o, e, at) ==
  LET rows == o.look.refs[e.references[at[1]]]
  IN  IF RowsOK(rows) THEN Fetch(o, ParseResourceRefs(rows)[at[2]], e) ELSE Failed

Ask(o, e, forward, q) ==
  IF GVKOf[o.id] # (IF forward THEN e.src ELSE e.dst) THEN Failed
  ELSE IF ~forward THEN Backward(o, e)
  ELSE CASE e.type = "MatchSelector" -> SelectedIn(o, e, q)
         [] e.type = "MatchName"     -> NamedIn(o, e, q)
         [] e.type = "OwnedBy"       -> OwnerBy(o, e, q)
         [] e.type = "MatchRef"      -> FetchAt(o, e, q)
=============================================================================
