----------------------------- MODULE GraphQuery -----------------------------
(***************************************************************************)
(* Queries of the graph: the resolvers of graph/graphql.go, and ExecQuery, *)
(* ExecRawQuery, ExecGraphQLQuery and execRestQuery of graph/setup.go.     *)
(*                                                                         *)
(* A GraphQL query follows labels from an object, hop by hop.  Its answer  *)
(* is a tree, and each object of the tree has its next hop resolved by a   *)
(* call of Links of its own, while reconciliations update the graph in     *)
(* between; what one call gives is what is linked at that moment (proved   *)
(* for GraphReaders).  The objects found at the last hop are collected as  *)
(* references, namespace and name without the kind, and read one by one as *)
(* objects of the target kind.  Kinds are looked up and objects are read   *)
(* through the client of the manager (CachedClient).                       *)
(***************************************************************************)
EXTENDS ObjectGraph, Integers, FiniteSets, Sequences

CONSTANTS
  Kind,         \* the kinds of the objects
  KindOf,       \* KindOf[x]: the kind of x
  Live,         \* the kinds that are not cached
  Groups,       \* the kinds by API group
  KeyOf,        \* KeyOf[x]: the namespace and the name of x
  Offshoot,     \* the label offshoot
  DirectLabels, \* offshoot and view: the labels that are followed alone
  AnyKind,      \* a hop without the arguments group and kind
  GroupOnly,    \* a hop with a group and no kind
  Beginnings,   \* what graph, cluster and client may be like at first: [ids, cluster,
                \* listed, late, mapped], where listed are the kinds with an informer
                \* of objects, and late the objects that it is wrong about
  MaxChanges    \* bound on the changes of graph and cluster, and on failures

ASSUME QueryAssumption ==
  /\ IsFiniteSet(OID)
  /\ KindOf \in [OID -> Kind]
  /\ \A x, y \in OID : KindOf[x] = KindOf[y] /\ KeyOf[x] = KeyOf[y] => x = y
  /\ {AnyKind, GroupOnly} \cap Kind = {}
  /\ Offshoot \in DirectLabels /\ DirectLabels \subseteq EdgeLabel
  /\ Live \subseteq Kind /\ Groups \subseteq SUBSET Kind
  /\ \A b \in Beginnings :
       /\ b.ids \in [OID -> Conns]
       /\ \A x \in OID :
            /\ b.ids[x] \in ConnsOf(x)
            /\ KindOf[x] \in Live \cup b.listed \/ b.ids[x] = [l \in EdgeLabel |-> {}]
       /\ b.cluster \subseteq OID /\ b.mapped \subseteq Kind
       /\ b.listed \subseteq Kind \ Live
       /\ b.late \subseteq {x \in OID : KindOf[x] \in b.listed}
  /\ MaxChanges \in Nat

VARIABLES
  cluster, served, mapped, lacked, synced, cached, behind, \* see CachedClient
  created, \* how many objects the REST queries of a request have created
  changes, \* the changes and failures so far
  query,   \* what is asked: see ExecQuery
  qpc,     \* "idle", "resolve", "map", "expand", "template", "source", "create" or "done"
  todo,    \* the branches of the tree that are not resolved, from the source
  refs,    \* the references collected
  unread,  \* those of them that have not been read
  objs,    \* the objects read
  reply,   \* "none", "ok" or "failed"
  ever,    \* history: what was linked at some time during the query
  always,  \* history: what was linked at all times
  present, \* history: the objects that the client had in sight at all times
  gone     \* history: the objects that it did not have in sight at any time

INSTANCE CachedClient

graphVars == <<edges, ids>>
informerVars == <<synced, cached, behind>>
mapperVars == <<mapped, lacked>>
worldVars == <<graphVars, cluster, served, informerVars>>
answerVars == <<query, qpc, todo, refs, unread, objs, reply>>
historyVars == <<ever, always, present, gone>>
queryVars == <<worldVars, mapperVars, created, changes, answerVars, historyVars>>

-----------------------------------------------------------------------------
(* Links *)

\* What chains of label lead to from S.
Reach(S, label) ==
  LET f[n \in 0..Cardinality(OID)] ==
        IF n = 0 THEN S ELSE S \cup UNION {edges[x][label] : x \in f[n - 1]}
  IN  f[Cardinality(OID)]

Links(x, label) ==
  Reach(IF label \in DirectLabels THEN {x} ELSE Reach({x}, Offshoot), label) \ {x}

LinkedNow == UNION {UNION {{<<label, x>>} \X Links(x, label) : x \in OID} : label \in EdgeLabel}

-----------------------------------------------------------------------------
(* What goes on meanwhile *)

\* ConnsOf(x), chosen from the objects that x may be connected to at all.
MayDeclare(x) ==
  {conns \in [EdgeLabel -> SUBSET UNION {Targets[x][l] : l \in EdgeLabel}] : conns \in ConnsOf(x)}

\* The objects of the kinds that their controllers have listed were reconciled.
QueryInit ==
  /\ served = Kind
  /\ \E b \in Beginnings :
       LET seen == {x \in OID : KindOf[x] \in b.listed /\ (x \in b.cluster <=> x \notin b.late)}
       IN  /\ ids = b.ids
           /\ cluster = b.cluster
           /\ mapped = b.mapped /\ mapped \in Reloads /\ lacked = Kind \ mapped
           /\ synced = b.listed \X {"object"}
           /\ cached = [f \in Form |-> IF f = "object" THEN seen ELSE {}]
           /\ behind = [f \in Form |-> [x \in OID |-> IF f = "object" /\ x \in b.late THEN 1 ELSE 0]]
  /\ edges = [x \in OID |-> [l \in EdgeLabel |-> ids[x][l] \cup {y \in OID : x \in ids[y][l]}]]
  /\ created = 0 /\ changes = 0
  /\ query = <<>> /\ qpc = "idle" /\ todo = {} /\ refs = {} /\ unread = {} /\ objs = {} /\ reply = "none"
  /\ ever = {} /\ always = {} /\ present = {} /\ gone = {}

Running == qpc \notin {"idle", "done"}

InSight == Sight("object")

\* What is linked, and what is in sight, is remembered if a query is running.
RememberLinks ==
  /\ IF Running
     THEN LET now == LinkedNow'
          IN  ever' = ever \cup now /\ always' = always \cap now
     ELSE UNCHANGED <<ever, always>>
  /\ UNCHANGED <<present, gone>>

RememberSight ==
  /\ IF Running
     THEN present' = present \cap InSight' /\ gone' = gone \ InSight'
     ELSE UNCHANGED <<present, gone>>
  /\ UNCHANGED <<ever, always>>

WorldChanges ==
  /\ changes < MaxChanges
  /\ changes' = changes + 1
  /\ UNCHANGED <<created, answerVars>>

UpdateGraph(x, conns) ==
  /\ WorldChanges
  /\ Ready(KindOf[x], "object")
  /\ conns # ids[x]
  /\ Update(x, conns)
  /\ RememberLinks
  /\ UNCHANGED <<cluster, served, informerVars, mapperVars>>

\* x is created or deleted; the graph does not notice.
CreateOrDelete(x) == WorldChanges /\ Change(x) /\ RememberSight /\ UNCHANGED graphVars

Serve(k) == WorldChanges /\ InstallOrRemove(k) /\ RememberSight /\ UNCHANGED graphVars

\* The lookup of a kind for somebody else.
LookupElsewhere ==
  /\ WorldChanges
  /\ Reload /\ mapped' # mapped
  /\ UNCHANGED <<worldVars, historyVars>>

\* A controller or a read has opened an informer, and a change arrives at one.
Sync(k, form) ==
  /\ SyncInformer(k, form) /\ RememberSight
  /\ UNCHANGED <<graphVars, created, changes, answerVars>>

Catch(x, form) ==
  /\ Deliver(x, form) /\ RememberSight
  /\ UNCHANGED <<graphVars, created, changes, answerVars>>

-----------------------------------------------------------------------------
(* Queries: [type, src, target, expand, hops] for "graphql", where expand    *)
(* tells ExecQuery from ExecRawQuery and hops are [label, kind]; and         *)
(* [type, src, target, templated] for "rest", where templated tells whether  *)
(* there is a template left when GraphQuery has filled in the source's       *)
(* identity, so that the source's metadata is read to fill in the rest.      *)

\* A GraphQL query asks for one label at least.
Hops == Seq([label : EdgeLabel, kind : Kind \cup {AnyKind, GroupOnly}]) \ {<<>>}

IsQuery(q) ==
  /\ q.src \in OID /\ q.target \in Kind
  /\ \/ q.type = "graphql" /\ q.hops \in Hops /\ q.expand \in BOOLEAN
     \/ q.type = "rest" /\ q.templated \in BOOLEAN

Done(result) ==
  /\ qpc' = "done" /\ reply' = result
  /\ UNCHANGED <<query, todo, refs, unread, objs>>

Starts(r, at) ==
  /\ query' = r /\ qpc' = at
  /\ todo' = IF r.type = "graphql" THEN {<<r.src>>} ELSE {}
  /\ UNCHANGED <<refs, unread, objs, reply>>

StartHistory ==
  /\ ever' = LinkedNow /\ always' = ever'
  /\ present' = InSight /\ gone' = OID \ InSight

\* ExecQuery and ExecRawQuery: the target kind is looked up before anything.
ExecQuery(r) ==
  /\ qpc = "idle"
  /\ \/ /\ Lacks(r.target)
        /\ query' = r /\ qpc' = "done" /\ reply' = "failed"
        /\ UNCHANGED <<todo, refs, unread, objs>>
     \/ /\ Maps(r.target)
        /\ Starts(r, CASE r.type = "graphql" -> "resolve"
                       [] r.type = "rest" /\ r.templated -> "template"
                       [] OTHER -> "create")
  /\ StartHistory
  /\ UNCHANGED <<worldVars, created, changes>>

Wanted(hop, x) == hop.kind \in {AnyKind, KindOf[x]}

\* Faulty: one hop too many.
IsLastPast(p) == Len(p) > Len(query.hops)

IsLast(p) == Len(p) = Len(query.hops)

\* Faulty: the references of one branch replace those of another.
CollectOver(p, found) == IF IsLast(p) THEN {KeyOf[y] : y \in found} ELSE refs

\* extractRefs: the references found at the last hop join the others.
Collect(p, found) == refs \cup (IF IsLast(p) THEN {KeyOf[y] : y \in found} ELSE {})

\* The resolver of the next hop of one branch.  A branch may come to an object
\* twice, and back to the source.  An error fails the query when it is
\* complete, here at once.
Resolve(p) ==
  LET hop   == query.hops[Len(p)]
      found == {y \in Links(p[Len(p)], hop.label) : Wanted(hop, y)}
  IN  /\ qpc = "resolve" /\ p \in todo
      /\ \/ /\ hop.kind = GroupOnly
            /\ Done("failed")
         \/ /\ hop.kind # GroupOnly
            /\ todo' = (todo \ {p}) \cup (IF IsLast(p) THEN {} ELSE {Append(p, y) : y \in found})
            /\ refs' = Collect(p, found)
            /\ UNCHANGED <<query, qpc, unread, objs, reply>>
      /\ UNCHANGED <<worldVars, mapperVars, created, changes, historyVars>>

\* execRawGraphQLQuery has its references; ExecGraphQLQuery goes on to look up
\* the target kind.
Resolved ==
  /\ qpc = "resolve" /\ todo = {}
  /\ IF query.expand THEN qpc' = "map" /\ UNCHANGED <<query, todo, refs, unread, objs, reply>>
                     ELSE Done("ok")
  /\ UNCHANGED <<worldVars, mapperVars, created, changes, historyVars>>

MapTarget ==
  /\ qpc = "map"
  /\ \/ /\ Maps(query.target)
        /\ qpc' = "expand" /\ unread' = refs /\ UNCHANGED <<query, todo, refs, objs, reply>>
     \/ /\ Lacks(query.target)
        /\ Done("failed")
  /\ UNCHANGED <<worldVars, created, changes, historyVars>>

Named(ref) == {x \in OID : KindOf[x] = query.target /\ KeyOf[x] = ref}

\* Faulty: an object that is not found is shown all the same.
ReadBlindly(ref) == Named(ref)

\* One that is not found is left out.
Read(ref) == Named(ref) \cap InSight

\* One reference is read, as soon as the kind's informer has listed it.
Expand(ref) ==
  /\ qpc = "expand" /\ ref \in unread
  /\ Ready(query.target, "object")
  /\ unread' = unread \ {ref}
  /\ objs'   = objs \cup Read(ref)
  /\ UNCHANGED <<worldVars, mapperVars, created, changes, historyVars, query, qpc, todo, refs, reply>>

Expanded ==
  /\ qpc = "expand" /\ unread = {}
  /\ Done("ok")
  /\ UNCHANGED <<worldVars, mapperVars, created, changes, historyVars>>

\* renderRESTQuery: the source's kind is looked up,
MapSource ==
  /\ qpc = "template"
  /\ \/ /\ Maps(KindOf[query.src])
        /\ qpc' = "source" /\ UNCHANGED <<query, todo, refs, unread, objs, reply>>
     \/ /\ Lacks(KindOf[query.src])
        /\ Done("failed")
  /\ UNCHANGED <<worldVars, created, changes, historyVars>>

\* and the source is read.
ReadSource ==
  /\ qpc = "source"
  /\ Ready(KindOf[query.src], "metadata")
  /\ \/ /\ query.src \in Sight("metadata")
        /\ qpc' = "create" /\ UNCHANGED <<query, todo, refs, unread, objs, reply>>
     \/ /\ query.src \notin Sight("metadata")
        /\ Done("failed")
  /\ UNCHANGED <<worldVars, mapperVars, created, changes, historyVars>>

\* execRestQuery: an object is created, and is the answer.
CreateAnswer ==
  /\ qpc = "create"
  /\ \/ /\ query.target \in served
        /\ created' = created + 1
        /\ Done("ok")
     \/ /\ query.target \notin served
        /\ Done("failed")
        /\ UNCHANGED created
  /\ UNCHANGED <<worldVars, mapperVars, changes, historyVars>>

\* The kind that the next request is about.
Requested == IF qpc \in {"template", "source"} THEN KindOf[query.src] ELSE query.target

\* A request fails, for another reason than that something is not found; those
\* about a kind that is not served, or not known to the mapper any more, may at
\* any time.  A creation that fails may have been made all the same.
RequestFails ==
  /\ qpc \in {"map", "template", "source", "create"} \/ (qpc = "expand" /\ unread # {})
  /\ \/ /\ changes < MaxChanges
        /\ changes' = changes + 1
        /\ UNCHANGED created \/ (qpc = "create" /\ created' = created + 1)
     \/ /\ Requested \notin served \cap mapped
        /\ UNCHANGED <<created, changes>>
  /\ Done("failed")
  /\ UNCHANGED <<worldVars, mapperVars, historyVars>>

Execute ==
  \/ \E p \in todo : Resolve(p)
  \/ Resolved
  \/ MapTarget
  \/ \E ref \in unread : Expand(ref)
  \/ Expanded
  \/ MapSource
  \/ ReadSource
  \/ CreateAnswer

\* The query waits for an informer, if that is not synced.
AnswerAwaits(k, form) ==
  \/ qpc = "expand" /\ unread # {} /\ k = query.target /\ form = "object"
  \/ qpc = "source" /\ k = KindOf[query.src] /\ form = "metadata"

\* What the caller makes of the answer is up to it.
Forget ==
  /\ qpc' = "idle" /\ query' = <<>> /\ todo' = {} /\ refs' = {} /\ unread' = {} /\ objs' = {} /\ reply' = "none"
  /\ ever' = {} /\ always' = {} /\ present' = {} /\ gone' = {}

World ==
  \/ \E x \in OID : \E conns \in MayDeclare(x) : UpdateGraph(x, conns)
  \/ \E x \in OID : CreateOrDelete(x)
  \/ \E k \in Kind : Serve(k)
  \/ LookupElsewhere
  \/ \E x \in OID, form \in Form : Catch(x, form)

-----------------------------------------------------------------------------
(* Properties *)

QueryTypeOK ==
  /\ TypeOK
  /\ ClientTypeOK
  /\ qpc \in {"idle", "resolve", "map", "expand", "template", "source", "create", "done"}
  /\ reply \in {"none", "ok", "failed"}
  /\ \A p \in todo : Len(p) \in DOMAIN query.hops /\ p[1] = query.src
  /\ refs \subseteq {KeyOf[x] : x \in OID} /\ unread \subseteq refs
  /\ objs \subseteq OID

\* Where hop i of the query leads from the objects of from, if rel is what is
\* linked; where the first i hops lead from the source; and where all do.
Step(i, rel, from) ==
  {y \in OID : /\ Wanted(query.hops[i], y)
               /\ \E x \in from : <<<<query.hops[i].label, x>>, y>> \in rel}

Levels(rel) ==
  LET f[i \in 0..Len(query.hops)] == IF i = 0 THEN {query.src} ELSE Step(i, rel, f[i - 1])
  IN  f

Ends(rel) == Levels(rel)[Len(query.hops)]

Answered == qpc \in {"map", "expand", "done"} /\ query.type = "graphql" /\ reply # "failed"

\* A query of several hops sees a different graph at each object that it comes
\* through.  Still it finds everything to which there was a way all the time,
\* and nothing to which the hops did not lead, each at some time.
RefsBetween ==
  Answered => LET keys(S) == {KeyOf[x] : x \in S}
              IN  keys(Ends(always)) \subseteq refs /\ refs \subseteq keys(Ends(ever))

\* The same for the objects, if the last hop asks for the target kind: then a
\* reference, which has no kind, stands for the object that was found.  What
\* was in the client's sight all the time, in its cache or in the cluster, is
\* not left out, and an object that was deleted, which is in the graph for ever,
\* is in an answer only while the cache that is read still has it.
ObjectsAreAnswers ==
  Answered /\ qpc = "done" /\ query.expand /\ query.hops[Len(query.hops)].kind = query.target =>
    /\ Ends(always) \cap present \subseteq objs
    /\ objs \subseteq Ends(ever) \ gone
=============================================================================
