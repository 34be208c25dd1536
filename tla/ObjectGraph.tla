----------------------------- MODULE ObjectGraph -----------------------------
(***************************************************************************)
(* The in-memory graph of graph/graph.go: ObjectGraph.edges, ObjectGraph.  *)
(* ids and ObjectGraph.Update.  Update holds the write lock from its first *)
(* line to its return, so a call is one atomic action.                     *)
(*                                                                         *)
(* A Go map key that is absent, and a key whose set is empty, are both the *)
(* empty set here.  They cannot be told apart: edges is only read through  *)
(* a lookup that yields the empty set for both, and the caller of Update   *)
(* (ListConnectedObjectIDs, lib.go:176-184) creates a label only to insert *)
(* into its set, so ids never holds an empty one.                          *)
(***************************************************************************)
CONSTANTS
  OID,        \* object identifiers, "G=..,K=..,NS=..,N=.."
  EdgeLabel,  \* offshoot, exposed_by, ...
  Targets     \* Targets[x][l]: the objects that the registry's connections
              \* of x's kind may find for x under label l

ASSUME TargetsAssumption == Targets \in [OID -> [EdgeLabel -> SUBSET OID]]

VARIABLES
  edges,  \* edges[x][l]: neighbours of x under l, whoever declared them
  ids     \* ids[x][l]: what x itself declared in its latest Update

vars == <<edges, ids>>

Conns == [EdgeLabel -> SUBSET OID]

\* The connections one reconciliation of src can report.
ConnsOf(src) == {conns \in Conns : \A l \in EdgeLabel : conns[l] \subseteq Targets[src][l]}

\* Faulty: the maps of the package variable were not made.
InitNilEdges ==
  /\ edges = [x \in {} |-> {}]
  /\ ids   = [x \in OID |-> [l \in EdgeLabel |-> {}]]

Init ==
  /\ edges = [x \in OID |-> [l \in EdgeLabel |-> {}]]
  /\ ids   = [x \in OID |-> [l \in EdgeLabel |-> {}]]

-----------------------------------------------------------------------------
(* Update *)

(* The definitions marked Faulty are variants of the next one with a bug   *)
(* that it might have had; the properties tell them apart.                 *)

\* Faulty: only src forgets the pairs.
UnlinkForward(adj, src, dsts) ==
  [x \in OID |-> adj[x] \ (IF x = src THEN dsts ELSE {})]

\* The pairs {src, d}, d \in dsts, leave the adjacency adj of one label ...
Unlink(adj, src, dsts) ==
  [x \in OID |-> adj[x] \ ((IF x = src THEN dsts ELSE {}) \cup (IF x \in dsts THEN {src} ELSE {}))]

\* Faulty: the back edge is missing.
LinkForward(adj, src, dsts) ==
  [x \in OID |-> adj[x] \cup (IF x = src THEN dsts ELSE {})]

\* ... and enter it.
Link(adj, src, dsts) ==
  [x \in OID |-> adj[x] \cup (IF x = src THEN dsts ELSE {}) \cup (IF x \in dsts THEN {src} ELSE {})]

\* oldConns.Difference(conns).Len() == 0: nothing declared before is withdrawn,
\* and the label is left as it is, with whatever conns adds to it.
LeftAlone(src, conns, l) == ids[src][l] # {} /\ ids[src][l] \subseteq conns[l]

\* Faulty: what is declared anew is linked, what was declared stays.
RelabelKeepOld(src, conns, l) ==
  LET adj == [x \in OID |-> edges[x][l]]
  IN  IF LeftAlone(src, conns, l) THEN adj ELSE Link(adj, src, conns[l])

\* Faulty: everything is unlinked, but only what is new is linked.
RelabelOnlyNew(src, conns, l) ==
  LET adj == [x \in OID |-> edges[x][l]]
  IN  IF LeftAlone(src, conns, l)
      THEN adj
      ELSE Link(Unlink(adj, src, ids[src][l]), src, conns[l] \ ids[src][l])

\* Faulty: no second loop, a label that conns lacks stays as it is.
RelabelOneLoop(src, conns, l) ==
  LET adj == [x \in OID |-> edges[x][l]]
  IN  IF LeftAlone(src, conns, l) \/ conns[l] = {}
      THEN adj
      ELSE Link(Unlink(adj, src, ids[src][l]), src, conns[l])

\* The adjacency of label l after the call.  A label of ids[src] that conns
\* lacks is unlinked by the second loop; nothing is linked for it.
Relabel(src, conns, l) ==
  LET adj == [x \in OID |-> edges[x][l]]
  IN  IF LeftAlone(src, conns, l)
      THEN adj
      ELSE Link(Unlink(adj, src, ids[src][l]), src, conns[l])

Update(src, conns) ==
  /\ edges' = [x \in OID |-> [l \in EdgeLabel |-> Relabel(src, conns, l)[x]]]
  /\ ids'   = [ids EXCEPT ![src] = conns]

Next == \E src \in OID : \E conns \in ConnsOf(src) : Update(src, conns)

Spec == Init /\ [][Next]_vars

-----------------------------------------------------------------------------
(* Properties *)

TypeOK == edges \in [OID -> Conns] /\ ids \in [OID -> Conns]

\* Every reader walks edges in both directions (a Pod finds its Deployment,
\* a Deployment its Pods), so the two halves of an edge, which Update writes
\* in separate statements, must never come apart.
Symmetric ==
  \A x, y \in OID : \A l \in EdgeLabel : y \in edges[x][l] <=> x \in edges[y][l]

Declared(x, y, l) == y \in ids[x][l] \/ x \in ids[y][l]

\* No phantom edges: an edge is always backed by what one of its endpoints
\* declared in its latest Update, whatever the order of the updates of the
\* two, and whichever labels they dropped on the way.
EdgesDeclared ==
  \A x, y \in OID : \A l \in EdgeLabel : y \in edges[x][l] => Declared(x, y, l)

\* Nothing is lost by accident: an edge disappears in a step only if one of
\* its endpoints declared it before the step and does not after it.  In
\* particular the wholesale delete-then-insert of a changed label puts back
\* everything that is still declared by src, and repeating an Update with the
\* same connections (a resync) removes nothing.
Withdrawn(x, y, l) == y \in ids[x][l] /\ y \notin ids'[x][l]

LostOnlyIfWithdrawn ==
  [][\A x, y \in OID : \A l \in EdgeLabel :
       (y \in edges[x][l] /\ y \notin edges'[x][l])
         => (Withdrawn(x, y, l) \/ Withdrawn(y, x, l))]_vars

\* Every declared edge is in the graph.  Not an invariant of the code.
Complete ==
  \A x, y \in OID : \A l \in EdgeLabel : Declared(x, y, l) => y \in edges[x][l]

-----------------------------------------------------------------------------
(***************************************************************************)
(* The circumstances in which the graph is exact: no two objects declare   *)
(* each other under one label, and no declaration grows without losing     *)
(* something (the LeftAlone shortcut is then taken only when nothing       *)
(* changed).  Under them Update implements DeclaredGraph.                  *)
(***************************************************************************)
OneWay == \A x, y \in OID : \A l \in EdgeLabel : ~(y \in Targets[x][l] /\ x \in Targets[y][l])

Grows(src, conns, l) == LeftAlone(src, conns, l) /\ conns[l] # ids[src][l]

SteadyNext ==
  \E src \in OID : \E conns \in ConnsOf(src) :
    /\ \A l \in EdgeLabel : ~Grows(src, conns, l)
    /\ Update(src, conns)

SteadySpec == Init /\ [][SteadyNext]_vars

Abstract == INSTANCE DeclaredGraph WITH decl <- ids, link <- edges

\* In those circumstances the incremental bookkeeping is invisible: the graph
\* is the symmetric closure of the declarations after every Update.
ImplementsDeclaredGraph == Abstract!Spec
=============================================================================
