--------------------------- MODULE ResourceGraph ---------------------------
(***************************************************************************)
(* ResourceGraph (graph/graph.go): what /graph shows of one object.  A     *)
(* first walk collects the edges along offshoot and, with them, the        *)
(* object's offshoots; then one walk per other label starts at all of them *)
(* and leaves out every object of a kind that is among the offshoots.      *)
(*                                                                         *)
(* A call holds the read lock throughout (module GraphReaders), so here    *)
(* Updates come between calls, and one call at a time is enough.  The      *)
(* worklist is a set: the order of the answer is not looked at, and the    *)
(* second visit of an object that was queued twice finds nothing new.      *)
(***************************************************************************)
EXTENDS ObjectGraph

CONSTANTS
  GroupKind,   \* the kinds of the objects
  GroupKindOf, \* GroupKindOf[x]: the kind that the OID x names
  Offshoot,    \* apiv1.EdgeOffshoot
  View,        \* apiv1.EdgeView
  Before       \* the pairs <<x, y>> with x < y, as strings

ASSUME KindsAssumption  == GroupKindOf \in [OID -> GroupKind]
ASSUME LabelsAssumption == Offshoot \in EdgeLabel
ASSUME BeforeAssumption ==
  \A x, y \in OID : x # y => (<<x, y>> \in Before <=> <<y, x>> \notin Before)

\* hub.ListEdgeLabels(EdgeOffshoot, EdgeView)
OtherLabels == EdgeLabel \ {Offshoot, View}

VARIABLES
  pc,          \* "idle", in the loop of a "walk", or about to "respond"
  src,         \* the object asked about
  label,       \* the label of the walk
  labels,      \* the labels still to be walked
  todo,        \* idsToProcess
  processed,   \* processed
  offshoots,   \* what the first walk has processed, once it has ended
  connections  \* pairs <<e, l>>: label l is in connections[e]

call      == <<pc, src, label, labels, todo, processed, offshoots, connections>>
graphVars == <<edges, ids>>
allVars   == <<edges, ids, pc, src, label, labels, todo, processed, offshoots, connections>>

ResourceInit ==
  /\ Init
  /\ pc          = "idle"
  /\ src         \in OID
  /\ label       = Offshoot
  /\ labels      = {}
  /\ todo        = {}
  /\ processed   = {}
  /\ offshoots   = {}
  /\ connections = {}


\* The objectEdge between x and y: the lesser one is the source.
Key(x, y) == IF <<x, y>> \in Before THEN <<x, y>> ELSE <<y, x>>

KindsOf(S) == {GroupKindOf[x] : x \in S}

\* Faulty: only the kind of the object itself is left out.
SkipOwnKind(S) == KindsOf(S \cap {src})

\* The kinds to be left out, S being the offshoots: none while there are none.
Skip(S) == KindsOf(S)

\* The neighbours of x along l, those of the kinds in skip left out.
Near(x, l, skip) == {y \in edges[x][l] : GroupKindOf[y] \notin skip}

-----------------------------------------------------------------------------
UpdateGraph(x, conns) ==
  /\ pc = "idle"
  /\ Update(x, conns)
  /\ UNCHANGED call

\* Faulty: offshoot is walked once more, with the other labels.
StartAllLabels(x) ==
  /\ pc = "idle"
  /\ pc'          = "walk"
  /\ src'         = x
  /\ label'       = Offshoot
  /\ labels'      = EdgeLabel
  /\ todo'        = {x}
  /\ processed'   = {}
  /\ offshoots'   = {}
  /\ connections' = {}
  /\ UNCHANGED graphVars

StartResourceGraph(x) ==
  /\ pc = "idle"
  /\ pc'          = "walk"
  /\ src'         = x
  /\ label'       = Offshoot
  /\ labels'      = OtherLabels
  /\ todo'        = {x}
  /\ processed'   = {}
  /\ offshoots'   = {}
  /\ connections' = {}
  /\ UNCHANGED graphVars

\* Faulty: processed is not consulted.
ConnectedEdgesAgain(x) ==
  /\ pc = "walk"
  /\ x \in todo
  /\ LET near == Near(x, label, Skip(offshoots))
     IN  /\ processed'   = processed \cup {x}
         /\ todo'        = (todo \ {x}) \cup near
         /\ connections' = connections \cup {<<Key(x, y), label>> : y \in near}
  /\ UNCHANGED <<graphVars, pc, src, label, labels, offshoots>>

\* One iteration of connectedEdges.
ConnectedEdges(x) ==
  /\ pc = "walk"
  /\ x \in todo
  /\ LET near == Near(x, label, Skip(offshoots))
     IN  /\ processed'   = processed \cup {x}
         /\ todo'        = (todo \ {x}) \cup (near \ processed')
         /\ connections' = connections \cup {<<Key(x, y), label>> : y \in near}
  /\ UNCHANGED <<graphVars, pc, src, label, labels, offshoots>>

\* Faulty: the other walks start at the object alone.
WalkEndsAtSource ==
  /\ pc = "walk"
  /\ todo = {}
  /\ offshoots' = IF label = Offshoot THEN processed ELSE offshoots
  /\ processed' = {}
  /\ \/ /\ labels = {}
        /\ pc' = "respond"
        /\ UNCHANGED <<label, labels, todo>>
     \/ \E l \in labels :
          /\ label'  = l
          /\ labels' = labels \ {l}
          /\ todo'   = {src}
          /\ UNCHANGED pc
  /\ UNCHANGED <<graphVars, src, connections>>

\* The first walk's result is where the others start, and it tells the kinds
\* that they leave out.
WalkEnds ==
  /\ pc = "walk"
  /\ todo = {}
  /\ offshoots' = IF label = Offshoot THEN processed ELSE offshoots
  /\ processed' = {}
  /\ \/ /\ labels = {}
        /\ pc' = "respond"
        /\ UNCHANGED <<label, labels, todo>>
     \/ \E l \in labels :
          /\ label'  = l
          /\ labels' = labels \ {l}
          /\ todo'   = offshoots'
          /\ UNCHANGED pc
  /\ UNCHANGED <<graphVars, src, connections>>

\* The connections are returned, or an error if the mapper does not know the
\* kind of one of their ends.
Respond ==
  /\ pc = "respond"
  /\ pc'          = "idle"
  /\ offshoots'   = {}
  /\ connections' = {}
  /\ UNCHANGED <<graphVars, src, label, labels, todo, processed>>

-----------------------------------------------------------------------------
Answering == (\E x \in OID : ConnectedEdges(x)) \/ WalkEnds \/ Respond

ResourceNext ==
  \/ \E x \in OID : \E conns \in ConnsOf(x) : UpdateGraph(x, conns)
  \/ \E x \in OID : StartResourceGraph(x)
  \/ Answering

ResourceSpec == ResourceInit /\ [][ResourceNext]_allVars

\* The loops do not block.
FairResourceSpec == ResourceSpec /\ WF_allVars(Answering)

-----------------------------------------------------------------------------
(* Properties *)

Connections == ((OID \X OID) \X EdgeLabel)

ResourceTypeOK ==
  /\ TypeOK
  /\ pc          \in {"idle", "walk", "respond"}
  /\ src         \in OID
  /\ label       \in EdgeLabel
  /\ labels      \subseteq OtherLabels
  /\ todo        \subseteq OID
  /\ processed   \subseteq OID
  /\ offshoots   \subseteq OID
  /\ connections \subseteq Connections

Closed(C, l, skip) == \A x \in C : Near(x, l, skip) \subseteq C

\* What paths along l that keep clear of the kinds in skip lead to from S.
Reach(S, l, skip) ==
  {x \in OID : \A C \in SUBSET OID : S \subseteq C /\ Closed(C, l, skip) => x \in C}

EdgesAlong(C, l, skip) ==
  UNION {{<<Key(x, y), l>> : y \in Near(x, l, skip)} : x \in C}

Offshoots(x) == Reach({x}, Offshoot, {})

\* The edges along offshoot around x and, per other label, those on paths from
\* the offshoots that keep clear of the offshoots' kinds.
Expected(x) ==
  LET S    == Offshoots(x)
      skip == KindsOf(S)
  IN  EdgesAlong(S, Offshoot, {})
        \cup UNION {EdgesAlong(Reach(S, l, skip), l, skip) : l \in OtherLabels}

\* The response has exactly the expected connections.
ResponseExact == pc = "respond" => connections = Expected(src)

\* Whichever of the objects that belong together had been asked about, the
\* response would have been the same.
OffshootsAgree == pc = "respond" => \A y \in offshoots : connections = Expected(y)

\* The response does not stray to somebody else's objects: an object that is of
\* the kind of an offshoot is an offshoot itself (behind a Service that two
\* Deployments share, only the Pods of the one asked about appear).
NoStrangers ==
  pc = "respond" =>
    \A c \in connections : \A i \in {1, 2} :
      GroupKindOf[c[1][i]] \in KindsOf(Offshoots(src)) => c[1][i] \in Offshoots(src)

\* Every edge is walked in both directions, and every call ends.
ResourceGraphReturns == pc # "idle" ~> pc = "idle"
=============================================================================
