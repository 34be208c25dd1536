------------------------ MODULE ResourceGraph_proofs ------------------------
(***************************************************************************)
(* ResourceGraph, for every graph, every kind and every number of labels.  *)
(***************************************************************************)
EXTENDS ResourceGraph, ObjectGraph_proofs

(***************************************************************************)
(* Reachability.                                                           *)
(***************************************************************************)

\* Paths lead to objects, and at least to where they start.
LEMMA ReachExtends ==
  ASSUME NEW S \in SUBSET OID, NEW l, NEW skip
  PROVE  S \subseteq Reach(S, l, skip) /\ Reach(S, l, skip) \subseteq OID
BY DEF Reach

\* What is reached is closed.
LEMMA ReachClosed ==
  ASSUME TypeOK, NEW S, NEW l \in EdgeLabel, NEW skip
  PROVE  Closed(Reach(S, l, skip), l, skip)
<1> SUFFICES ASSUME NEW x \in Reach(S, l, skip), NEW y \in Near(x, l, skip)
             PROVE  y \in Reach(S, l, skip)
  BY DEF Closed
<1>1. x \in OID /\ y \in OID
  BY DEF TypeOK, Conns, Reach, Near
<1> QED
  BY <1>1 DEF Reach, Closed

\* A closed set that holds the starting points holds what they reach.
LEMMA ReachLeast ==
  ASSUME NEW C \in SUBSET OID, NEW S, NEW l, NEW skip, S \subseteq C, Closed(C, l, skip)
  PROVE  Reach(S, l, skip) \subseteq C
BY DEF Reach

-----------------------------------------------------------------------------
(***************************************************************************)
(* The calls change nothing: ObjectGraph's theorems hold here.             *)
(***************************************************************************)

\* A graph that is asked is, of its edges, a graph that is updated.
THEOREM RequestsAreInvisible == ResourceSpec => Spec
<1>1. ResourceInit => Init
  BY DEF ResourceInit
<1>2. [ResourceNext]_allVars => [Next]_vars
  <2> SUFFICES ASSUME [ResourceNext]_allVars PROVE [Next]_vars
    OBVIOUS
  <2>1. ASSUME NEW x \in OID, NEW conns \in ConnsOf(x), UpdateGraph(x, conns) PROVE Next
    BY <2>1 DEF UpdateGraph, Next
  <2>2. ASSUME NEW x \in OID, StartResourceGraph(x) PROVE UNCHANGED vars
    BY <2>2 DEF StartResourceGraph, graphVars, vars
  <2>3. CASE Answering
    BY <2>3 DEF Answering, ConnectedEdges, WalkEnds, Respond, graphVars, vars
  <2>4. CASE UNCHANGED allVars
    BY <2>4 DEF allVars, vars
  <2> QED
    BY <2>1, <2>2, <2>3, <2>4 DEF ResourceNext
<1> QED
  BY <1>1, <1>2, PTL DEF ResourceSpec, Spec

-----------------------------------------------------------------------------
(***************************************************************************)
(* The loop invariant of connectedEdges, and what the walks before have    *)
(* left behind.                                                            *)
(***************************************************************************)

Seeds == IF label = Offshoot THEN {src} ELSE Offshoots(src)

\* What the walk along l adds to the connections.
Along(l) == LET S == Offshoots(src) IN EdgesAlong(Reach(S, l, KindsOf(S)), l, KindsOf(S))

\* What the walks that have ended have added.
Earlier ==
  IF label = Offshoot THEN {}
  ELSE EdgesAlong(Offshoots(src), Offshoot, {})
         \cup UNION {Along(l) : l \in OtherLabels \ (labels \cup {label})}

WalkInv ==
  LET skip     == Skip(offshoots)
      frontier == processed \cup todo
  IN  /\ IF label = Offshoot
         THEN offshoots = {} /\ labels = OtherLabels
         ELSE offshoots = Offshoots(src) /\ label \in OtherLabels \ labels
      /\ Seeds \subseteq frontier
      /\ \A x \in processed : Near(x, label, skip) \subseteq frontier
      /\ frontier \subseteq Reach(Seeds, label, skip)
      /\ connections = Earlier \cup EdgesAlong(processed, label, skip)

ResourceInv ==
  /\ ResourceTypeOK
  /\ pc = "walk" => WalkInv
  /\ pc = "respond" => connections = Expected(src) /\ offshoots = Offshoots(src)

\* An object asked about belongs together with objects.
LEMMA OffshootsType ==
  ASSUME NEW x \in OID PROVE Offshoots(x) \subseteq OID /\ x \in Offshoots(x)
BY ReachExtends DEF Offshoots

\* The pair that stands for an edge consists of its ends.
LEMMA KeyType ==
  ASSUME NEW x \in OID, NEW y \in OID
  PROVE  /\ Key(x, y) \in OID \X OID
         /\ Key(x, y) \in {<<x, y>>, <<y, x>>}
BY DEF Key

\* One more object processed adds the edges of its neighbourhood.
LEMMA EdgesOneMore ==
  ASSUME NEW C, NEW x, NEW l, NEW skip
  PROVE  EdgesAlong(C \cup {x}, l, skip)
           = EdgesAlong(C, l, skip) \cup {<<Key(x, y), l>> : y \in Near(x, l, skip)}
BY DEF EdgesAlong

\* One more label walked adds what its walk found.
LEMMA LabelsOneMore ==
  ASSUME NEW L, NEW m
  PROVE  UNION {Along(l) : l \in L \cup {m}} = (UNION {Along(l) : l \in L}) \cup Along(m)
OBVIOUS

\* A walk that has nothing left to visit has been everywhere.
LEMMA WalkComplete ==
  ASSUME ResourceInv, pc = "walk", todo = {}
  PROVE  processed = Reach(Seeds, label, Skip(offshoots))
<1>1. WalkInv /\ processed \in SUBSET OID
  BY DEF ResourceInv, ResourceTypeOK
<1>2. Closed(processed, label, Skip(offshoots)) /\ Seeds \subseteq processed
  BY <1>1 DEF WalkInv, Closed
<1>3. Reach(Seeds, label, Skip(offshoots)) \subseteq processed
  BY <1>1, <1>2, ReachLeast
<1> QED
  BY <1>1, <1>3 DEF WalkInv

\* The connections when a walk has ended.
LEMMA WalkResult ==
  ASSUME ResourceInv, pc = "walk", todo = {}
  PROVE  /\ label = Offshoot => /\ processed = Offshoots(src)
                                /\ labels = OtherLabels
                                /\ connections = EdgesAlong(Offshoots(src), Offshoot, {})
         /\ label # Offshoot =>
              /\ offshoots = Offshoots(src)
              /\ connections = EdgesAlong(Offshoots(src), Offshoot, {})
                                 \cup UNION {Along(l) : l \in OtherLabels \ labels}
<1>1. WalkInv /\ processed = Reach(Seeds, label, Skip(offshoots))
  BY WalkComplete DEF ResourceInv
<1>2. connections = Earlier \cup EdgesAlong(processed, label, Skip(offshoots))
  BY <1>1 DEF WalkInv
<1>3. CASE label = Offshoot
  <2>1. Skip(offshoots) = {}
    BY <1>1, <1>3 DEF WalkInv, Skip, KindsOf
  <2>2. processed = Offshoots(src)
    BY <1>1, <1>3, <2>1 DEF Seeds, Offshoots
  <2> QED
    BY <1>1, <1>2, <1>3, <2>1, <2>2 DEF Earlier, WalkInv
<1>4. CASE label # Offshoot
  <2>1. offshoots = Offshoots(src) /\ label \in OtherLabels \ labels
    BY <1>1, <1>4 DEF WalkInv
  <2>2. EdgesAlong(processed, label, Skip(offshoots)) = Along(label)
    BY <1>1, <1>4, <2>1 DEF Seeds, Along, Skip
  <2>3. OtherLabels \ labels = (OtherLabels \ (labels \cup {label})) \cup {label}
    BY <2>1
  <2>4. UNION {Along(l) : l \in OtherLabels \ labels}
          = (UNION {Along(l) : l \in OtherLabels \ (labels \cup {label})}) \cup Along(label)
    BY <2>3, LabelsOneMore
  <2> QED
    BY <1>2, <1>4, <2>1, <2>2, <2>4 DEF Earlier
<1> QED
  BY <1>3, <1>4

-----------------------------------------------------------------------------
(***************************************************************************)
(* The steps.                                                              *)
(***************************************************************************)

\* Nobody is in a walk before the first call.
LEMMA ResourceInvInit == ResourceInit => ResourceInv
<1> SUFFICES ASSUME ResourceInit PROVE ResourceInv
  OBVIOUS
<1>1. TypeOK
  BY InitTypeOK DEF ResourceInit
<1> QED
  BY <1>1, LabelsAssumption DEF ResourceInit, ResourceInv, ResourceTypeOK

\* The first walk starts at the object asked about, with no connections.
LEMMA StartInv ==
  ASSUME ResourceInv, NEW x \in OID, StartResourceGraph(x)
  PROVE  ResourceInv'
<1>1. /\ pc' = "walk" /\ src' = x /\ label' = Offshoot /\ labels' = OtherLabels
      /\ todo' = {x} /\ processed' = {} /\ offshoots' = {} /\ connections' = {}
      /\ edges' = edges /\ ids' = ids
  BY DEF StartResourceGraph, graphVars
<1>2. ResourceTypeOK'
  BY <1>1, LabelsAssumption DEF ResourceInv, ResourceTypeOK, TypeOK
<1>3. Seeds' = {x}
  BY <1>1 DEF Seeds
<1>4. ({x} \subseteq Reach({x}, Offshoot, Skip({})))'
  BY DEF Reach
<1>5. EdgesAlong({}, Offshoot, Skip({}))' = {}
  BY DEF EdgesAlong
<1>6. Earlier' = {}
  BY <1>1 DEF Earlier
<1>7. WalkInv'
  BY <1>1, <1>3, <1>4, <1>5, <1>6 DEF WalkInv
<1> QED
  BY <1>1, <1>2, <1>7 DEF ResourceInv

\* An iteration of connectedEdges keeps its loop invariant.
LEMMA ConnectedEdgesInv ==
  ASSUME ResourceInv, NEW x \in OID, ConnectedEdges(x)
  PROVE  ResourceInv'
<1> DEFINE skip == Skip(offshoots)
           near == Near(x, label, skip)
           new  == {<<Key(x, y), label>> : y \in near}
<1>1. /\ pc = "walk" /\ x \in todo
      /\ processed' = processed \cup {x}
      /\ todo' = (todo \ {x}) \cup (near \ processed')
      /\ connections' = connections \cup new
      /\ UNCHANGED <<edges, ids, pc, src, label, labels, offshoots>>
  BY DEF ConnectedEdges, graphVars
<1>2. ResourceTypeOK /\ WalkInv /\ label \in EdgeLabel /\ TypeOK
  BY <1>1 DEF ResourceInv, ResourceTypeOK
<1>3. near \subseteq OID
  BY <1>2 DEF Near, TypeOK, Conns
<1>4. new \subseteq Connections
  BY <1>2, <1>3, KeyType DEF Connections
<1>5. ResourceTypeOK'
  BY <1>1, <1>2, <1>3, <1>4 DEF ResourceTypeOK, TypeOK
<1>6. (processed \cup todo)' = processed \cup todo \cup near
  BY <1>1
<1>7. /\ Seeds' = Seeds /\ Skip(offshoots)' = skip
      /\ Reach(Seeds, label, Skip(offshoots))' = Reach(Seeds, label, skip)
      /\ \A z \in OID : Near(z, label, skip)' = Near(z, label, skip)
  BY <1>1 DEF Seeds, Skip, KindsOf, Offshoots, Reach, Closed, Near
<1>8. near \subseteq Reach(Seeds, label, skip)
  <2>1. x \in Reach(Seeds, label, skip)
    BY <1>1, <1>2 DEF WalkInv
  <2> QED
    BY <1>2, <2>1, ReachClosed DEF Closed
<1>9. /\ Earlier' = Earlier
      /\ EdgesAlong(processed', label, skip) = EdgesAlong(processed, label, skip) \cup new
      /\ EdgesAlong(processed, label, Skip(offshoots))' = EdgesAlong(processed', label, skip)
  <2>1. Earlier' = Earlier
    BY <1>1 DEF Earlier, Along, EdgesAlong, Offshoots, Reach, Closed, Near, KindsOf, Key
  <2>2. EdgesAlong(processed', label, skip) = EdgesAlong(processed, label, skip) \cup new
    BY <1>1, EdgesOneMore
  <2>3. EdgesAlong(processed, label, Skip(offshoots))' = EdgesAlong(processed', label, skip)
    BY <1>1, <1>7 DEF EdgesAlong, Near, Key
  <2> QED
    BY <2>1, <2>2, <2>3
<1>10. WalkInv'
  <2> USE <1>1, <1>2
  <2>1. (IF label = Offshoot
         THEN offshoots = {} /\ labels = OtherLabels
         ELSE offshoots = Offshoots(src) /\ label \in OtherLabels \ labels)'
    BY DEF WalkInv, Offshoots, Reach, Closed, Near
  <2>2. \A z \in processed' : Near(z, label, skip) \subseteq processed \cup todo \cup near
    BY DEF WalkInv
  <2>3. \A z \in processed' : z \in OID
    BY DEF ResourceTypeOK
  <2>4. connections' = Earlier \cup EdgesAlong(processed, label, skip) \cup new
    BY DEF WalkInv
  <2>5. /\ Seeds \subseteq processed \cup todo \cup near
        /\ processed \cup todo \cup near \subseteq Reach(Seeds, label, skip)
    BY <1>8 DEF WalkInv
  <2> HIDE DEF near, new, skip
  <2>6. (Seeds \subseteq processed \cup todo)'
    BY <1>6, <1>7, <2>5
  <2>7. (\A z \in processed : Near(z, label, Skip(offshoots)) \subseteq processed \cup todo)'
    <3>1. \A z \in OID : Near(z, label, Skip(offshoots))' = Near(z, label, skip)
      BY <1>7 DEF Near
    <3> QED
      BY <1>6, <2>2, <2>3, <3>1
  <2>8. (processed \cup todo \subseteq Reach(Seeds, label, Skip(offshoots)))'
    BY <1>6, <1>7, <2>5
  <2>9. (connections = Earlier \cup EdgesAlong(processed, label, Skip(offshoots)))'
    BY <1>9, <2>4
  <2> QED
    BY <2>1, <2>6, <2>7, <2>8, <2>9 DEF WalkInv
<1> QED
  BY <1>1, <1>5, <1>10 DEF ResourceInv

\* Every later walk starts at all the offshoots and keeps clear of their kinds;
\* after the last one the connections are complete.
LEMMA WalkEndsInv ==
  ASSUME ResourceInv, WalkEnds
  PROVE  ResourceInv'
<1> DEFINE S == Offshoots(src)
           walked == OtherLabels \ labels
<1>1. /\ pc = "walk" /\ todo = {}
      /\ processed' = {}
      /\ UNCHANGED <<edges, ids, src, connections>>
  BY DEF WalkEnds, graphVars
<1>2. ResourceTypeOK /\ S \subseteq OID
  BY <1>1, OffshootsType DEF ResourceInv, ResourceTypeOK
<1>3. offshoots' = S
  BY <1>1, WalkResult DEF WalkEnds
<1>4. connections = EdgesAlong(S, Offshoot, {}) \cup UNION {Along(l) : l \in walked}
  <2>1. label = Offshoot => walked = {}
    BY <1>1, WalkResult
  <2>2. walked = {} => UNION {Along(l) : l \in walked} = {}
    OBVIOUS
  <2> HIDE DEF walked
  <2>3. CASE label = Offshoot
    BY <1>1, <2>1, <2>2, <2>3, WalkResult
  <2>4. CASE label # Offshoot
    BY <1>1, <2>4, WalkResult DEF walked
  <2> QED
    BY <2>3, <2>4
<1>5. /\ Offshoots(src)' = S
      /\ EdgesAlong(S, Offshoot, {})' = EdgesAlong(S, Offshoot, {})
      /\ \A l : Along(l)' = Along(l)
  BY <1>1 DEF Offshoots, Along, EdgesAlong, Reach, Closed, Near, KindsOf, Key
<1>6. CASE labels = {} /\ pc' = "respond" /\ UNCHANGED <<label, labels, todo>>
  <2>1. connections = Expected(src)
    BY <1>4, <1>6 DEF Expected, Along
  <2>2. Expected(src)' = Expected(src)
    BY <1>1 DEF Expected, EdgesAlong, Offshoots, Reach, Closed, Near, KindsOf, Key
  <2>3. ResourceTypeOK'
    BY <1>1, <1>2, <1>3, <1>6 DEF ResourceTypeOK, TypeOK
  <2> QED
    BY <1>1, <1>3, <1>5, <1>6, <2>1, <2>2, <2>3 DEF ResourceInv
<1>7. ASSUME NEW l \in labels, label' = l, labels' = labels \ {l}, todo' = offshoots', UNCHANGED pc
      PROVE  ResourceInv'
  <2>1. l \in OtherLabels /\ l \in EdgeLabel /\ l # Offshoot
    BY <1>2 DEF ResourceTypeOK, OtherLabels
  <2>2. ResourceTypeOK'
    BY <1>1, <1>2, <1>3, <1>7, <2>1 DEF ResourceTypeOK, TypeOK
  <2>3. Seeds' = S /\ todo' = S
    BY <1>3, <1>5, <1>7, <2>1 DEF Seeds
  <2>4. (Seeds \subseteq Reach(Seeds, label, Skip(offshoots)))'
    BY <1>2, <2>3 DEF Reach
  <2>5. Earlier' = EdgesAlong(S, Offshoot, {}) \cup UNION {Along(m) : m \in walked}
    <3>1. OtherLabels \ (labels' \cup {label'}) = walked
      BY <1>7
    <3> QED
      BY <1>5, <1>7, <2>1, <3>1 DEF Earlier
  <2>6. EdgesAlong(processed, label, Skip(offshoots))' = {}
    BY <1>1 DEF EdgesAlong
  <2>7. connections' = Earlier'
    BY <1>1, <1>4, <2>5
  <2>8. WalkInv'
    BY <1>1, <1>3, <1>5, <1>7, <2>1, <2>3, <2>4, <2>6, <2>7 DEF WalkInv
  <2> QED
    BY <1>1, <1>7, <2>2, <2>8 DEF ResourceInv
<1> QED
  BY <1>6, <1>7 DEF WalkEnds

\* A response leaves nothing behind, and Updates come between the calls.
LEMMA OutsideWalks ==
  ASSUME ResourceInv, TypeOK', pc' = "idle",
         UNCHANGED <<src, label, labels, todo, processed>>,
         offshoots' \subseteq offshoots, connections' \subseteq connections
  PROVE  ResourceInv'
BY DEF ResourceInv, ResourceTypeOK

LEMMA ResourceInvStep == ResourceInv /\ [ResourceNext]_allVars => ResourceInv'
<1> SUFFICES ASSUME ResourceInv, [ResourceNext]_allVars PROVE ResourceInv'
  OBVIOUS
<1>1. ASSUME NEW x \in OID, NEW conns \in ConnsOf(x), UpdateGraph(x, conns)
      PROVE  ResourceInv'
  <2>1. TypeOK'
    BY <1>1, UpdateTypeOK DEF UpdateGraph, ResourceInv, ResourceTypeOK, ConnsOf
  <2> QED
    BY <1>1, <2>1, OutsideWalks DEF UpdateGraph, call
<1>2. CASE Respond
  <2>1. TypeOK'
    BY <1>2 DEF Respond, graphVars, ResourceInv, ResourceTypeOK, TypeOK
  <2> QED
    BY <1>2, <2>1, OutsideWalks DEF Respond
<1>3. CASE UNCHANGED allVars
  <2>1. ResourceTypeOK'
    BY <1>3 DEF allVars, ResourceInv, ResourceTypeOK, TypeOK
  <2>2. WalkInv' <=> WalkInv
    BY <1>3 DEF allVars, WalkInv, Seeds, Earlier, Along, Offshoots, EdgesAlong, Reach, Closed,
                Near, Skip, KindsOf, Key
  <2>3. Expected(src)' = Expected(src) /\ Offshoots(src)' = Offshoots(src)
    BY <1>3 DEF allVars, Expected, EdgesAlong, Offshoots, Reach, Closed, Near, KindsOf, Key
  <2> QED
    BY <1>3, <2>1, <2>2, <2>3 DEF allVars, ResourceInv
<1> QED
  BY <1>1, <1>2, <1>3, StartInv, ConnectedEdgesInv, WalkEndsInv DEF ResourceNext, Answering

\* The invariant of the loops of resourceGraph and connectedEdges.
THEOREM ResourceInductive == ResourceSpec => []ResourceInv
BY ResourceInvInit, ResourceInvStep, PTL DEF ResourceSpec

-----------------------------------------------------------------------------
\* Worklists and connections are of objects, and the labels of the registry.
THEOREM ResourceTypeCorrect == ResourceSpec => []ResourceTypeOK
<1>1. ResourceInv => ResourceTypeOK
  BY DEF ResourceInv
<1> QED
  BY <1>1, ResourceInductive, PTL

\* A response has the connections that the reachability says, no more and no
\* fewer, in whatever order maps and sets are iterated.
THEOREM ResourceGraphCorrect == ResourceSpec => []ResponseExact
<1>1. ResourceInv => ResponseExact
  BY DEF ResourceInv, ResponseExact
<1> QED
  BY <1>1, ResourceInductive, PTL

\* Of the kinds of the offshoots, a response shows the offshoots only.
THEOREM NoStrangersShown == ResourceSpec => []NoStrangers
<1>1. ResourceInv => NoStrangers
  <2> SUFFICES ASSUME ResourceInv, pc = "respond", NEW c \in connections, NEW i \in {1, 2},
                      GroupKindOf[c[1][i]] \in KindsOf(Offshoots(src))
               PROVE  c[1][i] \in Offshoots(src)
    BY DEF NoStrangers
  <2> DEFINE S == Offshoots(src)
             skip == KindsOf(S)
  <2>1. TypeOK /\ src \in OID /\ S \subseteq OID /\ c \in Expected(src)
    BY OffshootsType DEF ResourceInv, ResourceTypeOK
  <2>2. CASE c \in EdgesAlong(S, Offshoot, {})
    <3>1. PICK x \in S : \E y \in Near(x, Offshoot, {}) : c = <<Key(x, y), Offshoot>>
      BY <2>2 DEF EdgesAlong
    <3>2. PICK y \in Near(x, Offshoot, {}) : c = <<Key(x, y), Offshoot>>
      BY <3>1
    <3>3. y \in S
      BY <2>1, LabelsAssumption, ReachClosed DEF Offshoots, Closed
    <3> QED
      BY <2>1, <3>2, <3>3, KeyType
  <2>3. ASSUME NEW l \in OtherLabels, c \in EdgesAlong(Reach(S, l, skip), l, skip)
        PROVE  c[1][i] \in S
    <3> DEFINE R == Reach(S, l, skip)
    <3>1. PICK x \in R : \E y \in Near(x, l, skip) : c = <<Key(x, y), l>>
      BY <2>3 DEF EdgesAlong
    <3>2. PICK y \in Near(x, l, skip) : c = <<Key(x, y), l>>
      BY <3>1
    <3>3. GroupKindOf[y] \notin skip /\ y \in OID /\ x \in OID
      BY <2>1 DEF Near, OtherLabels, TypeOK, Conns, Reach
    <3>4. x \in S \/ GroupKindOf[x] \notin skip
      <4> DEFINE C == {z \in OID : z \in S \/ GroupKindOf[z] \notin skip}
      <4>1. C \in SUBSET OID /\ S \subseteq C
        BY <2>1
      <4>2. Closed(C, l, skip)
        BY <2>1 DEF Closed, Near, OtherLabels, TypeOK, Conns
      <4> HIDE DEF C
      <4>3. R \subseteq C
        BY <4>1, <4>2, ReachLeast
      <4> QED
        BY <4>3 DEF C
    <3> QED
      BY <3>2, <3>3, <3>4, KeyType
  <2> QED
    BY <2>1, <2>2, <2>3 DEF Expected
<1> QED
  BY <1>1, ResourceInductive, PTL

\* The offshoots of an object's offshoots are its own, because edges can be
\* walked from both ends.
LEMMA OffshootsMutual ==
  ASSUME TypeOK, Symmetric, NEW x \in OID, NEW y \in Offshoots(x)
  PROVE  Offshoots(y) = Offshoots(x)
<1>1. /\ y \in OID
      /\ \A z \in OID : /\ Offshoots(z) \in SUBSET OID
                        /\ z \in Offshoots(z)
                        /\ Closed(Offshoots(z), Offshoot, {})
  BY LabelsAssumption, OffshootsType, ReachClosed DEF Offshoots
<1>2. ASSUME NEW z \in OID, NEW w \in Offshoots(z) PROVE Offshoots(w) \subseteq Offshoots(z)
  BY <1>1, <1>2, ReachLeast DEF Offshoots
<1> DEFINE C == {z \in OID : x \in Offshoots(z)}
<1>3. C \in SUBSET OID /\ {x} \subseteq C
  BY <1>1
<1>4. Closed(C, Offshoot, {})
  <2> SUFFICES ASSUME NEW z \in C, NEW w \in Near(z, Offshoot, {}) PROVE w \in C
    BY DEF Closed
  <2>1. w \in OID /\ z \in Near(w, Offshoot, {})
    BY LabelsAssumption, KindsAssumption DEF TypeOK, Conns, Symmetric, Near
  <2>2. z \in Offshoots(w)
    BY <1>1, <2>1 DEF Closed
  <2> QED
    BY <1>2, <2>1, <2>2
<1> HIDE DEF C
<1>5. y \in C
  BY <1>3, <1>4, ReachLeast DEF Offshoots
<1>6. x \in Offshoots(y)
  BY <1>5 DEF C
<1> QED
  BY <1>1, <1>2, <1>6

\* The response depends on the family of objects only, not on which of them is
\* asked about.
THEOREM FamilyAnswersAlike == ResourceSpec => []OffshootsAgree
<1>1. ResourceInv /\ Symmetric => OffshootsAgree
  <2> SUFFICES ASSUME ResourceInv, Symmetric, pc = "respond", NEW y \in offshoots
               PROVE  connections = Expected(y)
    BY DEF OffshootsAgree
  <2>1. src \in OID /\ TypeOK /\ offshoots = Offshoots(src) /\ connections = Expected(src)
    BY DEF ResourceInv, ResourceTypeOK
  <2>2. Offshoots(y) = Offshoots(src)
    BY <2>1, OffshootsMutual
  <2> QED
    BY <2>1, <2>2 DEF Expected
<1>2. ResourceSpec => []Symmetric
  BY RequestsAreInvisible, EdgesSymmetric, TypeCorrect, PTL
<1> QED
  BY <1>1, <1>2, ResourceInductive, PTL
=============================================================================
