------------------------- MODULE ObjectGraph_proofs -------------------------
(***************************************************************************)
(* The object graph for every set of objects, labels and possible          *)
(* connections.  Everything rests on UpdateEdges, which says what one call *)
(* of Update does to one potential edge; the theorems never look into      *)
(* Link, Unlink and Relabel again.                                         *)
(***************************************************************************)
EXTENDS ObjectGraph, TLAPS

\* The two ends of one potential edge, one of which is src and declares the
\* other in d (a function from labels to sets of objects).
JoinedBy(src, d, x, y, l) == (x = src /\ y \in d[l]) \/ (y = src /\ x \in d[l])

(* Update, one potential edge at a time: it is as before if the label is   *)
(* left alone; otherwise it is there if src declares it now, or if it was  *)
(* there and src did not declare it before.                                *)
LEMMA UpdateEdges ==
  ASSUME TypeOK,
         NEW src \in OID, NEW conns \in Conns, Update(src, conns),
         NEW x \in OID, NEW y \in OID, NEW l \in EdgeLabel
  PROVE  y \in edges'[x][l] <=>
           IF LeftAlone(src, conns, l)
           THEN y \in edges[x][l]
           ELSE \/ y \in edges[x][l] /\ ~JoinedBy(src, ids[src], x, y, l)
                \/ JoinedBy(src, conns, x, y, l)
<1> DEFINE adj == [z \in OID |-> edges[z][l]]
           cut == Unlink(adj, src, ids[src][l])
<1>1. edges'[x][l] = Relabel(src, conns, l)[x]
  BY DEF Update
<1>2. CASE LeftAlone(src, conns, l)
  BY <1>1, <1>2 DEF Relabel
<1>3. CASE ~LeftAlone(src, conns, l)
  <2>1. edges'[x][l] = Link(cut, src, conns[l])[x]
    BY <1>1, <1>3 DEF Relabel
  <2>2. y \in cut[x] <=> y \in edges[x][l] /\ ~JoinedBy(src, ids[src], x, y, l)
    BY DEF Unlink, JoinedBy
  <2>3. y \in Link(cut, src, conns[l])[x] <=> y \in cut[x] \/ JoinedBy(src, conns, x, y, l)
    BY DEF Link, JoinedBy
  <2> QED
    BY <1>3, <2>1, <2>2, <2>3
<1> QED
  BY <1>2, <1>3

\* What Update does to the declarations.
LEMMA UpdateIds ==
  ASSUME TypeOK, NEW src \in OID, NEW conns \in Conns, Update(src, conns)
  PROVE  /\ ids'[src] = conns
         /\ \A x \in OID \ {src} : ids'[x] = ids[x]
BY DEF TypeOK, Update

-----------------------------------------------------------------------------
\* The empty graph is a graph.
LEMMA InitTypeOK == Init => TypeOK
BY DEF Init, TypeOK, Conns

\* Update keeps the maps maps from objects to objects.
LEMMA UpdateTypeOK ==
  ASSUME TypeOK, NEW src \in OID, NEW conns \in Conns, Update(src, conns)
  PROVE  TypeOK'
<1>1. ids' \in [OID -> Conns]
  BY DEF TypeOK, Update
<1>2. ASSUME NEW l \in EdgeLabel, NEW x \in OID
      PROVE  Relabel(src, conns, l)[x] \subseteq OID
  <2>1. edges[x][l] \subseteq OID /\ ids[src][l] \subseteq OID /\ conns[l] \subseteq OID
    BY DEF TypeOK, Conns
  <2> QED
    BY <2>1 DEF Relabel, Link, Unlink
<1>3. edges' \in [OID -> Conns]
  BY <1>2 DEF Update, Conns
<1> QED
  BY <1>1, <1>3 DEF TypeOK

\* So does every step.
LEMMA StepTypeOK == TypeOK /\ [Next]_vars => TypeOK'
<1> SUFFICES ASSUME TypeOK, [Next]_vars PROVE TypeOK'
  OBVIOUS
<1>1. ASSUME NEW src \in OID, NEW conns \in ConnsOf(src), Update(src, conns)
      PROVE  TypeOK'
  BY <1>1, UpdateTypeOK DEF ConnsOf
<1>2. CASE UNCHANGED vars
  BY <1>2 DEF vars, TypeOK
<1> QED
  BY <1>1, <1>2 DEF Next

\* Type correctness: every neighbour and every declaration is an object.
THEOREM TypeCorrect == Spec => []TypeOK
BY InitTypeOK, StepTypeOK, PTL DEF Spec

-----------------------------------------------------------------------------
\* Update writes both halves of the edges it changes.
LEMMA StepSymmetric == TypeOK /\ Symmetric /\ [Next]_vars => Symmetric'
<1> SUFFICES ASSUME TypeOK, Symmetric, [Next]_vars PROVE Symmetric'
  OBVIOUS
<1>1. ASSUME NEW src \in OID, NEW conns \in ConnsOf(src), Update(src, conns)
      PROVE  Symmetric'
  <2> SUFFICES ASSUME NEW x \in OID, NEW y \in OID, NEW l \in EdgeLabel
               PROVE  y \in edges'[x][l] <=> x \in edges'[y][l]
    BY DEF Symmetric
  <2>1. conns \in Conns
    BY DEF ConnsOf
  <2>2. y \in edges[x][l] <=> x \in edges[y][l]
    BY DEF Symmetric
  <2>3. \A d : JoinedBy(src, d, x, y, l) <=> JoinedBy(src, d, y, x, l)
    BY DEF JoinedBy
  <2> QED
    BY <1>1, <2>1, <2>2, <2>3, UpdateEdges
<1>2. CASE UNCHANGED vars
  BY <1>2 DEF vars, Symmetric
<1> QED
  BY <1>1, <1>2 DEF Next

\* An edge found from one of its ends is found from the other.
THEOREM EdgesSymmetric == Spec => []Symmetric
<1>1. Init => Symmetric
  BY DEF Init, Symmetric
<1> QED
  BY <1>1, InitTypeOK, StepTypeOK, StepSymmetric, PTL DEF Spec

-----------------------------------------------------------------------------
\* An edge that Update leaves or adds is declared afterwards.
LEMMA StepEdgesDeclared == TypeOK /\ EdgesDeclared /\ [Next]_vars => EdgesDeclared'
<1> SUFFICES ASSUME TypeOK, EdgesDeclared, [Next]_vars PROVE EdgesDeclared'
  OBVIOUS
<1>1. ASSUME NEW src \in OID, NEW conns \in ConnsOf(src), Update(src, conns)
      PROVE  EdgesDeclared'
  <2> SUFFICES ASSUME NEW x \in OID, NEW y \in OID, NEW l \in EdgeLabel, y \in edges'[x][l]
               PROVE  y \in ids'[x][l] \/ x \in ids'[y][l]
    BY DEF EdgesDeclared, Declared
  <2>1. conns \in Conns
    BY DEF ConnsOf
  <2>2. ids'[src] = conns /\ \A z \in OID \ {src} : ids'[z] = ids[z]
    BY <1>1, <2>1, UpdateIds
  <2>3. CASE JoinedBy(src, conns, x, y, l)
    BY <2>2, <2>3 DEF JoinedBy
  <2>4. CASE ~JoinedBy(src, conns, x, y, l)
    <3>1. y \in edges[x][l]
      BY <1>1, <2>1, <2>4, UpdateEdges
    <3>2. y \in ids[x][l] \/ x \in ids[y][l]
      BY <3>1 DEF EdgesDeclared, Declared
    <3>3. ~JoinedBy(src, ids[src], x, y, l)
      <4>1. CASE LeftAlone(src, conns, l)
        BY <2>4, <4>1 DEF LeftAlone, JoinedBy
      <4>2. CASE ~LeftAlone(src, conns, l)
        BY <1>1, <2>1, <2>4, <4>2, UpdateEdges
      <4> QED
        BY <4>1, <4>2
    <3> QED
      BY <2>2, <3>2, <3>3 DEF JoinedBy
  <2> QED
    BY <2>3, <2>4
<1>2. CASE UNCHANGED vars
  BY <1>2 DEF vars, EdgesDeclared, Declared
<1> QED
  BY <1>1, <1>2 DEF Next

\* No phantom edges: whatever the order of the updates, an edge is backed by
\* the latest declaration of one of its ends.
THEOREM NoPhantomEdges == Spec => []EdgesDeclared
<1>1. Init => EdgesDeclared
  BY DEF Init, EdgesDeclared
<1> QED
  BY <1>1, InitTypeOK, StepTypeOK, StepEdgesDeclared, PTL DEF Spec

-----------------------------------------------------------------------------
Kept ==
  \A x, y \in OID : \A l \in EdgeLabel :
    (y \in edges[x][l] /\ y \notin edges'[x][l])
      => (Withdrawn(x, y, l) \/ Withdrawn(y, x, l))

LEMMA StepKept == TypeOK /\ [Next]_vars => [Kept]_vars
<1> SUFFICES ASSUME TypeOK, Next PROVE Kept
  OBVIOUS
<1> SUFFICES ASSUME NEW x \in OID, NEW y \in OID, NEW l \in EdgeLabel,
                    y \in edges[x][l], y \notin edges'[x][l]
             PROVE  Withdrawn(x, y, l) \/ Withdrawn(y, x, l)
  BY DEF Kept
<1>1. PICK src \in OID : \E conns \in ConnsOf(src) : Update(src, conns)
  BY DEF Next
<1>2. PICK conns \in ConnsOf(src) : Update(src, conns)
  BY <1>1
<1>3. conns \in Conns
  BY DEF ConnsOf
<1>4. ids'[src] = conns
  BY <1>2, <1>3, UpdateIds
<1>5. ~LeftAlone(src, conns, l)
  BY <1>2, <1>3, UpdateEdges
<1>6. JoinedBy(src, ids[src], x, y, l) /\ ~JoinedBy(src, conns, x, y, l)
  BY <1>2, <1>3, <1>5, UpdateEdges
<1> QED
  BY <1>4, <1>6 DEF JoinedBy, Withdrawn

\* An edge that disappears in an Update was withdrawn in it by one of its
\* ends.
THEOREM NothingLostByAccident == Spec => LostOnlyIfWithdrawn
BY InitTypeOK, StepTypeOK, StepKept, PTL DEF Spec, LostOnlyIfWithdrawn, Kept

-----------------------------------------------------------------------------
(***************************************************************************)
(* The refinement.  SteadySpec keeps the declarations within Targets, so   *)
(* OneWay forbids mutual ones, and then the edges are exactly the          *)
(* declarations, read in both directions.                                  *)
(***************************************************************************)
Exact ==
  \A x, y \in OID : \A l \in EdgeLabel : y \in edges[x][l] <=> Declared(x, y, l)

SteadyInv ==
  /\ TypeOK
  /\ \A x \in OID : ids[x] \in ConnsOf(x)
  /\ Exact

\* A steady Update leaves exactly the declared edges.
LEMMA StepExact ==
  ASSUME OneWay, SteadyInv,
         NEW src \in OID, NEW conns \in ConnsOf(src),
         \A l \in EdgeLabel : ~Grows(src, conns, l),
         Update(src, conns)
  PROVE  SteadyInv'
<1>1. conns \in Conns
  BY DEF ConnsOf
<1>2. TypeOK'
  BY <1>1, UpdateTypeOK DEF SteadyInv
<1>3. ids'[src] = conns /\ \A z \in OID \ {src} : ids'[z] = ids[z]
  BY <1>1, UpdateIds DEF SteadyInv
<1>4. \A x \in OID : ids'[x] \in ConnsOf(x)
  BY <1>3 DEF SteadyInv
<1>5. ASSUME NEW x \in OID, NEW y \in OID, NEW l \in EdgeLabel
      PROVE  y \in edges'[x][l] <=> (y \in ids'[x][l] \/ x \in ids'[y][l])
  <2>1. y \in edges[x][l] <=> (y \in ids[x][l] \/ x \in ids[y][l])
    BY DEF SteadyInv, Exact, Declared
  <2>2. CASE LeftAlone(src, conns, l)
    <3>1. conns[l] = ids[src][l]
      BY <2>2 DEF Grows
    <3>2. ids'[x][l] = ids[x][l] /\ ids'[y][l] = ids[y][l]
      BY <1>3, <3>1
    <3> QED
      BY <1>1, <2>1, <2>2, <3>2, UpdateEdges DEF SteadyInv
  <2>3. CASE ~LeftAlone(src, conns, l)
    <3>1. y \in edges'[x][l] <=>
            \/ y \in edges[x][l] /\ ~JoinedBy(src, ids[src], x, y, l)
            \/ JoinedBy(src, conns, x, y, l)
      BY <1>1, <2>3, UpdateEdges DEF SteadyInv
    \* src and the other end do not declare each other.
    <3>2. /\ ~(y \in ids[x][l] /\ x \in ids[y][l])
          /\ ids[x][l] \subseteq Targets[x][l]
          /\ ids[y][l] \subseteq Targets[y][l]
      BY DEF SteadyInv, ConnsOf, OneWay
    <3> QED
      BY <1>3, <2>1, <3>1, <3>2 DEF JoinedBy
  <2> QED
    BY <2>2, <2>3
<1> QED
  BY <1>2, <1>4, <1>5 DEF SteadyInv, Exact, Declared

\* The concrete step is the abstract Declare.
LEMMA ExactIsClosure ==
  ASSUME TypeOK, Exact PROVE edges = Abstract!SymmetricClosure(ids)
<1>1. \A x \in OID : \A l \in EdgeLabel :
        edges[x][l] = {y \in OID : Abstract!Joined(ids, x, y, l)}
  BY DEF TypeOK, Conns, Exact, Declared, Abstract!Joined
<1> QED
  BY <1>1 DEF TypeOK, Conns, Abstract!SymmetricClosure

\* Where nothing is declared from both ends and nothing only grows, the graph
\* is at every moment the symmetric closure of the declarations.
THEOREM SteadyRefines == OneWay /\ SteadySpec => ImplementsDeclaredGraph
<1> SUFFICES ASSUME OneWay PROVE SteadySpec => ImplementsDeclaredGraph
  OBVIOUS
<1>1. Init => SteadyInv /\ Abstract!Init
  <2> SUFFICES ASSUME Init PROVE SteadyInv /\ Abstract!Init
    OBVIOUS
  <2>1. TypeOK
    BY InitTypeOK
  <2>2. \A x \in OID : ids[x] \in ConnsOf(x)
    BY DEF Init, ConnsOf, Conns
  <2>3. Exact
    BY DEF Init, Exact, Declared
  <2> QED
    BY <2>1, <2>2, <2>3 DEF Init, SteadyInv, Abstract!Init
<1>2. SteadyInv /\ [SteadyNext]_vars => SteadyInv'
  <2> SUFFICES ASSUME SteadyInv, [SteadyNext]_vars PROVE SteadyInv'
    OBVIOUS
  <2>1. CASE SteadyNext
    BY <2>1, StepExact DEF SteadyNext
  <2>2. CASE UNCHANGED vars
    BY <2>2 DEF vars, SteadyInv, TypeOK, Exact, Declared
  <2> QED
    BY <2>1, <2>2
<1>3. SteadyInv /\ SteadyInv' /\ [SteadyNext]_vars => [Abstract!Next]_(Abstract!vars)
  <2> SUFFICES ASSUME SteadyInv', [SteadyNext]_vars
               PROVE  [Abstract!Next]_(Abstract!vars)
    OBVIOUS
  <2>1. CASE SteadyNext
    <3>0. PICK src \in OID : \E conns \in ConnsOf(src) : Update(src, conns)
      BY <2>1 DEF SteadyNext
    <3>1. PICK conns \in ConnsOf(src) : Update(src, conns)
      BY <3>0
    <3>2. ids' = [ids EXCEPT ![src] = conns]
      BY <3>1 DEF Update
    <3>3. edges' = Abstract!SymmetricClosure(ids')
      BY ExactIsClosure DEF SteadyInv, TypeOK, Exact, Declared, Abstract!SymmetricClosure, Abstract!Joined, Conns
    <3>4. conns \in [EdgeLabel -> SUBSET OID]
      BY DEF ConnsOf, Conns
    <3> QED
      BY <3>2, <3>3, <3>4 DEF Abstract!Next, Abstract!Declare
  <2>2. CASE UNCHANGED vars
    BY <2>2 DEF vars, Abstract!vars
  <2> QED
    BY <2>1, <2>2
<1> QED
  BY <1>1, <1>2, <1>3, PTL DEF SteadySpec, ImplementsDeclaredGraph, Abstract!Spec
=============================================================================
