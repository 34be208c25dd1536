---------------------------- MODULE DeclaredGraph ----------------------------
(***************************************************************************)
(* What the object graph promises its readers.  Every object declares, per *)
(* edge label, the objects it is connected to, and an edge joins two       *)
(* objects, in both directions, exactly when one of them declares the      *)
(* other.  There is no incremental bookkeeping here: the links are a       *)
(* function of the declarations.                                           *)
(***************************************************************************)
CONSTANTS
  OID,        \* object identifiers, "G=..,K=..,NS=..,N=.."
  EdgeLabel   \* offshoot, exposed_by, ...

VARIABLES
  decl,  \* decl[x][l]: the objects x declares under l
  link   \* link[x][l]: the neighbours of x under l

vars == <<decl, link>>

Joined(d, x, y, l) == y \in d[x][l] \/ x \in d[y][l]

SymmetricClosure(d) ==
  [x \in OID |-> [l \in EdgeLabel |-> {y \in OID : Joined(d, x, y, l)}]]

Init ==
  /\ decl = [x \in OID |-> [l \in EdgeLabel |-> {}]]
  /\ link = [x \in OID |-> [l \in EdgeLabel |-> {}]]

Declare(src, conns) ==
  /\ decl' = [decl EXCEPT ![src] = conns]
  /\ link' = SymmetricClosure(decl')

Next ==
  \E src \in OID, conns \in [EdgeLabel -> SUBSET OID] : Declare(src, conns)

Spec == Init /\ [][Next]_vars
=============================================================================
