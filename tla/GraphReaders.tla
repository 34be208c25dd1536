---------------------------- MODULE GraphReaders ----------------------------
(***************************************************************************)
(* ObjectGraph.Links (graph/graph.go) called by several goroutines while   *)
(* the reconcilers call Update: the read lock around the whole of Links,   *)
(* the write lock around the whole of Update, and the worklist of          *)
(* connectedOIDs one iteration at a time.                                  *)
(*                                                                         *)
(* For a label other than offshoot and view, Links walks twice: first from *)
(* the object along offshoot, then along the label from the object and     *)
(* all its offshoots.                                                      *)
(***************************************************************************)
EXTENDS ObjectGraph, SequencesExt

CONSTANTS
  Reader,       \* the goroutines that call Links
  Offshoot,     \* apiv1.EdgeOffshoot
  DirectLabels, \* apiv1.EdgeOffshoot and apiv1.EdgeView
  NoUpdate,     \* no Update is waiting
  NoRequest     \* no Links call is going on

ASSUME FiniteAssumption == IsFiniteSet(OID)

ASSUME LabelsAssumption ==
  /\ Offshoot \in DirectLabels
  /\ DirectLabels \subseteq EdgeLabel

VARIABLES
  pending,   \* the Update that has called Lock, or NoUpdate
  pc,        \* pc[r]: the walk that r is in, "idle" outside Links
  req,       \* req[r]: the arguments of r's Links call
  todo,      \* todo[r]: idsToProcess
  processed  \* processed[r]: the set of that name

reader  == <<pc, req, todo, processed>>
allVars == <<edges, ids, pending, pc, req, todo, processed>>

Request == [src : OID, label : EdgeLabel]
Call    == {c \in [src : OID, conns : Conns] : c.conns \in ConnsOf(c.src)}

ReadersInit ==
  /\ Init
  /\ pending   = NoUpdate
  /\ pc        = [r \in Reader |-> "idle"]
  /\ req       = [r \in Reader |-> NoRequest]
  /\ todo      = [r \in Reader |-> <<>>]
  /\ processed = [r \in Reader |-> {}]

-----------------------------------------------------------------------------
(* The sync.RWMutex: a goroutine that has called Lock keeps later callers  *)
(* of RLock out, and enters when the readers inside have left.             *)

\* Faulty: readers overtake a waiting writer.
MayRLockAlways == TRUE
MayRLock       == pending = NoUpdate

\* Faulty: no write lock.
MayLockAlways == TRUE
MayLock       == \A r \in Reader : pc[r] = "idle"

-----------------------------------------------------------------------------
(* Update *)

CallUpdate(src, conns) ==
  /\ pending = NoUpdate
  /\ pending' = [src |-> src, conns |-> conns]
  /\ UNCHANGED <<edges, ids, reader>>

LockedUpdate ==
  /\ pending # NoUpdate
  /\ MayLock
  /\ Update(pending.src, pending.conns)
  /\ pending' = NoUpdate
  /\ UNCHANGED reader

-----------------------------------------------------------------------------
(* Links *)

\* The label of the walk r is in.
WalkLabel(r) == IF pc[r] = "offshoots" THEN Offshoot ELSE req[r].label

\* Faulty: the worklist starts with the ObjectID, not with its OID.
CallLinksObjectID(r, src, label) ==
  /\ pc[r] = "idle"
  /\ MayRLock
  /\ pc'        = [pc EXCEPT ![r] = IF label \in DirectLabels THEN "links" ELSE "offshoots"]
  /\ req'       = [req EXCEPT ![r] = [src |-> src, label |-> label]]
  /\ todo'      = [todo EXCEPT ![r] = <<req'[r]>>]
  /\ processed' = [processed EXCEPT ![r] = {}]
  /\ UNCHANGED <<edges, ids, pending>>

CallLinks(r, src, label) ==
  /\ pc[r] = "idle"
  /\ MayRLock
  /\ pc'        = [pc EXCEPT ![r] = IF label \in DirectLabels THEN "links" ELSE "offshoots"]
  /\ req'       = [req EXCEPT ![r] = [src |-> src, label |-> label]]
  /\ todo'      = [todo EXCEPT ![r] = <<src>>]
  /\ processed' = [processed EXCEPT ![r] = {}]
  /\ UNCHANGED <<edges, ids, pending>>

\* Faulty: processed is not consulted.
VisitAgain(r) ==
  /\ pc[r] # "idle"
  /\ todo[r] # <<>>
  /\ LET x == Head(todo[r])
     IN  \E more \in SetToSeqs(edges[x][WalkLabel(r)]) :
           /\ processed' = [processed EXCEPT ![r] = @ \cup {x}]
           /\ todo'      = [todo EXCEPT ![r] = Tail(@) \o more]
  /\ UNCHANGED <<edges, ids, pending, pc, req>>

\* One iteration of connectedOIDs.  The neighbours come in the order of a map
\* iteration, that is in any order; one that is still queued but not processed
\* is queued again.
Visit(r) ==
  /\ pc[r] # "idle"
  /\ todo[r] # <<>>
  /\ LET x    == Head(todo[r])
         done == processed[r] \cup {x}
     IN  \E more \in SetToSeqs(edges[x][WalkLabel(r)] \ done) :
           /\ processed' = [processed EXCEPT ![r] = done]
           /\ todo'      = [todo EXCEPT ![r] = Tail(@) \o more]
  /\ UNCHANGED <<edges, ids, pending, pc, req>>

\* Faulty: the second walk starts at src alone.
SeedNoOffshoots(r) ==
  /\ pc[r] = "offshoots"
  /\ todo[r] = <<>>
  /\ todo' = [todo EXCEPT ![r] = <<req[r].src>>]
  /\ processed' = [processed EXCEPT ![r] = {}]
  /\ pc' = [pc EXCEPT ![r] = "links"]
  /\ UNCHANGED <<edges, ids, pending, req>>

\* The second walk starts at src and at everything the first one found.
SeedLinks(r) ==
  /\ pc[r] = "offshoots"
  /\ todo[r] = <<>>
  /\ \E seeds \in SetToSeqs(processed[r] \ {req[r].src}) :
       todo' = [todo EXCEPT ![r] = <<req[r].src>> \o seeds]
  /\ processed' = [processed EXCEPT ![r] = {}]
  /\ pc' = [pc EXCEPT ![r] = "links"]
  /\ UNCHANGED <<edges, ids, pending, req>>

\* What Links returns, once the second walk has nothing left to visit.
Found(r) == processed[r] \ {req[r].src}

Return(r) ==
  /\ pc[r] = "links"
  /\ todo[r] = <<>>
  /\ pc'        = [pc EXCEPT ![r] = "idle"]
  /\ req'       = [req EXCEPT ![r] = NoRequest]
  /\ processed' = [processed EXCEPT ![r] = {}]
  /\ UNCHANGED <<edges, ids, pending, todo>>

-----------------------------------------------------------------------------
Walk(r) == Visit(r) \/ SeedLinks(r) \/ Return(r)

ReadersNext ==
  \/ \E src \in OID : \E conns \in ConnsOf(src) : CallUpdate(src, conns)
  \/ LockedUpdate
  \/ \E r \in Reader : \E src \in OID, label \in EdgeLabel : CallLinks(r, src, label)
  \/ \E r \in Reader : Walk(r)

ReadersSpec == ReadersInit /\ [][ReadersNext]_allVars

\* A goroutine that can run does: the loop bodies block on nothing, and the
\* RWMutex hands the lock to a waiting writer when the last reader leaves.
Fairness ==
  /\ WF_allVars(LockedUpdate)
  /\ \A r \in Reader : WF_allVars(Walk(r))

FairReadersSpec == ReadersSpec /\ Fairness

-----------------------------------------------------------------------------
(* Properties *)

ReadersTypeOK ==
  /\ TypeOK
  /\ pending   \in Call \cup {NoUpdate}
  /\ pc        \in [Reader -> {"idle", "offshoots", "links"}]
  /\ req       \in [Reader -> Request \cup {NoRequest}]
  /\ todo      \in [Reader -> Seq(OID)]
  /\ processed \in [Reader -> SUBSET OID]

Closed(C, label) == \A x \in C : edges[x][label] \subseteq C

\* The objects that paths of one label lead to from the objects of S.
Reach(S, label) ==
  {x \in OID : \A C \in SUBSET OID : S \subseteq C /\ Closed(C, label) => x \in C}

Linked(src, label) ==
  Reach(IF label \in DirectLabels THEN {src} ELSE Reach({src}, Offshoot), label) \ {src}

\* Links answers from one snapshot of the graph: although Updates arrive
\* throughout its two walks, what it returns is exactly what is linked to the
\* object at the moment it returns.
AnswersAreSnapshots ==
  \A r \in Reader :
    pc[r] = "links" /\ todo[r] = <<>> => Found(r) = Linked(req[r].src, req[r].label)

\* Along offshoot and view, what finds is found: if the walk from x reaches y,
\* the walk from y reaches x, whoever of the two declared the edges between.
DirectLinksMutual ==
  \A label \in DirectLabels : \A x, y \in OID :
    y \in Linked(x, label) <=> x \in Linked(y, label)

\* Every edge is walked in both directions, so every walk goes in circles;
\* still every call of Links comes to its end.
LinksReturns == \A r \in Reader : pc[r] # "idle" ~> pc[r] = "idle"

\* Queries that keep coming cannot keep an Update from being applied.
UpdatesAreApplied == pending # NoUpdate ~> pending = NoUpdate
=============================================================================
