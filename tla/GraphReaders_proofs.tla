------------------------ MODULE GraphReaders_proofs ------------------------
(***************************************************************************)
(* Links, for every graph and any number of concurrent readers.            *)
(***************************************************************************)
EXTENDS GraphReaders, ObjectGraph_proofs, FiniteSetTheorems, SequenceTheorems

(***************************************************************************)
(* Sequences.                                                              *)
(***************************************************************************)

\* An ordering of a finite set holds its elements, all of them.
LEMMA SetToSeqsRange ==
  ASSUME NEW S \in SUBSET OID, NEW f \in SetToSeqs(S)
  PROVE  f \in Seq(OID) /\ Range(f) = S
<1> DEFINE n == Cardinality(S)
<1>1. IsFiniteSet(S) /\ n \in Nat
  BY FiniteAssumption, FS_Subset, FS_CardinalityType
<1>2. f \in [1..n -> S] /\ \A i, j \in 1..n : i # j => f[i] # f[j]
  BY DEF SetToSeqs
<1>3. f \in Seq(OID)
  BY <1>1, <1>2
<1>4. ASSUME NEW s \in S, s \notin Range(f) PROVE FALSE
  <2>1. IsFiniteSet(S \ {s}) /\ Cardinality(S \ {s}) = n - 1
    BY <1>1, FS_RemoveElement
  <2>2. IsFiniteSet(1..n) /\ Cardinality(1..n) = n
    BY <1>1, FS_Interval
  <2>3. f \in [1..n -> S \ {s}]
    BY <1>2, <1>4 DEF Range
  <2> QED
    BY <1>1, <1>2, <2>1, <2>2, <2>3, FS_PigeonHole
<1> QED
  BY <1>2, <1>3, <1>4 DEF Range

\* Concatenation holds what its halves hold.
LEMMA RangeConcat ==
  ASSUME NEW s \in Seq(OID), NEW t \in Seq(OID)
  PROVE  s \o t \in Seq(OID) /\ Range(s \o t) = Range(s) \cup Range(t)
<1>1. s \o t \in Seq(OID)
  OBVIOUS
<1>2. Range(s \o t) = Range(s) \cup Range(t)
  BY RangeConcatenation, Zenon
<1> QED
  BY <1>1, <1>2

\* A non-empty sequence holds its head and what its tail holds.
LEMMA RangeHeadTail ==
  ASSUME NEW s \in Seq(OID), s # <<>>
  PROVE  Head(s) \in OID /\ Tail(s) \in Seq(OID) /\ Range(s) = {Head(s)} \cup Range(Tail(s))
<1>1. Head(s) \in OID /\ Tail(s) \in Seq(OID)
  OBVIOUS
<1>2. ASSUME NEW i \in 1..Len(s) PROVE s[i] \in {Head(s)} \cup Range(Tail(s))
  <2>1. CASE i = 1
    BY <2>1
  <2>2. CASE i # 1
    <3>1. i - 1 \in DOMAIN Tail(s) /\ Tail(s)[i - 1] = s[i]
      BY <2>2
    <3> QED
      BY <3>1 DEF Range
  <2> QED
    BY <2>1, <2>2
<1>3. ASSUME NEW i \in 1..Len(Tail(s)) PROVE Tail(s)[i] \in Range(s)
  <2>1. i + 1 \in DOMAIN s /\ Tail(s)[i] = s[i + 1]
    OBVIOUS
  <2> QED
    BY <2>1 DEF Range
<1>4. Head(s) \in Range(s)
  <2>1. 1 \in DOMAIN s /\ Head(s) = s[1]
    OBVIOUS
  <2> QED
    BY <2>1 DEF Range
<1> QED
  BY <1>1, <1>2, <1>3, <1>4 DEF Range

-----------------------------------------------------------------------------
(***************************************************************************)
(* Reachability.                                                           *)
(***************************************************************************)

\* Paths lead at least to where they start.
LEMMA ReachExtends ==
  ASSUME NEW S \in SUBSET OID, NEW l PROVE S \subseteq Reach(S, l)
BY DEF Reach

\* What is reached is closed under the edges.
LEMMA ReachClosed ==
  ASSUME TypeOK, NEW S, NEW l \in EdgeLabel PROVE Closed(Reach(S, l), l)
<1> SUFFICES ASSUME NEW x \in Reach(S, l), NEW y \in edges[x][l] PROVE y \in Reach(S, l)
  BY DEF Closed
<1>1. x \in OID /\ y \in OID
  BY DEF TypeOK, Conns, Reach
<1> QED
  BY <1>1 DEF Reach, Closed

\* A closed set that holds the starting points holds what they reach.
LEMMA ReachLeast ==
  ASSUME NEW C \in SUBSET OID, NEW S, NEW l, S \subseteq C, Closed(C, l)
  PROVE  Reach(S, l) \subseteq C
BY DEF Reach

-----------------------------------------------------------------------------
(***************************************************************************)
(* The readers change nothing: of the graph, every step of GraphReaders is *)
(* a step of ObjectGraph or none, and the theorems about ObjectGraph hold  *)
(* here too.                                                               *)
(***************************************************************************)

PendingOK == pending \in Call \cup {NoUpdate}

\* A system of readers and writers is a system of writers.
THEOREM ReadersAreInvisible == ReadersSpec => Spec
<1>1. ReadersInit => Init /\ PendingOK
  BY DEF ReadersInit, PendingOK
<1>2. PendingOK /\ [ReadersNext]_allVars => PendingOK' /\ [Next]_vars
  <2> SUFFICES ASSUME PendingOK, [ReadersNext]_allVars PROVE PendingOK' /\ [Next]_vars
    OBVIOUS
  <2>1. ASSUME NEW src \in OID, NEW conns \in ConnsOf(src), CallUpdate(src, conns)
        PROVE  PendingOK' /\ [Next]_vars
    BY <2>1 DEF CallUpdate, PendingOK, Call, ConnsOf, vars
  <2>2. CASE LockedUpdate
    <3>1. pending.src \in OID /\ pending.conns \in ConnsOf(pending.src)
      BY <2>2 DEF LockedUpdate, PendingOK, Call
    <3>2. Next
      BY <2>2, <3>1 DEF LockedUpdate, Next
    <3> QED
      BY <2>2, <3>2 DEF LockedUpdate, PendingOK
  <2>3. ASSUME NEW r \in Reader, NEW src \in OID, NEW label \in EdgeLabel, CallLinks(r, src, label)
        PROVE  PendingOK' /\ [Next]_vars
    BY <2>3 DEF CallLinks, PendingOK, vars
  <2>4. ASSUME NEW r \in Reader, Walk(r) PROVE PendingOK' /\ [Next]_vars
    BY <2>4 DEF Walk, Visit, SeedLinks, Return, PendingOK, vars
  <2>5. CASE UNCHANGED allVars
    BY <2>5 DEF allVars, PendingOK, vars
  <2> QED
    BY <2>1, <2>2, <2>3, <2>4, <2>5 DEF ReadersNext
<1> QED
  BY <1>1, <1>2, PTL DEF ReadersSpec, Spec

\* The two halves of an edge stay together when queries are running, too.
COROLLARY ReadersSymmetric == ReadersSpec => [](TypeOK /\ Symmetric)
BY ReadersAreInvisible, TypeCorrect, EdgesSymmetric, PTL

-----------------------------------------------------------------------------
(***************************************************************************)
(* The loop invariant of connectedOIDs.                                    *)
(***************************************************************************)

Seeds(r) ==
  IF pc[r] = "offshoots" \/ req[r].label \in DirectLabels
  THEN {req[r].src}
  ELSE Reach({req[r].src}, Offshoot)

Frontier(r) == processed[r] \cup Range(todo[r])

WalkInv(r) ==
  /\ req[r] \in Request
  /\ pc[r] = "offshoots" => req[r].label \notin DirectLabels
  /\ Seeds(r) \subseteq Frontier(r)
  /\ \A x \in processed[r] : edges[x][WalkLabel(r)] \subseteq Frontier(r)
  /\ Frontier(r) \subseteq Reach(Seeds(r), WalkLabel(r))

ReadersInv == ReadersTypeOK /\ \A r \in Reader : pc[r] # "idle" => WalkInv(r)

\* Inside Links a request is a request, and the walk has a label.
LEMMA WalkTypes ==
  ASSUME ReadersInv, NEW r \in Reader, pc[r] # "idle"
  PROVE  /\ req[r].src \in OID /\ req[r].label \in EdgeLabel
         /\ WalkLabel(r) \in EdgeLabel /\ Offshoot \in EdgeLabel
         /\ todo[r] \in Seq(OID) /\ Range(todo[r]) \subseteq OID
         /\ processed[r] \subseteq OID
         /\ Seeds(r) \subseteq OID
<1>1. req[r].src \in OID /\ req[r].label \in EdgeLabel
  BY DEF ReadersInv, WalkInv, Request
<1>2. Offshoot \in EdgeLabel /\ WalkLabel(r) \in EdgeLabel
  BY <1>1, LabelsAssumption DEF WalkLabel
<1>3. todo[r] \in Seq(OID) /\ processed[r] \subseteq OID
  BY DEF ReadersInv, ReadersTypeOK
<1>4. Range(todo[r]) \subseteq OID
  BY <1>3, RangeOfSeq
<1>5. Seeds(r) \subseteq OID
  BY <1>1 DEF Seeds, Reach
<1> QED
  BY <1>1, <1>2, <1>3, <1>4, <1>5

\* A walk that has nothing left to visit has found what there is to find.
LEMMA WalkComplete ==
  ASSUME ReadersInv, NEW r \in Reader, pc[r] # "idle", todo[r] = <<>>
  PROVE  processed[r] = Reach(Seeds(r), WalkLabel(r))
<1>1. WalkInv(r) /\ processed[r] \subseteq OID
  BY WalkTypes DEF ReadersInv
<1>2. Frontier(r) = processed[r]
  BY DEF Frontier, Range
<1>3. Closed(processed[r], WalkLabel(r)) /\ Seeds(r) \subseteq processed[r]
  BY <1>1, <1>2 DEF WalkInv, Closed
<1>4. Reach(Seeds(r), WalkLabel(r)) \subseteq processed[r]
  BY <1>1, <1>3, ReachLeast
<1> QED
  BY <1>1, <1>2, <1>4 DEF WalkInv

\* The loop invariant gives the answer when the loop ends.
LEMMA InvAnswers == ReadersInv => AnswersAreSnapshots
<1> SUFFICES ASSUME ReadersInv, NEW r \in Reader, pc[r] = "links", todo[r] = <<>>
             PROVE  Found(r) = Linked(req[r].src, req[r].label)
  BY DEF AnswersAreSnapshots
<1>1. processed[r] = Reach(Seeds(r), WalkLabel(r))
  BY WalkComplete
<1> QED
  BY <1>1 DEF Found, Linked, Seeds, WalkLabel

-----------------------------------------------------------------------------
(***************************************************************************)
(* The steps.                                                              *)
(***************************************************************************)

\* A step of one reader does not disturb the walk of another.
LEMMA OtherReaders ==
  ASSUME NEW r \in Reader, WalkInv(r), UNCHANGED edges,
         pc'[r] = pc[r], req'[r] = req[r], todo'[r] = todo[r], processed'[r] = processed[r]
  PROVE  WalkInv(r)'
BY DEF WalkInv, Seeds, Frontier, WalkLabel, Reach, Closed

\* The worklist starts with the object asked about.
LEMMA CallLinksInv ==
  ASSUME ReadersInv, NEW r \in Reader, NEW src \in OID, NEW label \in EdgeLabel,
         CallLinks(r, src, label)
  PROVE  ReadersInv'
<1>1. ReadersTypeOK'
  BY DEF ReadersInv, ReadersTypeOK, CallLinks, Request, TypeOK
<1>2. WalkInv(r)'
  <2>1. /\ pc'[r] # "idle" /\ (pc'[r] = "offshoots" <=> label \notin DirectLabels)
        /\ req'[r] = [src |-> src, label |-> label]
        /\ todo'[r] = <<src>> /\ processed'[r] = {} /\ edges' = edges
    BY DEF CallLinks, ReadersInv, ReadersTypeOK
  <2>2. Range(<<src>>) = {src}
    BY DEF Range
  <2>3. Frontier(r)' = {src} /\ Seeds(r)' = {src}
    BY <2>1, <2>2 DEF Frontier, Seeds
  <2>4. Seeds(r)' \subseteq Reach(Seeds(r), WalkLabel(r))'
    BY <2>3 DEF Reach
  <2> QED
    BY <2>1, <2>3, <2>4 DEF WalkInv, Request
<1>3. ASSUME NEW q \in Reader, q # r, pc'[q] # "idle" PROVE WalkInv(q)'
  BY <1>3, OtherReaders DEF CallLinks, ReadersInv, ReadersTypeOK
<1> QED
  BY <1>1, <1>2, <1>3 DEF ReadersInv

\* An iteration of connectedOIDs keeps its loop invariant.
LEMMA VisitInv ==
  ASSUME ReadersInv, NEW r \in Reader, Visit(r)
  PROVE  ReadersInv'
<1> DEFINE x == Head(todo[r])
           l == WalkLabel(r)
           done == processed[r] \cup {x}
<1>1. PICK more \in SetToSeqs(edges[x][l] \ done) :
        /\ processed' = [processed EXCEPT ![r] = done]
        /\ todo'      = [todo EXCEPT ![r] = Tail(@) \o more]
  BY DEF Visit
<1>2. /\ pc[r] # "idle" /\ todo[r] # <<>>
      /\ UNCHANGED <<edges, ids, pending, pc, req>>
  BY DEF Visit
<1>3. /\ todo[r] \in Seq(OID) /\ l \in EdgeLabel /\ processed[r] \subseteq OID
      /\ Seeds(r) \subseteq OID
  BY <1>2, WalkTypes
<1>4. x \in OID /\ Tail(todo[r]) \in Seq(OID) /\ Range(todo[r]) = {x} \cup Range(Tail(todo[r]))
  BY <1>2, <1>3, RangeHeadTail
<1>5. edges[x][l] \subseteq OID
  BY <1>3, <1>4 DEF ReadersInv, ReadersTypeOK, TypeOK, Conns
<1>6. more \in Seq(OID) /\ Range(more) = edges[x][l] \ done
  BY <1>5, SetToSeqsRange
<1>7. todo'[r] = Tail(todo[r]) \o more /\ processed'[r] = done
  BY <1>1 DEF ReadersInv, ReadersTypeOK
<1>8. Range(todo'[r]) = Range(Tail(todo[r])) \cup (edges[x][l] \ done)
  BY <1>4, <1>6, <1>7, RangeConcat
<1>9. Frontier(r)' = Frontier(r) \cup edges[x][l]
  BY <1>4, <1>7, <1>8 DEF Frontier
<1>10. ReadersTypeOK'
  <2>1. todo' \in [Reader -> Seq(OID)]
    BY <1>1, <1>4, <1>6, ConcatProperties DEF ReadersInv, ReadersTypeOK
  <2>2. processed' \in [Reader -> SUBSET OID]
    BY <1>1, <1>4 DEF ReadersInv, ReadersTypeOK
  <2> QED
    BY <1>2, <2>1, <2>2 DEF ReadersInv, ReadersTypeOK, TypeOK
<1>11. WalkInv(r)'
  <2>1. WalkInv(r)
    BY <1>2 DEF ReadersInv
  <2>2. /\ Seeds(r)' = Seeds(r) /\ WalkLabel(r)' = l
        /\ Reach(Seeds(r), WalkLabel(r))' = Reach(Seeds(r), l)
    BY <1>2 DEF Seeds, WalkLabel, Reach, Closed
  <2>3. edges[x][l] \subseteq Reach(Seeds(r), l)
    <3>1. x \in Reach(Seeds(r), l)
      BY <1>4, <2>1 DEF WalkInv, Frontier
    <3> QED
      BY <1>3, <3>1, ReachClosed DEF Closed, ReadersInv, ReadersTypeOK
  <2>4. \A z \in done : edges[z][l] \subseteq Frontier(r)'
    BY <1>9, <2>1 DEF WalkInv
  <2> QED
    BY <1>2, <1>7, <1>9, <2>1, <2>2, <2>3, <2>4 DEF WalkInv
<1>12. ASSUME NEW q \in Reader, q # r, pc'[q] # "idle" PROVE WalkInv(q)'
  BY <1>1, <1>2, <1>12, OtherReaders DEF ReadersInv, ReadersTypeOK
<1> QED
  BY <1>10, <1>11, <1>12 DEF ReadersInv

\* The second walk starts where the first one ended.
LEMMA SeedLinksInv ==
  ASSUME ReadersInv, NEW r \in Reader, SeedLinks(r)
  PROVE  ReadersInv'
<1> DEFINE src == req[r].src
<1>1. /\ pc[r] = "offshoots" /\ todo[r] = <<>>
      /\ UNCHANGED <<edges, ids, pending, req>>
  BY DEF SeedLinks
<1>2. PICK seeds \in SetToSeqs(processed[r] \ {src}) :
        todo' = [todo EXCEPT ![r] = <<src>> \o seeds]
  BY DEF SeedLinks
<1>3. src \in OID /\ processed[r] \subseteq OID
  BY <1>1, WalkTypes
<1>4. seeds \in Seq(OID) /\ Range(seeds) = processed[r] \ {src}
  BY <1>3, SetToSeqsRange
<1>5. /\ todo'[r] = <<src>> \o seeds /\ processed'[r] = {} /\ pc'[r] = "links"
      /\ req'[r] = req[r]
  BY <1>1, <1>2 DEF SeedLinks, ReadersInv, ReadersTypeOK
\* What the first walk found is where the second one starts.
<1>6. processed[r] = Reach({src}, Offshoot)
  BY <1>1, WalkComplete DEF Seeds, WalkLabel
<1>7. src \in processed[r]
  BY <1>3, <1>6, ReachExtends
<1>8. Range(<<src>> \o seeds) = processed[r]
  <2>1. Range(<<src>> \o seeds) = Range(<<src>>) \cup Range(seeds)
    <3>1. <<src>> \in Seq(OID)
      BY <1>3
    <3> QED
      BY <1>4, <3>1, RangeConcat
  <2>2. Range(<<src>>) = {src}
    BY DEF Range
  <2> QED
    BY <1>4, <1>7, <2>1, <2>2
<1>9. Frontier(r)' = processed[r]
  BY <1>5, <1>8 DEF Frontier
<1>10. ReadersTypeOK'
  <2>1. <<src>> \o seeds \in Seq(OID)
    BY <1>3, <1>4
  <2>2. todo' \in [Reader -> Seq(OID)]
    BY <1>2, <2>1 DEF ReadersInv, ReadersTypeOK
  <2> QED
    BY <1>1, <2>2 DEF SeedLinks, ReadersInv, ReadersTypeOK, TypeOK
<1>11. WalkInv(r)'
  <2>1. req[r] \in Request
    BY <1>1 DEF ReadersInv, WalkInv
  <2>2. req[r].label \notin DirectLabels
    BY <1>1 DEF ReadersInv, WalkInv
  <2>3. Seeds(r)' = processed[r]
    BY <1>1, <1>5, <1>6, <2>2 DEF Seeds, Reach, Closed
  <2>4. Seeds(r)' \subseteq Reach(Seeds(r), WalkLabel(r))'
    BY <1>3, <2>3 DEF Reach
  <2> QED
    BY <1>5, <1>9, <2>1, <2>2, <2>3, <2>4 DEF WalkInv
<1>12. ASSUME NEW q \in Reader, q # r, pc'[q] # "idle" PROVE WalkInv(q)'
  BY <1>1, <1>2, <1>12, OtherReaders DEF SeedLinks, ReadersInv, ReadersTypeOK
<1> QED
  BY <1>10, <1>11, <1>12 DEF ReadersInv

\* A reader that returns leaves no walk behind.
LEMMA ReturnInv ==
  ASSUME ReadersInv, NEW r \in Reader, Return(r)
  PROVE  ReadersInv'
<1>1. ReadersTypeOK'
  BY DEF Return, ReadersInv, ReadersTypeOK, TypeOK
<1>2. ASSUME NEW q \in Reader, pc'[q] # "idle" PROVE WalkInv(q)'
  <2>1. q # r /\ pc[q] # "idle"
    BY <1>2 DEF Return, ReadersInv, ReadersTypeOK
  <2> QED
    BY <2>1, OtherReaders DEF Return, ReadersInv, ReadersTypeOK
<1> QED
  BY <1>1, <1>2 DEF ReadersInv

\* The write lock: nobody is in a walk when the graph changes.
LEMMA LockedUpdateInv == ReadersInv /\ LockedUpdate => ReadersInv'
<1> SUFFICES ASSUME ReadersInv, LockedUpdate PROVE ReadersInv'
  OBVIOUS
<1>1. pending.src \in OID /\ pending.conns \in Conns
  BY DEF ReadersInv, ReadersTypeOK, Call, LockedUpdate
<1>2. TypeOK'
  BY <1>1, UpdateTypeOK DEF LockedUpdate, ReadersInv, ReadersTypeOK
<1>3. ReadersTypeOK'
  BY <1>2 DEF ReadersInv, ReadersTypeOK, LockedUpdate, reader
<1>4. \A r \in Reader : pc'[r] = "idle"
  BY DEF LockedUpdate, MayLock, reader
<1> QED
  BY <1>3, <1>4 DEF ReadersInv

\* Every step preserves the inductive invariant.
LEMMA ReadersInvStep == ReadersInv /\ [ReadersNext]_allVars => ReadersInv'
<1> SUFFICES ASSUME ReadersInv, [ReadersNext]_allVars PROVE ReadersInv'
  OBVIOUS
<1>1. ASSUME NEW src \in OID, NEW conns \in ConnsOf(src), CallUpdate(src, conns)
      PROVE  ReadersInv'
  <2>1. [src |-> src, conns |-> conns] \in Call
    BY DEF Call, ConnsOf
  <2>2. ReadersTypeOK'
    BY <1>1, <2>1 DEF CallUpdate, reader, ReadersInv, ReadersTypeOK, TypeOK
  <2>3. ASSUME NEW r \in Reader, pc'[r] # "idle" PROVE WalkInv(r)'
    BY <1>1, <2>3, OtherReaders DEF CallUpdate, reader, ReadersInv
  <2> QED
    BY <2>2, <2>3 DEF ReadersInv
<1>2. CASE UNCHANGED allVars
  <2>1. ReadersTypeOK'
    BY <1>2 DEF allVars, ReadersInv, ReadersTypeOK, TypeOK
  <2>2. ASSUME NEW r \in Reader, pc'[r] # "idle" PROVE WalkInv(r)'
    BY <1>2, <2>2, OtherReaders DEF allVars, ReadersInv
  <2> QED
    BY <2>1, <2>2 DEF ReadersInv
<1> QED
  BY <1>1, <1>2, LockedUpdateInv, CallLinksInv, VisitInv, SeedLinksInv, ReturnInv
     DEF ReadersNext, Walk

\* Nobody is in a walk at the start.
LEMMA ReadersInvInit == ReadersInit => ReadersInv
<1> SUFFICES ASSUME ReadersInit PROVE ReadersInv
  OBVIOUS
<1>1. TypeOK
  BY InitTypeOK DEF ReadersInit
<1> QED
  BY <1>1 DEF ReadersInit, ReadersInv, ReadersTypeOK

\* The loop invariant of connectedOIDs holds of every walk at any time.
THEOREM ReadersInductive == ReadersSpec => []ReadersInv
BY ReadersInvInit, ReadersInvStep, PTL DEF ReadersSpec

-----------------------------------------------------------------------------
\* Every worklist, whichever order the map iterations take, holds objects.
THEOREM ReadersTypeCorrect == ReadersSpec => []ReadersTypeOK
<1>1. ReadersInv => ReadersTypeOK
  BY DEF ReadersInv
<1> QED
  BY <1>1, ReadersInductive, PTL

\* Links is partially correct and atomic: whatever the graph, its cycles, the
\* order of the map iterations and the number of readers, a call answers with
\* what is linked to its object in the graph it returns to.
THEOREM LinksCorrect == ReadersSpec => []AnswersAreSnapshots
BY ReadersInductive, InvAnswers, PTL

\* The direct labels relate objects mutually, because the graph is symmetric.
THEOREM LinksMutual == ReadersSpec => []DirectLinksMutual
<1>1. TypeOK /\ Symmetric => DirectLinksMutual
  <2> SUFFICES ASSUME TypeOK, Symmetric, NEW label \in DirectLabels,
                      NEW x \in OID, NEW y \in OID, y \in Reach({x}, label)
               PROVE  x \in Reach({y}, label)
    BY DEF DirectLinksMutual, Linked
  <2> DEFINE C == {z \in OID : x \in Reach({z}, label)}
  <2>1. label \in EdgeLabel
    BY LabelsAssumption
  <2>2. x \in C
    BY ReachExtends
  <2>3. ASSUME NEW z \in C, NEW w \in edges[z][label] PROVE w \in C
    <3>1. w \in OID /\ z \in edges[w][label]
      BY <2>1, <2>3 DEF TypeOK, Conns, Symmetric
    <3>2. Closed(Reach({w}, label), label) /\ w \in Reach({w}, label)
      BY <2>1, <3>1, ReachClosed, ReachExtends
    <3>3. z \in Reach({w}, label)
      BY <3>1, <3>2 DEF Closed
    <3>4. Reach({z}, label) \subseteq Reach({w}, label)
      <4>1. Reach({w}, label) \in SUBSET OID
        BY DEF Reach
      <4> QED
        BY <3>2, <3>3, <4>1, ReachLeast
    <3> QED
      BY <3>1, <3>4
  <2>4. Reach({x}, label) \subseteq C
    <3>1. Closed(C, label)
      BY <2>3 DEF Closed
    <3> HIDE DEF C
    <3>2. C \in SUBSET OID
      BY DEF C
    <3> QED
      BY <2>2, <3>1, <3>2, ReachLeast
  <2> QED
    BY <2>4
<1> QED
  BY <1>1, ReadersSymmetric, PTL
=============================================================================
