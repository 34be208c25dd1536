--------------------------- MODULE Locator_proofs ---------------------------
(***************************************************************************)
(* What the finder returns, for all connections and objects; and where     *)
(* Locate leads, for every path and any number of changes.                 *)
(***************************************************************************)
EXTENDS Locator, NaturalRecursion, FiniteSetTheorems, SequenceTheorems

(***************************************************************************)
(* The operators of the finder.                                            *)
(***************************************************************************)

ClusterOK == DOMAIN cluster = Object /\ \A x \in Object : cluster[x] \in Looks[x] \cup {Absent}

\* A connection that is named.
IsEdge(e) == e \in Range(Edges)

LEMMA MinOf ==
  ASSUME NEW T \in SUBSET Nat, T # {}
  PROVE  Min(T) \in T
BY LeastElement DEF Min

\* Calls in turn return what all have found, or the error of one of them.
LEMMA TurnsTaken ==
  ASSUME NEW results, DOMAIN results \subseteq Nat
  PROVE  \/ /\ \A i \in DOMAIN results : results[i].err = "none"
            /\ InTurn(results) = Found(UNION {results[i].objs : i \in DOMAIN results})
         \/ \E i \in DOMAIN results : results[i].err # "none" /\ InTurn(results) = results[i]
<1> DEFINE bad == {i \in DOMAIN results : results[i].err # "none"}
<1>1. CASE bad = {}
  BY <1>1 DEF InTurn
<1>2. CASE bad # {}
  <2>1. Min(bad) \in bad
    BY <1>2, MinOf
  <2>2. InTurn(results) = results[Min(bad)]
    BY <1>2 DEF InTurn
  <2> HIDE DEF bad
  <2> QED
    BY <2>1, <2>2 DEF bad
<1> QED
  BY <1>1, <1>2

LEMMA TogetherTaken ==
  ASSUME NEW results
  PROVE  \/ /\ \A r \in results : r.err = "none"
            /\ Together(results) = Found(UNION {r.objs : r \in results})
         \/ \E r \in results : r.err # "none" /\ Together(results) = r
BY DEF Together

LEMMA Results ==
  \A S : /\ Found(S).err = "none" /\ Found(S).objs = S
         /\ Failed.err = "failed" /\ NotFound.err = "notFound"
BY DEF Found, Failed, NotFound

\* What is decisive comes first.
LEMMA Decided ==
  ASSUME NEW verdicts, DOMAIN verdicts \subseteq Nat
  PROVE  \/ FirstDecisive(verdicts) = "other" /\ \A i \in DOMAIN verdicts : verdicts[i] = "other"
         \/ \E i \in DOMAIN verdicts : verdicts[i] # "other" /\ FirstDecisive(verdicts) = verdicts[i]
<1> DEFINE decisive == {i \in DOMAIN verdicts : verdicts[i] # "other"}
<1>1. CASE decisive = {}
  BY <1>1 DEF FirstDecisive
<1>2. CASE decisive # {}
  <2>1. Min(decisive) \in decisive
    BY <1>2, MinOf
  <2>2. FirstDecisive(verdicts) = verdicts[Min(decisive)]
    BY <1>2 DEF FirstDecisive
  <2> HIDE DEF decisive
  <2> QED
    BY <2>1, <2>2 DEF decisive
<1> QED
  BY <1>1, <1>2

LEMMA SnapshotOf ==
  ASSUME NEW x
  PROVE  Snapshot(x).id = x /\ Snapshot(x).uid = <<x, births[x]>> /\ Snapshot(x).look = cluster[x]
BY DEF Snapshot

\* What the client returns are snapshots of objects.
LEMMA ListOf ==
  ASSUME NEW gvk, NEW ns, NEW p
  PROVE  p \in List(gvk, ns) <=>
           \E y \in Object : /\ p = Snapshot(y) /\ GVKOf[y] = gvk /\ Exists(y)
                             /\ Scoped(gvk, ns) \in {NamespaceAll, NamespaceOf[y]}
BY DEF List

LEMMA GetOf ==
  ASSUME NEW gvk, NEW ns, NEW name, NEW p
  PROVE  p \in Get(gvk, ns, name) <=>
           \E y \in Object : /\ p = Snapshot(y) /\ GVKOf[y] = gvk /\ Exists(y)
                             /\ NameOf[y] = name /\ NamespaceOf[y] = Scoped(gvk, ns)
BY DEF Get

\* Results that are selected from snapshots are those of the objects selected.
LEMMA IdsOf ==
  ASSUME NEW S, NEW y, \A p \in S : p = Snapshot(p.id)
  PROVE  y \in Ids(S) <=> Snapshot(y) \in S
BY SnapshotOf DEF Ids

LEMMA ScopedTwice == \A gvk, ns : Scoped(gvk, Scoped(gvk, ns)) = Scoped(gvk, ns)
BY DEF Scoped

-----------------------------------------------------------------------------
(* Where a connection looks. *)

\* Both directions of a selector look at the objects that are in reach.
LEMMA NearForward ==
  ASSUME ClusterOK, NEW e, IsEdge(e), NEW x \in Object, NEW y \in Object, Exists(x),
         GVKOf[x] = e.src, GVKOf[y] = e.dst
  PROVE  (\E ns \in OrAll(Namespaces(Snapshot(x), e.nsPath)) :
            Scoped(e.dst, ns) \in {NamespaceAll, NamespaceOf[y]}) <=> InReach(x, y, e)
<1> DEFINE sel == cluster[x].nsSelector
           own == NamespaceOf[x]
<1>1. /\ NamespaceAll = "" /\ (e.dst \in Namespaced <=> NamespaceOf[y] # "")
      /\ (e.src \in Namespaced <=> own # "")
      /\ e.nsPath # "" => e.src \in Namespaced
      /\ e.nsPath \notin {"", MetadataNamespace} => e.dst \in Namespaced
  BY FinderAssumption, EdgesAssumption DEF IsEdge, Range
<1>2. sel # Missing => "" \notin sel.names
  BY <1>1, LooksAssumption DEF ClusterOK, Exists
<1>3. Snapshot(x).look.nsSelector = sel /\ Snapshot(x).id = x
  BY SnapshotOf
<1> HIDE DEF sel, own
<1>4. CASE e.nsPath = MetadataNamespace
  <2>1. OrAll(Namespaces(Snapshot(x), e.nsPath)) = {own}
    BY <1>3, <1>4 DEF Namespaces, OrAll, MetadataNamespace, own
  <2> QED
    BY <1>1, <1>4, <2>1 DEF Scoped, InReach, MetadataNamespace, own
<1>5. CASE e.nsPath = ""
  BY <1>1, <1>5 DEF Namespaces, OrAll, Scoped, InReach, MetadataNamespace
<1>6. CASE e.nsPath \notin {"", MetadataNamespace}
  <2>1. CASE sel = Missing
    BY <1>1, <1>3, <1>6, <2>1 DEF Namespaces, OrAll, Scoped, InReach, sel
  <2>2. CASE sel # Missing /\ sel.names = {} /\ ~sel.any
    BY <1>1, <1>3, <1>6, <2>2 DEF Namespaces, OrAll, Scoped, InReach, sel, own
  <2>3. CASE sel # Missing /\ ~(sel.names = {} /\ ~sel.any)
    BY <1>1, <1>2, <1>3, <1>6, <2>3 DEF Namespaces, OrAll, Scoped, InReach, sel, own
  <2> QED
    BY <2>1, <2>2, <2>3
<1> QED
  BY <1>4, <1>5, <1>6

LEMMA NearBackward ==
  ASSUME ClusterOK, NEW e, IsEdge(e), NEW x \in Object, NEW y \in Object, Exists(x),
         GVKOf[x] = e.src, GVKOf[y] = e.dst
  PROVE  /\ Scoped(e.src, NamespaceBack(Snapshot(y), e)) \in {NamespaceAll, NamespaceOf[x]}
         /\ \/ e.nsPath \in {"", MetadataNamespace}
            \/ NamespaceOf[y] \in Namespaces(Snapshot(x), e.nsPath)
            \/ Namespaces(Snapshot(x), e.nsPath) = {}
         <=> InReach(x, y, e)
<1> DEFINE sel == cluster[x].nsSelector
           own == NamespaceOf[x]
<1>1. /\ NamespaceAll = "" /\ (e.dst \in Namespaced <=> NamespaceOf[y] # "")
      /\ (e.src \in Namespaced <=> own # "")
      /\ e.nsPath # "" => e.src \in Namespaced
      /\ e.nsPath \notin {"", MetadataNamespace} => e.dst \in Namespaced
  BY FinderAssumption, EdgesAssumption DEF IsEdge, Range
<1>3. Snapshot(x).look.nsSelector = sel /\ Snapshot(x).id = x /\ Snapshot(y).id = y
  BY SnapshotOf
<1> HIDE DEF sel, own
<1>4. CASE e.nsPath = MetadataNamespace
  BY <1>1, <1>3, <1>4 DEF NamespaceBack, Scoped, InReach, own, MetadataNamespace
<1>5. CASE e.nsPath = ""
  BY <1>1, <1>5 DEF NamespaceBack, Scoped, InReach, MetadataNamespace
<1>6. CASE e.nsPath \notin {"", MetadataNamespace}
  BY <1>1, <1>3, <1>6 DEF Namespaces, NamespaceBack, Scoped, InReach, sel, own
<1> QED
  BY <1>4, <1>5, <1>6

-----------------------------------------------------------------------------
(***************************************************************************)
(* What a connection leads to, from its source: y, if it is among what is  *)
(* returned.                                                               *)
(***************************************************************************)

LEMMA SelectedExact ==
  ASSUME ClusterOK, NEW e, IsEdge(e), NEW x \in Object, NEW y \in Object, Exists(x),
         GVKOf[x] = e.src, e.type = "MatchSelector"
  PROVE  LET result == Selected(Snapshot(x), e)
         IN  \/ result.err = "failed" /\ Selector(Snapshot(x), e) = Malformed
             \/ result.err = "none" /\ (y \in Ids(result.objs) <=> Related(x, y, e))
<1> DEFINE o == Snapshot(x)
           p == Snapshot(y)
           near == UNION {List(e.dst, ns) : ns \in OrAll(Namespaces(o, e.nsPath))}
           objs == {q \in near : Matches(Selector(o, e), LabelsAt(q, e)) /\ IsConnected(e.level, q, o)}
           results == {SelectedIn(o, e, ns) : ns \in OrAll(Namespaces(o, e.nsPath))}
<1>0. Selected(o, e) = Together(results)
  BY DEF Selected
<1>1. CASE Selector(o, e) \in {Missing, Malformed}
  <2>1. \A r \in results : r \in {Failed, Found({})} /\ (r = Failed => Selector(o, e) = Malformed)
    BY <1>1 DEF SelectedIn, Failed, Found
  <2>2. ~Related(x, y, e)
    BY <1>1 DEF Related
  <2> HIDE DEF results
  <2>3. \/ Selected(o, e) = Failed /\ Selector(o, e) = Malformed
        \/ Selected(o, e) = Found({})
    <3>1. \A r \in results : r.err = "none" => r.objs = {}
      BY <2>1, Results
    <3>2. (\A r \in results : r.err = "none") => UNION {r.objs : r \in results} = {}
      BY <3>1
    <3> QED
      BY <1>0, <2>1, <3>2, TogetherTaken, Results
  <2> QED
    BY <2>2, <2>3, Results DEF Ids
<1>2. CASE Selector(o, e) \notin {Missing, Malformed}
  <2>1. Selected(o, e) = Found(objs)
    <3> DEFINE In(ns) == {q \in List(e.dst, ns) : Matches(Selector(o, e), LabelsAt(q, e)) /\ IsConnected(e.level, q, o)}
    <3>1. \A ns : SelectedIn(o, e, ns) = Found(In(ns))
      BY <1>2 DEF SelectedIn
    <3>2. \A r \in results : r.err = "none"
      <4> HIDE DEF In
      <4> QED
        BY <3>1, Results
    <3>3. UNION {r.objs : r \in results} = UNION {In(ns) : ns \in OrAll(Namespaces(o, e.nsPath))}
      <4>1. \A ns : SelectedIn(o, e, ns).objs = In(ns)
        BY <3>1, Results
      <4> HIDE DEF In
      <4> QED
        BY <4>1
    <3>4. objs = UNION {In(ns) : ns \in OrAll(Namespaces(o, e.nsPath))}
      OBVIOUS
    <3> HIDE DEF In, results, objs
    <3> QED
      BY <1>0, <3>2, <3>3, <3>4, TogetherTaken
  <2>2. y \in Ids(objs) <=> p \in objs
    BY IdsOf, ListOf, SnapshotOf
  <2>3. p \in near <=> Exists(y) /\ GVKOf[y] = e.dst /\ InReach(x, y, e)
    <3>1. p \in near <=> \E ns \in OrAll(Namespaces(o, e.nsPath)) : p \in List(e.dst, ns)
      OBVIOUS
    <3>2. \A ns : p \in List(e.dst, ns) <=>
                    Exists(y) /\ GVKOf[y] = e.dst /\ Scoped(e.dst, ns) \in {NamespaceAll, NamespaceOf[y]}
      BY ListOf, SnapshotOf
    <3> HIDE DEF o, p, near
    <3> QED
      BY <3>1, <3>2, NearForward DEF o
  <2>4. IsConnected(e.level, p, o) <=> Owned(e.level, y, x)
    BY SnapshotOf DEF IsConnected, IsOwnedBy, Owned
  <2>5. Related(x, y, e) <=> /\ Exists(y) /\ GVKOf[y] = e.dst /\ InReach(x, y, e)
                             /\ Owned(e.level, y, x) /\ Matches(Selector(o, e), LabelsAt(p, e))
    BY <1>2 DEF Related
  <2> HIDE DEF o, p, near
  <2>6. y \in Ids(objs) <=> Related(x, y, e)
    BY <2>2, <2>3, <2>4, <2>5
  <2> QED
    BY <2>1, <2>6 DEF Found, o
<1> QED
  BY <1>1, <1>2

LEMMA NamedExact ==
  ASSUME ClusterOK, NEW e, IsEdge(e), NEW x \in Object, NEW y \in Object, Exists(x),
         GVKOf[x] = e.src, e.type = "MatchName"
  PROVE  LET result == Named(Snapshot(x), e)
         IN  \/ result.err = "notFound" /\ \E n \in Called(x, e) : Get(e.dst, n[1], n[2]) = {}
             \/ /\ result.err = "none" /\ (y \in Ids(result.objs) <=> Related(x, y, e))
                /\ \A ns \in OrAll(Namespaces(Snapshot(x), e.nsPath)) : Get(e.dst, ns, e.rename[NameOf[x]]) # {}
<1> DEFINE o == Snapshot(x)
           p == Snapshot(y)
           name == e.rename[NameOf[x]]
           where == OrAll(Namespaces(o, e.nsPath))
           gets == {Get(e.dst, ns, name) : ns \in where}
           objs == {q \in UNION gets : IsConnected(e.level, q, o)}
<1>1. Named(o, e) = IF {} \in gets THEN NotFound ELSE Found(objs)
  <2> DEFINE In(ns) == {q \in Get(e.dst, ns, name) : IsConnected(e.level, q, o)}
             results == {NamedIn(o, e, ns) : ns \in where}
  <2>1. \A ns : NamedIn(o, e, ns) = IF Get(e.dst, ns, name) = {} THEN NotFound ELSE Found(In(ns))
    BY SnapshotOf DEF NamedIn
  <2>2. Named(o, e) = Together(results)
    BY DEF Named
  <2>3. CASE {} \in gets
    <3>1. \A r \in results : r = NotFound \/ r.err = "none"
      <4> HIDE DEF In
      <4> QED
        BY <2>1, Results
    <3>2. \E r \in results : r = NotFound
      BY <2>1, <2>3
    <3> HIDE DEF results
    <3> QED
      BY <2>2, <2>3, <3>1, <3>2, TogetherTaken, Results
  <2>4. CASE {} \notin gets
    <3>1. \A ns \in where : NamedIn(o, e, ns) = Found(In(ns))
      BY <2>1, <2>4
    <3>2. \A r \in results : r.err = "none"
      <4> HIDE DEF In
      <4> QED
        BY <3>1, Results
    <3>3. \A ns \in where : NamedIn(o, e, ns).objs = In(ns)
      BY <3>1, Results
    <3>4. UNION {r.objs : r \in results} = UNION {In(ns) : ns \in where}
      <4> HIDE DEF In, where
      <4> QED
        BY <3>3
    <3>5. objs = UNION {In(ns) : ns \in where}
      OBVIOUS
    <3> HIDE DEF In, results, objs, gets
    <3> QED
      BY <2>2, <2>4, <3>2, <3>4, <3>5, TogetherTaken
  <2> QED
    BY <2>3, <2>4
<1>2. Called(x, e) = {<<Scoped(e.dst, ns), name>> : ns \in where}
  BY DEF Called
<1>3. CASE {} \in gets
  <2>1. PICK ns \in where : Get(e.dst, ns, name) = {}
    BY <1>3
  <2>2. Get(e.dst, Scoped(e.dst, ns), name) = {}
    BY <2>1, ScopedTwice DEF Get
  <2>3. <<Scoped(e.dst, ns), name>> \in Called(x, e)
    BY <1>2
  <2> QED
    BY <1>1, <1>3, <2>2, <2>3 DEF NotFound
<1>4. CASE {} \notin gets
  <2>1. y \in Ids(objs) <=> p \in objs
    BY IdsOf, GetOf, SnapshotOf
  <2>2. p \in UNION gets <=> Exists(y) /\ GVKOf[y] = e.dst /\ <<NamespaceOf[y], NameOf[y]>> \in Called(x, e)
    <3>1. \A ns : p \in Get(e.dst, ns, name) <=>
                    /\ Exists(y) /\ GVKOf[y] = e.dst
                    /\ NameOf[y] = name /\ NamespaceOf[y] = Scoped(e.dst, ns)
      BY GetOf, SnapshotOf
    <3>2. p \in UNION gets <=> \E ns \in where : p \in Get(e.dst, ns, name)
      OBVIOUS
    <3> HIDE DEF p, gets, where, name
    <3> QED
      BY <1>2, <3>1, <3>2
  <2>3. IsConnected(e.level, p, o) <=> Owned(e.level, y, x)
    BY SnapshotOf DEF IsConnected, IsOwnedBy, Owned
  <2>4. Related(x, y, e) <=> /\ Exists(y) /\ GVKOf[y] = e.dst /\ Owned(e.level, y, x)
                             /\ <<NamespaceOf[y], NameOf[y]>> \in Called(x, e)
    BY DEF Related
  <2>5. \A ns \in where : Get(e.dst, ns, name) # {}
    BY <1>4
  <2> HIDE DEF o, p, gets
  <2>6. y \in Ids(objs) <=> Related(x, y, e)
    BY <2>1, <2>2, <2>3, <2>4
  <2> QED
    BY <1>1, <1>4, <2>5, <2>6 DEF Found, o
<1> QED
  BY <1>3, <1>4

LEMMA OwnersExact ==
  ASSUME ClusterOK, NEW e, IsEdge(e), NEW x \in Object, NEW y \in Object, Exists(x),
         GVKOf[x] = e.src, e.type = "OwnedBy"
  PROVE  LET result == Owners(Snapshot(x), e)
         IN  \/ result.err = "notFound" /\ \E n \in Called(x, e) : Get(e.dst, n[1], n[2]) = {}
             \/ /\ result.err = "none"
                /\ y \in Ids(result.objs) <=> Exists(y) /\ (Related(x, y, e) \/ Replaced(x, y, e))
<1> DEFINE o == Snapshot(x)
           p == Snapshot(y)
           ns == NamespaceOf[x]
           asked == {s \in cluster[x].owners : s.gvk = e.dst /\ (e.level = "Controller" => s.controller)}
           gets == {Get(e.dst, ns, r.name) : r \in asked}
<1>1. Owners(o, e) = IF {} \in gets THEN NotFound ELSE Found(UNION gets)
  <2> DEFINE results == {OwnerBy(o, e, r) : r \in asked}
  <2>1. \A r : OwnerBy(o, e, r) = IF Get(e.dst, ns, r.name) = {} THEN NotFound ELSE Found(Get(e.dst, ns, r.name))
    BY SnapshotOf DEF OwnerBy
  <2>2. Owners(o, e) = Together(results)
    BY SnapshotOf DEF Owners, OwnerRefs
  <2>3. CASE {} \in gets
    <3>1. \A r \in results : r = NotFound \/ r.err = "none"
      BY <2>1, Results
    <3>2. \E r \in results : r = NotFound
      BY <2>1, <2>3
    <3> HIDE DEF results
    <3> QED
      BY <2>2, <2>3, <3>1, <3>2, TogetherTaken, Results
  <2>4. CASE {} \notin gets
    <3>1. \A r \in asked : OwnerBy(o, e, r) = Found(Get(e.dst, ns, r.name))
      BY <2>1, <2>4
    <3>2. \A r \in results : r.err = "none"
      BY <3>1, Results
    <3>3. \A r \in asked : OwnerBy(o, e, r).objs = Get(e.dst, ns, r.name)
      BY <3>1, Results
    <3>4. UNION {r.objs : r \in results} = UNION gets
      <4> HIDE DEF asked, ns
      <4> QED
        BY <3>3
    <3> HIDE DEF results, gets
    <3> QED
      BY <2>2, <2>4, <3>2, <3>4, TogetherTaken
  <2> QED
    BY <2>3, <2>4
<1>2. Called(x, e) = {<<Scoped(e.dst, ns), r.name>> : r \in asked}
  BY SnapshotOf DEF Called
<1>3. CASE {} \in gets
  <2>1. PICK r \in asked : Get(e.dst, ns, r.name) = {}
    BY <1>3
  <2>2. Get(e.dst, Scoped(e.dst, ns), r.name) = {}
    BY <2>1, ScopedTwice DEF Get
  <2>3. <<Scoped(e.dst, ns), r.name>> \in Called(x, e)
    BY <1>2
  <2> QED
    BY <1>1, <1>3, <2>2, <2>3 DEF NotFound
<1>4. CASE {} \notin gets
  <2>1. y \in Ids(UNION gets) <=> p \in UNION gets
    BY IdsOf, GetOf, SnapshotOf
  <2>2. p \in UNION gets <=> \E r \in asked : /\ Exists(y) /\ GVKOf[y] = e.dst
                                              /\ NameOf[y] = r.name /\ NamespaceOf[y] = Scoped(e.dst, ns)
    <3>1. \A r : p \in Get(e.dst, ns, r.name) <=>
                   /\ Exists(y) /\ GVKOf[y] = e.dst
                   /\ NameOf[y] = r.name /\ NamespaceOf[y] = Scoped(e.dst, ns)
      BY GetOf, SnapshotOf
    <3>2. p \in UNION gets <=> \E r \in asked : p \in Get(e.dst, ns, r.name)
      OBVIOUS
    <3> HIDE DEF p, gets, asked
    <3> QED
      BY <3>1, <3>2
  <2>3. e.level \in {"Owner", "Controller"}
    BY EdgesAssumption DEF IsEdge, Range
  <2>4. Related(x, y, e) <=> /\ Exists(y) /\ GVKOf[y] = e.dst
                             /\ \E r \in cluster[x].owners : /\ r.uid = <<y, births[y]>>
                                                             /\ e.level = "Controller" => r.controller
    BY <2>3 DEF Related, Owned
  <2>5. Replaced(x, y, e) <=> /\ GVKOf[y] = e.dst /\ NamespaceOf[y] = Scoped(e.dst, ns)
                              /\ \E r \in asked : r.name = NameOf[y] /\ r.uid # <<y, births[y]>>
    <3>1. Snapshot(y).uid = <<y, births[y]>> /\ e.type = "OwnedBy"
      BY SnapshotOf
    <3> QED
      BY <3>1, Zenon DEF Replaced
\* The reference to an owner says what and where it is.
  <2>6. ASSUME NEW r \in cluster[x].owners, r.uid = <<y, births[y]>>, GVKOf[y] = e.dst
        PROVE  r.gvk = e.dst /\ r.name = NameOf[y] /\ NamespaceOf[y] = Scoped(e.dst, ns)
    <3>1. cluster[x] \in Looks[x] /\ r.uid[1] = y
      BY <2>6 DEF ClusterOK, Exists
    <3>2. r.gvk = GVKOf[y] /\ r.name = NameOf[y] /\ NamespaceOf[y] \in {NamespaceAll, ns}
      BY <3>1, LooksAssumption
    <3> QED
      BY <2>6, <3>2, FinderAssumption DEF Scoped
  <2> HIDE DEF p, gets
  <2>7. y \in Ids(UNION gets) <=> Exists(y) /\ (Related(x, y, e) \/ Replaced(x, y, e))
    BY <2>1, <2>2, <2>4, <2>5, <2>6
  <2> QED
    BY <1>1, <1>4, <2>7 DEF Found
<1> QED
  BY <1>3, <1>4

\* The name that a reference of x says, in the namespace that it says or implies.
Says(x, ref, e) ==
  <<Scoped(e.dst, IF ref.namespace = "" THEN NamespaceOf[x] ELSE ref.namespace), ref.name>>

IsSaid(x, y, ref, e) == Concerns(ref, e.dst) /\ Says(x, ref, e) = <<NamespaceOf[y], NameOf[y]>>

Snapshots(S) == \A p \in S : p = Snapshot(p.id)

\* y is among the objects of a result, if it is said by one of some references, is
\* there and owned at the level asked for.
HasOnly(result, x, y, refs, e) ==
  /\ result.err = "none" /\ Snapshots(result.objs)
  /\ y \in Ids(result.objs) <=> /\ Exists(y) /\ GVKOf[y] = e.dst /\ Owned(e.level, y, x)
                                /\ \E ref \in refs : IsSaid(x, y, ref, e)

LacksOne(result, x, refs, e) ==
  /\ result.err = "notFound"
  /\ \E ref \in refs : /\ Concerns(ref, e.dst)
                       /\ Get(e.dst, Says(x, ref, e)[1], Says(x, ref, e)[2]) = {}

NoNamespace(x, e) == NamespaceOf[x] = NamespaceAll /\ e.dst \in Namespaced

LEMMA FetchExact ==
  ASSUME NEW e, NEW r, NEW x \in Object, NEW y \in Object
  PROVE  \/ Fetch(Snapshot(x), r, e).err = "failed" /\ NoNamespace(x, e)
         \/ LacksOne(Fetch(Snapshot(x), r, e), x, {r}, e)
         \/ HasOnly(Fetch(Snapshot(x), r, e), x, y, {r}, e)
<1>1. PICK ns : ns = IF r.namespace = "" THEN NamespaceOf[x] ELSE r.namespace
  OBVIOUS
<1>2. PICK result : result = Fetch(Snapshot(x), r, e)
  OBVIOUS
<1>3. PICK got : got = Get(e.dst, ns, r.name)
  OBVIOUS
<1>4. PICK objs : objs = {q \in got : IsConnected(e.level, q, Snapshot(x))}
  OBVIOUS
<1>5. /\ Says(x, r, e)[1] = Scoped(e.dst, ns) /\ Says(x, r, e)[2] = r.name
      /\ \A a, b : Says(x, r, e) = <<a, b>> <=> a = Scoped(e.dst, ns) /\ b = r.name
      /\ ns = "" => NamespaceOf[x] = ""
  BY <1>1 DEF Says
<1>6. /\ ~Concerns(r, e.dst) => result = Found({})
      /\ Concerns(r, e.dst) /\ e.dst \in Namespaced /\ ns = "" => result = Failed
      /\ Concerns(r, e.dst) /\ ~(e.dst \in Namespaced /\ ns = "") =>
           result = IF got = {} THEN NotFound ELSE Found(objs)
  BY <1>1, <1>2, <1>3, <1>4, SnapshotOf DEF Fetch
<1>7. CASE ~Concerns(r, e.dst)
  <2>1. Ids({}) = {} /\ Snapshots({})
    BY DEF Ids, Snapshots
  <2>2. \A ref \in {r} : ~IsSaid(x, y, ref, e)
    BY <1>7 DEF IsSaid
  <2>3. HasOnly(result, x, y, {r}, e)
    BY <1>6, <1>7, <2>1, <2>2, Results DEF HasOnly
  <2> QED
    BY <1>2, <2>3
<1>8. CASE Concerns(r, e.dst) /\ e.dst \in Namespaced /\ ns = ""
  BY <1>2, <1>5, <1>6, <1>8, Results, FinderAssumption DEF NoNamespace
<1>9. CASE Concerns(r, e.dst) /\ ~(e.dst \in Namespaced /\ ns = "") /\ got = {}
  <2>1. Get(e.dst, Scoped(e.dst, ns), r.name) = Get(e.dst, ns, r.name)
    BY ScopedTwice DEF Get
  <2>2. Get(e.dst, Says(x, r, e)[1], Says(x, r, e)[2]) = {}
    BY <1>3, <1>5, <1>9, <2>1
  <2>3. LacksOne(result, x, {r}, e)
    BY <1>6, <1>9, <2>2, Results DEF LacksOne
  <2> QED
    BY <1>2, <2>3
<1>10. CASE Concerns(r, e.dst) /\ ~(e.dst \in Namespaced /\ ns = "") /\ got # {}
  <2>1. \A q \in got : q = Snapshot(q.id)
    BY <1>3, GetOf, SnapshotOf
  <2>2. Snapshots(objs)
    BY <1>4, <2>1 DEF Snapshots
  <2>3. y \in Ids(objs) <=> Snapshot(y) \in objs
    BY <2>2, IdsOf DEF Snapshots
  <2>4. Snapshot(y) \in got <=>
          Exists(y) /\ GVKOf[y] = e.dst /\ Says(x, r, e) = <<NamespaceOf[y], NameOf[y]>>
    <3>1. Snapshot(y) \in got <=>
            \E z \in Object : /\ Snapshot(y) = Snapshot(z) /\ GVKOf[z] = e.dst /\ Exists(z)
                              /\ NameOf[z] = r.name /\ NamespaceOf[z] = Scoped(e.dst, ns)
      BY <1>3, GetOf
    <3>2. \A z : Snapshot(y) = Snapshot(z) <=> z = y
      BY SnapshotOf
    <3> QED
      BY <1>5, <3>1, <3>2
  <2>5. IsConnected(e.level, Snapshot(y), Snapshot(x)) <=> Owned(e.level, y, x)
    BY SnapshotOf DEF IsConnected, IsOwnedBy, Owned
  <2>6. y \in Ids(objs) <=> Exists(y) /\ GVKOf[y] = e.dst /\ Owned(e.level, y, x) /\ IsSaid(x, y, r, e)
    BY <1>4, <1>10, <2>3, <2>4, <2>5 DEF IsSaid
  <2>7. HasOnly(result, x, y, {r}, e)
    BY <1>6, <1>10, <2>2, <2>6, Results DEF HasOnly
  <2> QED
    BY <1>2, <2>7
<1> QED
  BY <1>7, <1>8, <1>9, <1>10

\* References that are fetched one after the other.
LEMMA TurnsExact ==
  ASSUME NEW e, NEW x \in Object, NEW y \in Object, NEW results, NEW refs,
         DOMAIN results \subseteq Nat, NEW bad \in BOOLEAN,
         \A i \in DOMAIN results : \/ results[i].err = "failed" /\ bad
                                   \/ LacksOne(results[i], x, refs[i], e)
                                   \/ HasOnly(results[i], x, y, refs[i], e)
  PROVE  LET result == InTurn(results)
             all == UNION {refs[i] : i \in DOMAIN results}
         IN  \/ result.err = "failed" /\ bad
             \/ LacksOne(result, x, all, e)
             \/ HasOnly(result, x, y, all, e)
<1> DEFINE all == UNION {refs[i] : i \in DOMAIN results}
           objs == UNION {results[i].objs : i \in DOMAIN results}
<1>1. ASSUME NEW i \in DOMAIN results, results[i].err # "none", InTurn(results) = results[i]
      PROVE  \/ InTurn(results).err = "failed" /\ bad
             \/ LacksOne(InTurn(results), x, all, e)
  BY <1>1 DEF LacksOne, HasOnly
<1>2. ASSUME \A i \in DOMAIN results : results[i].err = "none", InTurn(results) = Found(objs)
      PROVE  HasOnly(InTurn(results), x, y, all, e)
  <2>1. \A i \in DOMAIN results : HasOnly(results[i], x, y, refs[i], e)
    BY <1>2 DEF LacksOne
  <2>2. Snapshots(objs)
    BY <2>1 DEF HasOnly, Snapshots
  <2>3. y \in Ids(objs) <=> \E i \in DOMAIN results : y \in Ids(results[i].objs)
    BY DEF Ids
  <2>4. y \in Ids(objs) <=> /\ Exists(y) /\ GVKOf[y] = e.dst /\ Owned(e.level, y, x)
                            /\ \E ref \in all : IsSaid(x, y, ref, e)
    <3>1. (\E ref \in all : IsSaid(x, y, ref, e)) <=>
            \E i \in DOMAIN results : \E ref \in refs[i] : IsSaid(x, y, ref, e)
      OBVIOUS
    <3> HIDE DEF all, objs
    <3> QED
      BY <2>1, <2>3, <3>1 DEF HasOnly
  <2> HIDE DEF all, objs
  <2>5. Found(objs).err = "none" /\ Found(objs).objs = objs
    BY DEF Found
  <2> QED
    BY <1>2, <2>2, <2>4, <2>5 DEF HasOnly
<1> HIDE DEF all, objs
<1> QED
  BY <1>1, <1>2, TurnsTaken DEF all, objs

\* What the rows of a reference path say.
RefsOf(rows) == {ResourceRef(row) : row \in Range(rows)}

LEMMA RowsExact ==
  ASSUME NEW e, NEW x \in Object, NEW y \in Object, NEW rows, IsList(rows)
  PROVE  LET result == InTurn([i \in DOMAIN rows |-> Fetch(Snapshot(x), ParseResourceRefs(rows)[i], e)])
         IN  \/ result.err = "failed" /\ NoNamespace(x, e)
             \/ LacksOne(result, x, RefsOf(rows), e)
             \/ HasOnly(result, x, y, RefsOf(rows), e)
<1>1. PICK results : results = [i \in DOMAIN rows |-> Fetch(Snapshot(x), ParseResourceRefs(rows)[i], e)]
  OBVIOUS
<1>2. PICK refs : refs = [i \in DOMAIN rows |-> {ResourceRef(rows[i])}]
  OBVIOUS
<1>3. DOMAIN results = DOMAIN rows /\ DOMAIN results \subseteq Nat
  BY <1>1 DEF IsList
<1>4. \A i \in DOMAIN results : \/ results[i].err = "failed" /\ NoNamespace(x, e)
                                \/ LacksOne(results[i], x, refs[i], e)
                                \/ HasOnly(results[i], x, y, refs[i], e)
  <2> TAKE i \in DOMAIN results
  <2>1. results[i] = Fetch(Snapshot(x), ResourceRef(rows[i]), e) /\ refs[i] = {ResourceRef(rows[i])}
    BY <1>1, <1>2, <1>3 DEF ParseResourceRefs
  <2> QED
    BY <2>1, FetchExact
<1>5. UNION {refs[i] : i \in DOMAIN results} = RefsOf(rows)
  BY <1>2, <1>3 DEF RefsOf, Range
<1>6. NoNamespace(x, e) \in BOOLEAN
  BY DEF NoNamespace
<1>7. \/ InTurn(results).err = "failed" /\ NoNamespace(x, e)
      \/ LacksOne(InTurn(results), x, UNION {refs[i] : i \in DOMAIN results}, e)
      \/ HasOnly(InTurn(results), x, y, UNION {refs[i] : i \in DOMAIN results}, e)
  BY <1>3, <1>4, <1>6, TurnsExact
<1> QED
  BY <1>1, <1>5, <1>7

\* What x says for a connection, at one of the paths.
PathRefs(x, e) == UNION {RefsOf(cluster[x].refs[path]) : path \in Range(e.references)}

LEMMA CalledByRef ==
  ASSUME NEW e, NEW x \in Object, e.type = "MatchRef"
  PROVE  \A n : n \in Called(x, e) <=> \E ref \in PathRefs(x, e) : Concerns(ref, e.dst) /\ n = Says(x, ref, e)
<1> DEFINE rows == UNION {Range(Snapshot(x).look.refs[path]) : path \in Range(e.references)}
           refs == {ResourceRef(row) : row \in rows}
<1>1. Called(x, e) =
        {<<Scoped(e.dst, IF ref.namespace = "" THEN NamespaceOf[x] ELSE ref.namespace), ref.name>> :
           ref \in {s \in refs : Concerns(s, e.dst)}}
  BY DEF Called
<1>2. refs = PathRefs(x, e)
  <2>1. PathRefs(x, e) = UNION {{ResourceRef(row) : row \in Range(Snapshot(x).look.refs[path])} : path \in Range(e.references)}
    BY SnapshotOf DEF PathRefs, RefsOf
  <2> QED
    BY <2>1
<1> HIDE DEF refs
<1>3. \A n : n \in Called(x, e) <=>
        \E ref \in refs :
          /\ Concerns(ref, e.dst)
          /\ n = <<Scoped(e.dst, IF ref.namespace = "" THEN NamespaceOf[x] ELSE ref.namespace), ref.name>>
  BY <1>1, Zenon
<1> QED
  BY <1>2, <1>3, Zenon DEF Says

\* The references of an object that exists are lists.
LEMMA ListsOf ==
  ASSUME ClusterOK, NEW e, IsEdge(e), NEW x \in Object, Exists(x), GVKOf[x] = e.src, e.type = "MatchRef"
  PROVE  /\ IsList(e.references)
         /\ \A path \in Range(e.references) : IsList(cluster[x].refs[path])
<1>1. cluster[x] \in Looks[x]
  BY DEF ClusterOK, Exists
<1>2. IsList(e.references) /\ Range(e.references) \subseteq DOMAIN cluster[x].refs
  BY <1>1, EdgesAssumption DEF IsEdge, Range
<1> QED
  BY <1>1, <1>2, LooksAssumption

LEMMA ReferencedExact ==
  ASSUME ClusterOK, NEW e, IsEdge(e), NEW x \in Object, NEW y \in Object, Exists(x),
         GVKOf[x] = e.src, e.type = "MatchRef"
  PROVE  LET result == Referenced(Snapshot(x), e)
         IN  \/ /\ result.err = "failed"
                /\ \E path \in Range(e.references) : ~RowsOK(cluster[x].refs[path]) \/ NoNamespace(x, e)
             \/ result.err = "notFound" /\ \E n \in Called(x, e) : Get(e.dst, n[1], n[2]) = {}
             \/ result.err = "none" /\ (y \in Ids(result.objs) <=> Related(x, y, e))
<1> DEFINE ByPath(rows) ==
             IF ~RowsOK(rows) THEN Failed
             ELSE InTurn([i \in DOMAIN rows |-> Fetch(Snapshot(x), ParseResourceRefs(rows)[i], e)])
           bad == \E path \in Range(e.references) : ~RowsOK(cluster[x].refs[path]) \/ NoNamespace(x, e)
           Rows(j) == cluster[x].refs[e.references[j]]
<1>1. PICK results : results = [j \in DOMAIN e.references |-> ByPath(Rows(j))]
  OBVIOUS
<1>2. Referenced(Snapshot(x), e) = InTurn(results)
  BY <1>1, SnapshotOf DEF Referenced
<1>3. PICK refs : refs = [j \in DOMAIN e.references |-> RefsOf(Rows(j))]
  OBVIOUS
<1>4. DOMAIN results = DOMAIN e.references /\ DOMAIN results \subseteq Nat
  BY <1>1, ListsOf DEF IsList
<1>5. ASSUME NEW j \in DOMAIN results
      PROVE  \/ results[j].err = "failed" /\ bad
             \/ LacksOne(results[j], x, refs[j], e)
             \/ HasOnly(results[j], x, y, refs[j], e)
  <2>1. e.references[j] \in Range(e.references) /\ IsList(Rows(j))
    BY <1>4, ListsOf DEF Range
  <2>2. results[j] = ByPath(Rows(j)) /\ refs[j] = RefsOf(Rows(j))
    BY <1>1, <1>3, <1>4
  <2>3. CASE ~RowsOK(Rows(j))
    BY <2>1, <2>2, <2>3, Results
  <2>4. CASE RowsOK(Rows(j))
    <3>1. results[j] = InTurn([i \in DOMAIN Rows(j) |-> Fetch(Snapshot(x), ParseResourceRefs(Rows(j))[i], e)])
      BY <2>2, <2>4
    <3>2. \/ results[j].err = "failed" /\ NoNamespace(x, e)
          \/ LacksOne(results[j], x, refs[j], e)
          \/ HasOnly(results[j], x, y, refs[j], e)
      BY <2>1, <2>2, <3>1, RowsExact
    <3> QED
      BY <2>1, <3>2
  <2> QED
    BY <2>3, <2>4
<1>6. bad \in BOOLEAN
  OBVIOUS
<1>7. UNION {refs[j] : j \in DOMAIN results} = PathRefs(x, e)
  BY <1>3, <1>4 DEF PathRefs, Range
<1> HIDE DEF ByPath, bad
<1>8. \/ InTurn(results).err = "failed" /\ bad
      \/ LacksOne(InTurn(results), x, PathRefs(x, e), e)
      \/ HasOnly(InTurn(results), x, y, PathRefs(x, e), e)
  BY <1>4, <1>5, <1>6, <1>7, TurnsExact
<1>9. ASSUME LacksOne(InTurn(results), x, PathRefs(x, e), e)
      PROVE  InTurn(results).err = "notFound" /\ \E n \in Called(x, e) : Get(e.dst, n[1], n[2]) = {}
  BY <1>9, CalledByRef DEF LacksOne
<1>10. ASSUME HasOnly(InTurn(results), x, y, PathRefs(x, e), e)
       PROVE  InTurn(results).err = "none" /\ (y \in Ids(InTurn(results).objs) <=> Related(x, y, e))
  <2>1. (\E ref \in PathRefs(x, e) : IsSaid(x, y, ref, e)) <=> <<NamespaceOf[y], NameOf[y]>> \in Called(x, e)
    BY CalledByRef DEF IsSaid
  <2>2. Related(x, y, e) <=> /\ Exists(y) /\ GVKOf[y] = e.dst /\ Owned(e.level, y, x)
                             /\ <<NamespaceOf[y], NameOf[y]>> \in Called(x, e)
    BY DEF Related
  <2> QED
    BY <1>10, <2>1, <2>2 DEF HasOnly
<1> QED
  BY <1>2, <1>8, <1>9, <1>10 DEF bad

-----------------------------------------------------------------------------
(***************************************************************************)
(* Whatever it is asked, the finder returns objects that are there, as     *)
(* they are now, of the kind at the other end of the connection.           *)
(***************************************************************************)

IsNow(p, gvk) == \E y \in Object : p = Snapshot(y) /\ Exists(y) /\ GVKOf[y] = gvk

AreNow(S, gvk) == \A p \in S : IsNow(p, gvk)

\* What a finder has in hand: an object as it was when it was read.
IsSnapshot(o) == o.id \in Object /\ o.look \in Looks[o.id]

LEMMA NowSnapshots ==
  ASSUME ClusterOK, NEW p, NEW gvk, IsNow(p, gvk)
  PROVE  IsSnapshot(p) /\ p = Snapshot(p.id) /\ Exists(p.id) /\ GVKOf[p.id] = gvk
BY SnapshotOf DEF ClusterOK, IsNow, IsSnapshot, Exists

LEMMA ReadNow ==
  \A gvk, ns, name : AreNow(List(gvk, ns), gvk) /\ AreNow(Get(gvk, ns, name), gvk)
<1> TAKE gvk, ns, name
<1>1. AreNow(List(gvk, ns), gvk)
  BY ListOf DEF AreNow, IsNow
<1>2. AreNow(Get(gvk, ns, name), gvk)
  BY GetOf DEF AreNow, IsNow
<1> QED
  BY <1>1, <1>2

\* Nothing comes with an error.
Proper(result, gvk) == AreNow(result.objs, gvk) /\ (result.err # "none" => result.objs = {})

LEMMA FoundNow ==
  ASSUME NEW gvk
  PROVE  /\ Proper(Failed, gvk) /\ Proper(NotFound, gvk)
         /\ \A S : AreNow(S, gvk) => Proper(Found(S), gvk)
BY DEF Proper, AreNow, Failed, NotFound, Found

LEMMA TurnsNow ==
  ASSUME NEW results, DOMAIN results \subseteq Nat, NEW gvk, \A i \in DOMAIN results : Proper(results[i], gvk)
  PROVE  Proper(InTurn(results), gvk)
<1>1. AreNow(UNION {results[i].objs : i \in DOMAIN results}, gvk)
  BY DEF Proper, AreNow
<1>2. Proper(Found(UNION {results[i].objs : i \in DOMAIN results}), gvk)
  BY <1>1, FoundNow
<1> QED
  BY <1>2, TurnsTaken

LEMMA TogetherNow ==
  ASSUME NEW results, NEW gvk, \A r \in results : Proper(r, gvk)
  PROVE  Proper(Together(results), gvk)
<1>1. AreNow(UNION {r.objs : r \in results}, gvk)
  BY DEF Proper, AreNow
<1>2. Proper(Found(UNION {r.objs : r \in results}), gvk)
  BY <1>1, FoundNow
<1> QED
  BY <1>2, TogetherTaken

\* The answers of single requests.
LEMMA RequestsNow ==
  ASSUME NEW e, NEW o
  PROVE  \A q : /\ Proper(SelectedIn(o, e, q), e.dst) /\ Proper(NamedIn(o, e, q), e.dst)
               /\ Proper(OwnerBy(o, e, q), e.dst) /\ Proper(Fetch(o, q, e), e.dst)
<1> TAKE q
<1>1. Proper(SelectedIn(o, e, q), e.dst)
  <2> DEFINE objs == {p \in List(e.dst, q) : Matches(Selector(o, e), LabelsAt(p, e)) /\ IsConnected(e.level, p, o)}
  <2>1. AreNow(objs, e.dst) /\ AreNow({}, e.dst)
    BY ReadNow DEF AreNow
  <2>2. SelectedIn(o, e, q) \in {Failed, Found({}), Found(objs)}
    BY DEF SelectedIn
  <2> HIDE DEF objs
  <2> QED
    BY <2>1, <2>2, FoundNow
<1>2. Proper(NamedIn(o, e, q), e.dst)
  <2> DEFINE objs == {p \in Get(e.dst, q, e.rename[NameOf[o.id]]) : IsConnected(e.level, p, o)}
  <2>1. AreNow(objs, e.dst)
    BY ReadNow DEF AreNow
  <2>2. NamedIn(o, e, q) \in {NotFound, Found(objs)}
    BY DEF NamedIn
  <2> HIDE DEF objs
  <2> QED
    BY <2>1, <2>2, FoundNow
<1>3. Proper(OwnerBy(o, e, q), e.dst)
  <2>1. OwnerBy(o, e, q) \in {NotFound, Found(Get(e.dst, NamespaceOf[o.id], q.name))}
    BY DEF OwnerBy
  <2> QED
    BY <2>1, ReadNow, FoundNow
<1>4. Proper(Fetch(o, q, e), e.dst)
  <2> DEFINE ns == IF q.namespace = "" THEN NamespaceOf[o.id] ELSE q.namespace
             objs == {p \in Get(e.dst, ns, q.name) : IsConnected(e.level, p, o)}
  <2>1. AreNow(objs, e.dst) /\ AreNow({}, e.dst)
    BY ReadNow DEF AreNow
  <2>2. Fetch(o, q, e) \in {Failed, NotFound, Found({}), Found(objs)}
    BY DEF Fetch
  <2> HIDE DEF objs
  <2> QED
    BY <2>1, <2>2, FoundNow
<1> QED
  BY <1>1, <1>2, <1>3, <1>4

LEMMA ForwardNow ==
  ASSUME NEW e, IsEdge(e), NEW o, IsSnapshot(o), GVKOf[o.id] = e.src
  PROVE  Proper(Forward(o, e), e.dst)
<1>1. e.type \in {"MatchSelector", "MatchName", "OwnedBy", "MatchRef"}
  BY EdgesAssumption DEF IsEdge, Range
<1>2. Proper(Selected(o, e), e.dst)
  BY RequestsNow, TogetherNow DEF Selected
<1>3. Proper(Named(o, e), e.dst)
  BY RequestsNow, TogetherNow DEF Named
<1>4. Proper(Owners(o, e), e.dst)
  BY RequestsNow, TogetherNow DEF Owners
<1>5. CASE e.type = "MatchRef"
  <2>1. \A r : Proper(Fetch(o, r, e), e.dst)
    BY RequestsNow
  <2>2. /\ IsList(e.references)
        /\ \A j \in DOMAIN e.references : IsList(o.look.refs[e.references[j]])
    <3>1. IsList(e.references) /\ Range(e.references) \subseteq DOMAIN o.look.refs
      BY <1>5, EdgesAssumption DEF IsSnapshot, IsEdge, Range
    <3>2. \A j \in DOMAIN e.references : e.references[j] \in DOMAIN o.look.refs
      BY <3>1 DEF Range
    <3> QED
      BY <3>1, <3>2, LooksAssumption DEF IsSnapshot
  <2> DEFINE Fetches(rows) == [i \in DOMAIN rows |-> Fetch(o, ParseResourceRefs(rows)[i], e)]
             ByPath(rows) == IF ~RowsOK(rows) THEN Failed ELSE InTurn(Fetches(rows))
             results == [j \in DOMAIN e.references |-> ByPath(o.look.refs[e.references[j]])]
  <2>3. ASSUME NEW rows, IsList(rows)
        PROVE  Proper(ByPath(rows), e.dst)
    <3>1. DOMAIN Fetches(rows) \subseteq Nat
      BY <2>3 DEF IsList
    <3>2. \A i \in DOMAIN Fetches(rows) : Proper(Fetches(rows)[i], e.dst)
      BY <2>1
    <3> HIDE DEF Fetches
    <3>3. Proper(InTurn(Fetches(rows)), e.dst)
      BY <3>1, <3>2, TurnsNow
    <3> QED
      BY <3>3, FoundNow
  <2> HIDE DEF ByPath
  <2>4. DOMAIN results \subseteq Nat /\ \A j \in DOMAIN results : Proper(results[j], e.dst)
    BY <2>2, <2>3 DEF IsList
  <2>5. Referenced(o, e) = InTurn(results)
    BY DEF Referenced, ByPath
  <2> HIDE DEF results
  <2>6. Proper(Referenced(o, e), e.dst)
    BY <2>4, <2>5, TurnsNow
  <2> QED
    BY <1>5, <2>6 DEF Forward
<1> QED
  BY <1>1, <1>2, <1>3, <1>4, <1>5 DEF Forward

LEMMA BackwardNow ==
  ASSUME NEW e, IsEdge(e), NEW o
  PROVE  Proper(Backward(o, e), e.src)
<1>1. e.type \in {"MatchSelector", "MatchName", "OwnedBy", "MatchRef"}
  BY EdgesAssumption DEF IsEdge, Range
<1>2. Proper(Selecting(o, e), e.src)
  <2> DEFINE asks == {p \in List(e.src, NamespaceBack(o, e)) :
                        \/ e.nsPath \in {"", MetadataNamespace}
                        \/ NamespaceOf[o.id] \in Namespaces(p, e.nsPath)
                        \/ Namespaces(p, e.nsPath) = {}}
             objs == {p \in asks : /\ Selector(p, e) # Missing
                                   /\ Matches(Selector(p, e), LabelsAt(o, e))
                                   /\ IsConnected(e.level, o, p)}
  <2>1. AreNow(objs, e.src) /\ AreNow({}, e.src)
    BY ReadNow DEF AreNow
  <2>2. Selecting(o, e) \in {Failed, Found({}), Found(objs)}
    BY DEF Selecting
  <2> HIDE DEF objs
  <2> QED
    BY <2>1, <2>2, FoundNow
<1>3. Proper(Naming(o, e), e.src)
  <2> DEFINE got == UNION {Get(e.src, NamespaceBack(o, e), n) : n \in ExtractName(o, e)}
             objs == {p \in got : IsConnected(e.level, o, p)}
  <2>1. AreNow(objs, e.src)
    BY ReadNow DEF AreNow
  <2>2. Naming(o, e) \in {Failed, NotFound, Found(objs)}
    BY DEF Naming
  <2> HIDE DEF objs
  <2> QED
    BY <2>1, <2>2, FoundNow
<1>4. Proper(Children(o, e), e.src)
  <2> DEFINE objs == {p \in List(e.src, NamespaceOf[o.id]) : IsConnected(e.level, p, o)}
  <2>1. AreNow(objs, e.src)
    BY ReadNow DEF AreNow
  <2>2. Children(o, e) = Found(objs)
    BY DEF Children
  <2> HIDE DEF objs
  <2> QED
    BY <2>1, <2>2, FoundNow
<1>5. Proper(Referring(o, e), e.src)
  <2> DEFINE near == List(e.src, NamespaceBack(o, e))
             objs == {p \in near : RefersTo(o, p, e) = "match" /\ IsConnected(e.level, o, p)}
  <2>1. AreNow(objs, e.src)
    BY ReadNow DEF AreNow
  <2>2. Referring(o, e) \in {Failed, Found(objs)}
    BY DEF Referring
  <2> HIDE DEF objs
  <2> QED
    BY <2>1, <2>2, FoundNow
<1> QED
  BY <1>1, <1>2, <1>3, <1>4, <1>5 DEF Backward

LEMMA ResultNow ==
  ASSUME NEW e, IsEdge(e), NEW o, IsSnapshot(o), NEW forward \in BOOLEAN
  PROVE  Proper(ResourcesFor(o, e, forward), IF forward THEN e.dst ELSE e.src)
BY ForwardNow, BackwardNow, FoundNow DEF ResourcesFor

-----------------------------------------------------------------------------
LEMMA ForwardExact ==
  ASSUME ClusterOK, NEW e, IsEdge(e), NEW x \in Object, NEW y \in Object, Exists(x), GVKOf[x] = e.src
  PROVE  LET result == ResourcesFor(Snapshot(x), e, TRUE)
         IN  \/ result.err = "none" /\ (y \in Ids(result.objs) <=> Exists(y) /\ (Related(x, y, e) \/ Replaced(x, y, e)))
             \/ result.err = "notFound" /\ \E n \in Called(x, e) : Get(e.dst, n[1], n[2]) = {}
             \/ /\ result.err = "failed"
                /\ \/ e.type = "MatchSelector" /\ Selector(Snapshot(x), e) = Malformed
                   \/ e.type = "MatchRef" /\ \E path \in Range(e.references) :
                        \/ ~RowsOK(cluster[x].refs[path])
                        \/ NamespaceOf[x] = NamespaceAll /\ e.dst \in Namespaced
<1>1. e.type \in {"MatchSelector", "MatchName", "OwnedBy", "MatchRef"}
  BY EdgesAssumption DEF IsEdge, Range
<1>2. ResourcesFor(Snapshot(x), e, TRUE) = Forward(Snapshot(x), e)
  BY SnapshotOf DEF ResourcesFor
<1>3. Related(x, y, e) => Exists(y)
  BY DEF Related
<1>4. Replaced(x, y, e) => e.type = "OwnedBy"
  BY DEF Replaced
<1>5. CASE e.type = "MatchSelector"
  <2>1. ResourcesFor(Snapshot(x), e, TRUE) = Selected(Snapshot(x), e)
    BY <1>2, <1>5 DEF Forward
  <2>2. LET result == ResourcesFor(Snapshot(x), e, TRUE)
        IN  \/ result.err = "failed" /\ Selector(Snapshot(x), e) = Malformed
            \/ result.err = "none" /\ (y \in Ids(result.objs) <=> Related(x, y, e))
    BY <1>5, <2>1, SelectedExact
  <2> QED
    BY <1>3, <1>4, <1>5, <2>2
<1>6. CASE e.type = "MatchName"
  <2>1. ResourcesFor(Snapshot(x), e, TRUE) = Named(Snapshot(x), e)
    BY <1>2, <1>6 DEF Forward
  <2> QED
    BY <1>3, <1>4, <1>6, <2>1, NamedExact
<1>7. CASE e.type = "OwnedBy"
  <2>1. ResourcesFor(Snapshot(x), e, TRUE) = Owners(Snapshot(x), e)
    BY <1>2, <1>7 DEF Forward
  <2> QED
    BY <1>7, <2>1, OwnersExact
<1>8. CASE e.type = "MatchRef"
  <2>1. ResourcesFor(Snapshot(x), e, TRUE) = Referenced(Snapshot(x), e)
    BY <1>2, <1>8 DEF Forward
  <2>2. LET result == ResourcesFor(Snapshot(x), e, TRUE)
        IN  \/ /\ result.err = "failed"
               /\ \E path \in Range(e.references) : ~RowsOK(cluster[x].refs[path]) \/ NoNamespace(x, e)
            \/ result.err = "notFound" /\ \E n \in Called(x, e) : Get(e.dst, n[1], n[2]) = {}
            \/ result.err = "none" /\ (y \in Ids(result.objs) <=> Related(x, y, e))
    BY <1>8, <2>1, ReferencedExact
  <2> QED
    BY <1>3, <1>4, <1>8, <2>2 DEF NoNamespace
<1> QED
  BY <1>1, <1>5, <1>6, <1>7, <1>8

\* In every state of the cluster.
LEMMA ClusterLinksExact ==
  ASSUME ClusterOK
  PROVE  LinksExact
<1> SUFFICES ASSUME NEW e \in Range(Edges), NEW x \in {z \in Object : Exists(z) /\ GVKOf[z] = e.src}
             PROVE  LET result == ResourcesFor(Snapshot(x), e, TRUE)
                        right  == {y \in Object : Exists(y) /\ (Related(x, y, e) \/ Replaced(x, y, e))}
                    IN  CASE result.err = "none"     -> Ids(result.objs) = right
                          [] result.err = "notFound" -> \E n \in Called(x, e) : Get(e.dst, n[1], n[2]) = {}
                          [] result.err = "failed"   ->
                               \/ e.type = "MatchSelector" /\ Selector(Snapshot(x), e) = Malformed
                               \/ e.type = "MatchRef" /\ \E path \in Range(e.references) :
                                    \/ ~RowsOK(cluster[x].refs[path])
                                    \/ NamespaceOf[x] = NamespaceAll /\ e.dst \in Namespaced
  BY Zenon DEF LinksExact
<1>1. PICK result : result = ResourcesFor(Snapshot(x), e, TRUE)
  OBVIOUS
<1>2. PICK right : right = {y \in Object : Exists(y) /\ (Related(x, y, e) \/ Replaced(x, y, e))}
  OBVIOUS
<1>3. IsEdge(e) /\ x \in Object /\ Exists(x) /\ GVKOf[x] = e.src /\ IsSnapshot(Snapshot(x))
  BY SnapshotOf DEF IsEdge, IsSnapshot, ClusterOK, Exists
<1>4. \A y \in Ids(result.objs) : y \in Object
  <2>1. AreNow(result.objs, e.dst)
    BY <1>1, <1>3, ResultNow DEF Proper
  <2> QED
    BY <2>1, NowSnapshots DEF AreNow, Ids, IsSnapshot
<1>5. ASSUME result.err = "none"
      PROVE  Ids(result.objs) = right
  <2>1. \A y \in Object : y \in Ids(result.objs) <=> Exists(y) /\ (Related(x, y, e) \/ Replaced(x, y, e))
    BY <1>1, <1>3, <1>5, ForwardExact
  <2> QED
    BY <1>2, <1>4, <2>1
<1>6. result.err \in {"none", "notFound", "failed"}
  BY <1>1, <1>3, ForwardExact
<1>7. ASSUME result.err = "notFound"
      PROVE  \E n \in Called(x, e) : Get(e.dst, n[1], n[2]) = {}
  BY <1>1, <1>3, <1>7, ForwardExact
<1>8. ASSUME result.err = "failed"
      PROVE  \/ e.type = "MatchSelector" /\ Selector(Snapshot(x), e) = Malformed
             \/ e.type = "MatchRef" /\ \E path \in Range(e.references) :
                  \/ ~RowsOK(cluster[x].refs[path])
                  \/ NamespaceOf[x] = NamespaceAll /\ e.dst \in Namespaced
  BY <1>1, <1>3, <1>8, ForwardExact
<1> QED
  BY <1>1, <1>2, <1>5, <1>6, <1>7, <1>8

-----------------------------------------------------------------------------
(***************************************************************************)
(* What a connection leads to backward: x, if it is among what is returned *)
(* for y.                                                                  *)
(***************************************************************************)

LEMMA SelectingExact ==
  ASSUME ClusterOK, NEW e, IsEdge(e), NEW x \in Object, NEW y \in Object, Exists(x), Exists(y),
         GVKOf[x] = e.src, GVKOf[y] = e.dst, e.type = "MatchSelector",
         Selecting(Snapshot(y), e).err = "none"
  PROVE  x \in Ids(Selecting(Snapshot(y), e).objs) <=> Related(x, y, e)
<1>1. PICK o, p : o = Snapshot(y) /\ p = Snapshot(x)
  OBVIOUS
<1>2. PICK asks : asks = {q \in List(e.src, NamespaceBack(o, e)) :
                            \/ e.nsPath \in {"", MetadataNamespace}
                            \/ NamespaceOf[o.id] \in Namespaces(q, e.nsPath)
                            \/ Namespaces(q, e.nsPath) = {}}
  OBVIOUS
<1>3. PICK objs : objs = {q \in asks : /\ Selector(q, e) # Missing
                                       /\ Matches(Selector(q, e), LabelsAt(o, e))
                                       /\ IsConnected(e.level, o, q)}
  OBVIOUS
<1>4. IsConnected(e.level, o, p) <=> Owned(e.level, y, x)
  BY <1>1, SnapshotOf DEF IsConnected, IsOwnedBy, Owned
<1>5. p \in asks <=> InReach(x, y, e)
  <2>1. p \in List(e.src, NamespaceBack(o, e)) <=>
          Scoped(e.src, NamespaceBack(o, e)) \in {NamespaceAll, NamespaceOf[x]}
    BY <1>1, ListOf, SnapshotOf
  <2>2. o.id = y
    BY <1>1, SnapshotOf
  <2> QED
    BY <1>1, <1>2, <2>1, <2>2, NearBackward
<1>6. Related(x, y, e) <=> /\ Selector(p, e) \notin {Missing, Malformed}
                           /\ Matches(Selector(p, e), LabelsAt(o, e))
                           /\ InReach(x, y, e) /\ Owned(e.level, y, x)
  BY <1>1 DEF Related
<1>7. CASE LabelsAt(o, e) = Missing
  <2>1. Selecting(o, e) = Found({})
    BY <1>7 DEF Selecting
  <2>2. ~Related(x, y, e)
    BY <1>6, <1>7 DEF Matches
  <2> QED
    BY <1>1, <2>1, <2>2, Results DEF Ids
<1>8. CASE LabelsAt(o, e) # Missing
  <2>1. Selecting(o, e) = IF \E q \in asks : Selector(q, e) = Malformed THEN Failed ELSE Found(objs)
    BY <1>2, <1>3, <1>8 DEF Selecting
  <2>2. Selecting(o, e) = Found(objs) /\ \A q \in asks : Selector(q, e) # Malformed
    BY <1>1, <2>1, Results
  <2>3. \A q \in objs : q = Snapshot(q.id)
    <3>1. \A q \in objs : q \in List(e.src, NamespaceBack(o, e))
      BY <1>2, <1>3
    <3> QED
      BY <3>1, ListOf, SnapshotOf
  <2>4. x \in Ids(objs) <=> p \in objs
    BY <1>1, <2>3, IdsOf
  <2>5. p \in objs <=> Related(x, y, e)
    BY <1>3, <1>4, <1>5, <1>6, <2>2
  <2> QED
    BY <1>1, <2>2, <2>4, <2>5, Results
<1> QED
  BY <1>7, <1>8

\* A name is looked for where names of its kind are; where they are not, there is
\* no answer in one direction or the other.
LEMMA NamingExact ==
  ASSUME ClusterOK, NEW e, IsEdge(e), NEW x \in Object, NEW y \in Object, Exists(x), Exists(y),
         GVKOf[x] = e.src, GVKOf[y] = e.dst, e.type = "MatchName",
         Naming(Snapshot(y), e).err = "none",
         \A ns \in OrAll(Namespaces(Snapshot(x), e.nsPath)) : Get(e.dst, ns, e.rename[NameOf[x]]) # {}
  PROVE  x \in Ids(Naming(Snapshot(y), e).objs) <=> Related(x, y, e)
<1>1. PICK o, p : o = Snapshot(y) /\ p = Snapshot(x)
  OBVIOUS
<1>2. PICK back : back = NamespaceBack(o, e)
  OBVIOUS
<1>3. PICK got : got = UNION {Get(e.src, back, n) : n \in ExtractName(o, e)}
  OBVIOUS
<1>4. PICK objs : objs = {q \in got : IsConnected(e.level, o, q)}
  OBVIOUS
<1>5. o.id = y /\ p.id = x
  BY <1>1, SnapshotOf
<1>6. Naming(o, e) = Found(objs) /\ got # {}
  <2>1. Naming(o, e) \in {Failed, NotFound, Found(objs)} /\ (got = {} => Naming(o, e) \in {Failed, NotFound})
    BY <1>2, <1>3, <1>4 DEF Naming
  <2> QED
    BY <1>1, <2>1, Results
<1>7. IsConnected(e.level, o, p) <=> Owned(e.level, y, x)
  BY <1>1, SnapshotOf DEF IsConnected, IsOwnedBy, Owned
<1>8. p \in got <=> NamespaceOf[x] = Scoped(e.src, back) /\ e.rename[NameOf[x]] = NameOf[y]
  <2>1. \A n : p \in Get(e.src, back, n) <=> NameOf[x] = n /\ NamespaceOf[x] = Scoped(e.src, back)
    BY <1>1, GetOf, SnapshotOf
  <2>2. NameOf[x] \in DOMAIN e.rename
    BY EdgesAssumption DEF IsEdge, Range
  <2> QED
    BY <1>3, <1>5, <2>1, <2>2 DEF ExtractName
<1>9. PICK z \in Object : GVKOf[z] = e.src /\ NamespaceOf[z] = Scoped(e.src, back)
  <2>1. PICK q : q \in got
    BY <1>6
  <2>2. PICK n : q \in Get(e.src, back, n)
    BY <1>3, <2>1
  <2> QED
    BY <2>2, GetOf
<1>10. /\ NamespaceAll = "" /\ (e.dst \in Namespaced <=> NamespaceOf[y] # "")
       /\ (e.src \in Namespaced <=> NamespaceOf[x] # "") /\ (e.src \in Namespaced <=> NamespaceOf[z] # "")
       /\ e.nsPath # "" => e.src \in Namespaced
  BY <1>9, FinderAssumption, EdgesAssumption DEF IsEdge, Range
\* So the two look in the same place.
<1>11. NamespaceOf[x] = Scoped(e.src, back) <=>
         \E ns \in OrAll(Namespaces(p, e.nsPath)) : NamespaceOf[y] = Scoped(e.dst, ns)
  <2>1. CASE e.nsPath = MetadataNamespace
    <3>1. back = NamespaceOf[y] /\ e.src \in Namespaced
      BY <1>2, <1>5, <1>10, <2>1 DEF NamespaceBack, MetadataNamespace
    <3>2. NamespaceOf[y] # ""
      BY <1>9, <1>10, <3>1 DEF Scoped
    <3>3. OrAll(Namespaces(p, e.nsPath)) = {NamespaceOf[x]}
      BY <1>5, <2>1 DEF OrAll, Namespaces, MetadataNamespace
    <3> QED
      BY <1>10, <3>1, <3>2, <3>3 DEF Scoped
  <2>2. CASE e.nsPath # MetadataNamespace
    <3>1. back = "" /\ Scoped(e.src, back) = ""
      BY <1>2, <1>10, <2>2 DEF NamespaceBack, Scoped
    <3>2. e.src \notin Namespaced /\ e.nsPath = "" /\ NamespaceOf[x] = ""
      BY <1>9, <1>10, <3>1
    <3>3. OrAll(Namespaces(p, e.nsPath)) = {""}
      BY <1>10, <3>2 DEF OrAll, Namespaces, MetadataNamespace
    <3>4. Get(e.dst, NamespaceAll, e.rename[NameOf[x]]) # {}
      BY <1>1, <1>10, <3>3
    <3>5. PICK w \in Object : GVKOf[w] = e.dst /\ NamespaceOf[w] = Scoped(e.dst, NamespaceAll)
      <4>1. PICK q : q \in Get(e.dst, NamespaceAll, e.rename[NameOf[x]])
        BY <3>4
      <4> QED
        BY <4>1, GetOf
    <3>6. e.dst \notin Namespaced
      BY <1>10, <3>5, FinderAssumption DEF Scoped
    <3> QED
      BY <1>10, <3>1, <3>2, <3>3, <3>6 DEF Scoped
  <2> QED
    BY <2>1, <2>2
<1>12. Related(x, y, e) <=>
         /\ Owned(e.level, y, x)
         /\ \E ns \in OrAll(Namespaces(p, e.nsPath)) :
              <<NamespaceOf[y], NameOf[y]>> = <<Scoped(e.dst, ns), e.rename[NameOf[x]]>>
  <2>1. Called(x, e) = {<<Scoped(e.dst, ns), e.rename[NameOf[x]]>> : ns \in OrAll(Namespaces(p, e.nsPath))}
    BY <1>1 DEF Called
  <2>2. Related(x, y, e) <=> Owned(e.level, y, x) /\ <<NamespaceOf[y], NameOf[y]>> \in Called(x, e)
    BY DEF Related
  <2> QED
    BY <2>1, <2>2
<1>13. x \in Ids(objs) <=> p \in objs
  <2>1. \A q \in objs : q = Snapshot(q.id)
    BY <1>3, <1>4, GetOf, SnapshotOf
  <2> QED
    BY <1>1, <2>1, IdsOf
<1>14. x \in Ids(objs) <=> Related(x, y, e)
  BY <1>4, <1>7, <1>8, <1>11, <1>12, <1>13
<1> QED
  BY <1>1, <1>6, <1>14, Results

LEMMA ChildrenExact ==
  ASSUME ClusterOK, NEW e, IsEdge(e), NEW x \in Object, NEW y \in Object, Exists(x), Exists(y),
         GVKOf[x] = e.src, GVKOf[y] = e.dst, e.type = "OwnedBy"
  PROVE  x \in Ids(Children(Snapshot(y), e).objs) <=> Related(x, y, e)
<1>1. PICK o, p : o = Snapshot(y) /\ p = Snapshot(x)
  OBVIOUS
<1>2. PICK objs : objs = {q \in List(e.src, NamespaceOf[y]) : IsConnected(e.level, q, o)}
  OBVIOUS
<1>3. Children(o, e) = Found(objs)
  BY <1>1, <1>2, SnapshotOf DEF Children
<1>4. IsConnected(e.level, p, o) <=> Owned(e.level, x, y)
  BY <1>1, SnapshotOf DEF IsConnected, IsOwnedBy, Owned
<1>5. p \in List(e.src, NamespaceOf[y]) <=> Scoped(e.src, NamespaceOf[y]) \in {NamespaceAll, NamespaceOf[x]}
  BY <1>1, ListOf, SnapshotOf
<1>6. ASSUME Owned(e.level, x, y)
      PROVE  Scoped(e.src, NamespaceOf[y]) \in {NamespaceAll, NamespaceOf[x]}
  <2>1. e.level \in {"Owner", "Controller"}
    BY EdgesAssumption DEF IsEdge, Range
  <2>2. PICK r \in cluster[x].owners : r.uid[1] = y
    BY <1>6, <2>1 DEF Owned
  <2>3. NamespaceOf[y] \in {NamespaceAll, NamespaceOf[x]}
    BY <2>2, LooksAssumption DEF ClusterOK, Exists
  <2> QED
    BY <2>3 DEF Scoped
<1>7. Related(x, y, e) <=> Owned(e.level, x, y)
  BY DEF Related
<1>8. \A q \in objs : q = Snapshot(q.id)
  BY <1>2, ListOf, SnapshotOf
<1>9. x \in Ids(objs) <=> p \in objs
  BY <1>1, <1>8, IdsOf
<1>10. x \in Ids(objs) <=> Related(x, y, e)
  BY <1>2, <1>4, <1>5, <1>6, <1>7, <1>9
<1> QED
  BY <1>1, <1>3, <1>10, Results

\* A reference matches, fails or says nothing of y.
LEMMA VerdictOf ==
  ASSUME NEW e, NEW x \in Object, NEW y \in Object, GVKOf[x] = e.src, GVKOf[y] = e.dst, NEW r
  PROVE  LET verdict == Verdict(Snapshot(y), r, Snapshot(x), e)
         IN  /\ verdict \in {"match", "failed", "other"}
             /\ verdict = "match" =>
                  /\ Concerns(r, e.dst) /\ r.name = NameOf[y]
                  /\ r.namespace = "" /\ e.dst \in Namespaced => NamespaceOf[x] = NamespaceOf[y]
             /\ verdict = "other" => ~IsSaid(x, y, r, e)
<1>1. PICK verdict : verdict = Verdict(Snapshot(y), r, Snapshot(x), e)
  OBVIOUS
<1>2. NamespaceAll = "" /\ (e.dst \in Namespaced <=> NamespaceOf[y] # "")
  BY FinderAssumption
<1>3. verdict = CASE ~Concerns(r, e.dst) -> "other"
                  [] Concerns(r, e.dst) /\ (r.namespace = "" /\ e.dst \in Namespaced) /\ NamespaceOf[x] = "" -> "failed"
                  [] OTHER -> IF /\ r.namespace = "" /\ e.dst \in Namespaced => NamespaceOf[x] = NamespaceOf[y]
                                 /\ r.name = NameOf[y]
                              THEN "match" ELSE "other"
  BY <1>1, SnapshotOf DEF Verdict
<1>4. IsSaid(x, y, r, e) <=> /\ Concerns(r, e.dst) /\ r.name = NameOf[y]
                             /\ Scoped(e.dst, IF r.namespace = "" THEN NamespaceOf[x] ELSE r.namespace) = NamespaceOf[y]
  BY DEF IsSaid, Says
<1>5. IsSaid(x, y, r, e) /\ r.namespace = "" /\ e.dst \in Namespaced => NamespaceOf[x] = NamespaceOf[y]
  BY <1>4 DEF Scoped
<1>6. verdict \in {"match", "failed", "other"}
  BY <1>3
<1>7. verdict = "match" => /\ Concerns(r, e.dst) /\ r.name = NameOf[y]
                           /\ r.namespace = "" /\ e.dst \in Namespaced => NamespaceOf[x] = NamespaceOf[y]
  BY <1>3
<1>8. verdict = "other" => ~IsSaid(x, y, r, e)
  BY <1>2, <1>3, <1>4, <1>5
<1> QED
  BY <1>1, <1>6, <1>7, <1>8

\* A verdict on some references, each of which has its own.
Judged(verdict, x, y, refs, e) ==
  /\ verdict \in {"match", "failed", "other"}
  /\ verdict = "match" => \E r \in refs : Verdict(Snapshot(y), r, Snapshot(x), e) = "match"
  /\ verdict = "other" => \A r \in refs : Verdict(Snapshot(y), r, Snapshot(x), e) = "other"

LEMMA JudgedInTurn ==
  ASSUME NEW e, NEW x, NEW y, NEW verdicts, NEW refs, DOMAIN verdicts \subseteq Nat,
         \A i \in DOMAIN verdicts : Judged(verdicts[i], x, y, refs[i], e)
  PROVE  Judged(FirstDecisive(verdicts), x, y, UNION {refs[i] : i \in DOMAIN verdicts}, e)
<1>1. PICK all : all = UNION {refs[i] : i \in DOMAIN verdicts}
  OBVIOUS
<1>2. \A r : r \in all <=> \E i \in DOMAIN verdicts : r \in refs[i]
  BY <1>1
<1>3. CASE FirstDecisive(verdicts) = "other" /\ \A i \in DOMAIN verdicts : verdicts[i] = "other"
  <2>1. \A i \in DOMAIN verdicts : \A r \in refs[i] : Verdict(Snapshot(y), r, Snapshot(x), e) = "other"
    BY <1>3 DEF Judged
  <2> QED
    BY <1>1, <1>2, <1>3, <2>1 DEF Judged
<1>4. CASE \E i \in DOMAIN verdicts : verdicts[i] # "other" /\ FirstDecisive(verdicts) = verdicts[i]
  <2>1. PICK i \in DOMAIN verdicts : verdicts[i] # "other" /\ FirstDecisive(verdicts) = verdicts[i]
    BY <1>4
  <2>2. Judged(verdicts[i], x, y, refs[i], e)
    OBVIOUS
  <2>3. refs[i] \subseteq all
    BY <1>2
  <2> QED
    BY <1>1, <2>1, <2>2, <2>3 DEF Judged
<1> QED
  BY <1>3, <1>4, Decided

LEMMA RefersToJudged ==
  ASSUME ClusterOK, NEW e, IsEdge(e), NEW x \in Object, NEW y \in Object, Exists(x),
         GVKOf[x] = e.src, GVKOf[y] = e.dst, e.type = "MatchRef"
  PROVE  Judged(RefersTo(Snapshot(y), Snapshot(x), e), x, y, PathRefs(x, e), e)
<1> DEFINE Each(rows) == [i \in DOMAIN rows |-> Verdict(Snapshot(y), ParseResourceRefs(rows)[i], Snapshot(x), e)]
           ByPath(rows) == IF ~RowsOK(rows) THEN "failed" ELSE FirstDecisive(Each(rows))
           Rows(j) == cluster[x].refs[e.references[j]]
<1>1. ASSUME NEW rows, IsList(rows)
      PROVE  Judged(ByPath(rows), x, y, RefsOf(rows), e)
  <2>1. CASE ~RowsOK(rows)
    BY <2>1 DEF Judged
  <2>2. CASE RowsOK(rows)
    <3>1. PICK verdicts : verdicts = Each(rows)
      OBVIOUS
    <3>2. PICK refs : refs = [i \in DOMAIN rows |-> {ResourceRef(rows[i])}]
      OBVIOUS
    <3>3. DOMAIN verdicts = DOMAIN rows /\ DOMAIN verdicts \subseteq Nat
      BY <1>1, <3>1 DEF IsList
    <3>4. ASSUME NEW i \in DOMAIN verdicts
          PROVE  Judged(verdicts[i], x, y, refs[i], e)
      <4>1. verdicts[i] = Verdict(Snapshot(y), ResourceRef(rows[i]), Snapshot(x), e) /\ refs[i] = {ResourceRef(rows[i])}
        BY <3>1, <3>2, <3>3 DEF ParseResourceRefs
      <4>2. Verdict(Snapshot(y), ResourceRef(rows[i]), Snapshot(x), e) \in {"match", "failed", "other"}
        BY VerdictOf
      <4> QED
        BY <4>1, <4>2 DEF Judged
    <3>5. UNION {refs[i] : i \in DOMAIN verdicts} = RefsOf(rows)
      BY <3>2, <3>3 DEF RefsOf, Range
    <3>6. Judged(FirstDecisive(verdicts), x, y, RefsOf(rows), e)
      BY <3>3, <3>4, <3>5, JudgedInTurn
    <3> QED
      BY <2>2, <3>1, <3>6
  <2> QED
    BY <2>1, <2>2
<1> HIDE DEF ByPath
<1>2. PICK verdicts : verdicts = [j \in DOMAIN e.references |-> ByPath(Rows(j))]
  OBVIOUS
<1>3. PICK refs : refs = [j \in DOMAIN e.references |-> RefsOf(Rows(j))]
  OBVIOUS
<1>4. RefersTo(Snapshot(y), Snapshot(x), e) = FirstDecisive(verdicts)
  <2>1. RefersTo(Snapshot(y), Snapshot(x), e) =
          FirstDecisive([j \in DOMAIN e.references |-> ByPath(Snapshot(x).look.refs[e.references[j]])])
    BY DEF RefersTo, ByPath
  <2>2. verdicts = [j \in DOMAIN e.references |-> ByPath(Snapshot(x).look.refs[e.references[j]])]
    BY <1>2, SnapshotOf
  <2> QED
    BY <2>1, <2>2
<1>5. DOMAIN verdicts = DOMAIN e.references /\ DOMAIN verdicts \subseteq Nat
  BY <1>2, ListsOf DEF IsList
<1>6. ASSUME NEW j \in DOMAIN verdicts
      PROVE  Judged(verdicts[j], x, y, refs[j], e)
  <2>1. IsList(Rows(j))
    BY <1>5, ListsOf DEF Range
  <2> QED
    BY <1>1, <1>2, <1>3, <1>5, <2>1
<1>7. UNION {refs[j] : j \in DOMAIN verdicts} = PathRefs(x, e)
  BY <1>3, <1>5 DEF PathRefs, Range
<1> QED
  BY <1>4, <1>5, <1>6, <1>7, JudgedInTurn

\* A reference is followed from both ends, unless it leads elsewhere.
LEMMA ReferringExact ==
  ASSUME ClusterOK, NEW e, IsEdge(e), NEW x \in Object, NEW y \in Object, Exists(x), Exists(y),
         GVKOf[x] = e.src, GVKOf[y] = e.dst, e.type = "MatchRef", ~Elsewhere(x, y, e),
         Referring(Snapshot(y), e).err = "none"
  PROVE  x \in Ids(Referring(Snapshot(y), e).objs) <=> Related(x, y, e)
<1>1. PICK o, p : o = Snapshot(y) /\ p = Snapshot(x)
  OBVIOUS
<1>2. PICK near : near = List(e.src, NamespaceBack(o, e))
  OBVIOUS
<1>3. PICK objs : objs = {q \in near : RefersTo(o, q, e) = "match" /\ IsConnected(e.level, o, q)}
  OBVIOUS
<1>4. /\ NamespaceAll = "" /\ (e.dst \in Namespaced <=> NamespaceOf[y] # "")
      /\ (e.src \in Namespaced <=> NamespaceOf[x] # "")
      /\ e.nsPath # "" => e.src \in Namespaced
  BY FinderAssumption, EdgesAssumption DEF IsEdge, Range
<1>5. Referring(o, e) = Found(objs) /\ \A q \in near : RefersTo(o, q, e) # "failed"
  <2>1. Referring(o, e) = IF \E q \in near : RefersTo(o, q, e) = "failed" THEN Failed ELSE Found(objs)
    BY <1>2, <1>3 DEF Referring
  <2> QED
    BY <1>1, <2>1, Results
<1>6. IsConnected(e.level, o, p) <=> Owned(e.level, y, x)
  BY <1>1, SnapshotOf DEF IsConnected, IsOwnedBy, Owned
<1>7. x \in Ids(objs) <=> p \in objs
  <2>1. \A q \in objs : q = Snapshot(q.id)
    BY <1>2, <1>3, ListOf, SnapshotOf
  <2> QED
    BY <1>1, <2>1, IdsOf
<1>8. p \in near <=> Scoped(e.src, NamespaceBack(o, e)) \in {NamespaceAll, NamespaceOf[x]}
  BY <1>1, <1>2, ListOf, SnapshotOf
<1>9. Related(x, y, e) <=> Owned(e.level, y, x) /\ \E r \in PathRefs(x, e) : IsSaid(x, y, r, e)
  <2>1. (\E r \in PathRefs(x, e) : IsSaid(x, y, r, e)) <=> <<NamespaceOf[y], NameOf[y]>> \in Called(x, e)
    BY CalledByRef DEF IsSaid
  <2> QED
    BY <2>1 DEF Related
<1>10. ASSUME NEW r \in PathRefs(x, e), Concerns(r, e.dst), r.name = NameOf[y], e.dst \in Namespaced
       PROVE  /\ Says(x, r, e)[1] = NamespaceOf[y]
              /\ e.nsPath = MetadataNamespace => NamespaceOf[x] = NamespaceOf[y]
  <2>1. Says(x, r, e) \in Called(x, e) /\ Says(x, r, e)[2] = NameOf[y]
    BY <1>10, CalledByRef DEF Says
  <2> QED
    BY <1>10, <2>1 DEF Elsewhere
<1>11. ASSUME NEW r \in PathRefs(x, e), IsSaid(x, y, r, e)
       PROVE  p \in near
  <2>1. Concerns(r, e.dst) /\ r.name = NameOf[y]
    BY <1>11 DEF IsSaid, Says
  <2>2. CASE e.nsPath = MetadataNamespace
    <3>1. NamespaceBack(o, e) = NamespaceOf[y] /\ e.src \in Namespaced
      BY <1>1, <1>4, <2>2, SnapshotOf DEF NamespaceBack, MetadataNamespace
    <3> QED
      BY <1>4, <1>8, <1>10, <2>1, <2>2, <3>1 DEF Scoped
  <2>3. CASE e.nsPath # MetadataNamespace
    BY <1>4, <1>8, <2>3 DEF NamespaceBack, Scoped
  <2> QED
    BY <2>2, <2>3
<1>12. ASSUME NEW r \in PathRefs(x, e), Verdict(o, r, p, e) = "match"
       PROVE  IsSaid(x, y, r, e)
  <2>1. Concerns(r, e.dst) /\ r.name = NameOf[y]
    BY <1>1, <1>12, VerdictOf
  <2>2. Says(x, r, e)[1] = NamespaceOf[y]
    BY <1>4, <1>10, <2>1 DEF Says, Scoped
  <2> QED
    BY <2>1, <2>2 DEF IsSaid, Says
<1>13. Judged(RefersTo(o, p, e), x, y, PathRefs(x, e), e)
  BY <1>1, RefersToJudged
<1>14. p \in near /\ RefersTo(o, p, e) = "match" <=> \E r \in PathRefs(x, e) : IsSaid(x, y, r, e)
  <2>1. ASSUME p \in near, RefersTo(o, p, e) = "match"
        PROVE  \E r \in PathRefs(x, e) : IsSaid(x, y, r, e)
    BY <1>1, <1>12, <1>13, <2>1 DEF Judged
  <2>2. ASSUME NEW r \in PathRefs(x, e), IsSaid(x, y, r, e)
        PROVE  p \in near /\ RefersTo(o, p, e) = "match"
    <3>1. p \in near /\ RefersTo(o, p, e) # "failed"
      BY <1>5, <1>11, <2>2
    <3>2. Verdict(o, r, p, e) # "other"
      BY <1>1, <2>2, VerdictOf
    <3> QED
      BY <1>1, <1>13, <3>1, <3>2 DEF Judged
  <2> QED
    BY <2>1, <2>2
<1>15. x \in Ids(objs) <=> Related(x, y, e)
  BY <1>3, <1>6, <1>7, <1>9, <1>14
<1> QED
  BY <1>1, <1>5, <1>15, Results

LEMMA ClusterDirectionsAgree ==
  ASSUME ClusterOK
  PROVE  DirectionsAgree
<1> SUFFICES ASSUME NEW e \in Range(Edges), NEW x \in Object, NEW y \in Object,
                    Exists(x), Exists(y), GVKOf[x] = e.src, GVKOf[y] = e.dst,
                    ~Replaced(x, y, e), ~Elsewhere(x, y, e),
                    ResourcesFor(Snapshot(x), e, TRUE).err = "none",
                    ResourcesFor(Snapshot(y), e, FALSE).err = "none"
             PROVE  y \in Ids(ResourcesFor(Snapshot(x), e, TRUE).objs) <=> x \in Ids(ResourcesFor(Snapshot(y), e, FALSE).objs)
  BY Zenon DEF DirectionsAgree
<1>1. IsEdge(e) /\ e.type \in {"MatchSelector", "MatchName", "OwnedBy", "MatchRef"}
  BY EdgesAssumption DEF IsEdge, Range
<1>2. y \in Ids(ResourcesFor(Snapshot(x), e, TRUE).objs) <=> Related(x, y, e)
  BY <1>1, ForwardExact
<1>3. ResourcesFor(Snapshot(y), e, FALSE) = Backward(Snapshot(y), e)
  BY SnapshotOf DEF ResourcesFor
<1>4. x \in Ids(Backward(Snapshot(y), e).objs) <=> Related(x, y, e)
  <2>1. CASE e.type = "MatchSelector"
    <3>1. Backward(Snapshot(y), e) = Selecting(Snapshot(y), e)
      BY <2>1 DEF Backward
    <3> QED
      BY <1>1, <1>3, <2>1, <3>1, SelectingExact
  <2>2. CASE e.type = "MatchName"
    <3>1. Backward(Snapshot(y), e) = Naming(Snapshot(y), e)
      BY <2>2 DEF Backward
    <3>2. ResourcesFor(Snapshot(x), e, TRUE) = Named(Snapshot(x), e)
      BY <2>2, SnapshotOf DEF ResourcesFor, Forward
    <3>3. \A ns \in OrAll(Namespaces(Snapshot(x), e.nsPath)) : Get(e.dst, ns, e.rename[NameOf[x]]) # {}
      BY <1>1, <2>2, <3>2, NamedExact
    <3> QED
      BY <1>1, <1>3, <2>2, <3>1, <3>3, NamingExact
  <2>3. CASE e.type = "OwnedBy"
    <3>1. Backward(Snapshot(y), e) = Children(Snapshot(y), e)
      BY <2>3 DEF Backward
    <3> QED
      BY <1>1, <2>3, <3>1, ChildrenExact
  <2>4. CASE e.type = "MatchRef"
    <3>1. Backward(Snapshot(y), e) = Referring(Snapshot(y), e)
      BY <2>4 DEF Backward
    <3> QED
      BY <1>1, <1>3, <2>4, <3>1, ReferringExact
  <2> QED
    BY <1>1, <2>1, <2>2, <2>3, <2>4
<1> QED
  BY <1>2, <1>3, <1>4

-----------------------------------------------------------------------------
(***************************************************************************)
(* Locate.  The path that is walked joins: each hop starts at the kind to  *)
(* which the one before has led.                                           *)
(***************************************************************************)

Hop == [edge : Range(Edges), forward : BOOLEAN]

\* The hops of path lead from kind a to kind b.
Chain(path, a, b) ==
  /\ path \in Seq(Hop)
  /\ \A i \in 1..Len(path) : FromKind(path[i]) = IF i = 1 THEN a ELSE ToKind(path[i - 1])
  /\ b = IF Len(path) = 0 THEN a ELSE ToKind(path[Len(path)])

LEMMA ChainGrows ==
  ASSUME NEW path, NEW a, NEW b, Chain(path, a, b), NEW hop \in Hop, FromKind(hop) = b
  PROVE  Chain(Append(path, hop), a, ToKind(hop)) /\ Len(Append(path, hop)) = Len(path) + 1
<1>1. PICK new : new = Append(path, hop)
  OBVIOUS
<1>2. /\ new \in Seq(Hop) /\ Len(new) = Len(path) + 1 /\ Len(path) \in Nat
      /\ \A i \in 1..Len(path) : new[i] = path[i]
      /\ new[Len(path) + 1] = hop
  BY <1>1, AppendProperties, LenProperties DEF Chain
<1>3. ASSUME NEW i \in 1..Len(new)
      PROVE  FromKind(new[i]) = IF i = 1 THEN a ELSE ToKind(new[i - 1])
  <2>1. CASE i \in 1..Len(path)
    <3>1. new[i] = path[i] /\ (i # 1 => new[i - 1] = path[i - 1])
      BY <1>2, <2>1
    <3> QED
      BY <2>1, <3>1 DEF Chain
  <2>2. CASE i = Len(path) + 1
    <3>1. new[i] = hop /\ (i # 1 => new[i - 1] = path[Len(path)])
      BY <1>2, <2>2
    <3> QED
      BY <1>2, <2>2, <3>1 DEF Chain
  <2> QED
    BY <1>2, <2>1, <2>2
<1> QED
  BY <1>1, <1>2, <1>3 DEF Chain

LEMMA ResolvedChain ==
  ASSUME NEW from, NEW path, path \in Seq(Range(path)), Resolve(from, path).ok
  PROVE  /\ \E to : Chain(Resolve(from, path).hops, from, to)
         /\ Len(Resolve(from, path).hops) = Len(path)
<1> DEFINE N == Len(path)
           Kinds == {from} \cup {e.src : e \in Range(Edges)} \cup {e.dst : e \in Range(Edges)}
           Ways == [ok : BOOLEAN, from : Kinds, hops : Seq(Hop)]
           Fits(i, acc) == acc.ok /\ path[i] \in DOMAIN Edges /\ acc.from \in {Edges[path[i]].src, Edges[path[i]].dst}
           Next(i, acc) == LET e == Edges[path[i]]
                               f == e.src = acc.from
                           IN  [ok |-> TRUE, from |-> IF f THEN e.dst ELSE e.src,
                                hops |-> Append(acc.hops, [edge |-> e, forward |-> f])]
           Go(i, acc) == IF Fits(i, acc) THEN Next(i, acc) ELSE [acc EXCEPT !.ok = FALSE]
           first == [ok |-> TRUE, from |-> from, hops |-> <<>>]
           IsF(g) == g = [i \in 0..N |-> IF i = 0 THEN first ELSE Go(i, g[i - 1])]
           step == [i \in 1..N |-> [acc \in Ways |-> Go(i, acc)]]
<1>1. N \in Nat
  BY LenProperties
<1>2. ASSUME NEW i \in 1..N, NEW acc \in Ways, Fits(i, acc)
      PROVE  /\ Next(i, acc) \in Ways
             /\ \A a : Chain(acc.hops, a, acc.from) => /\ Chain(Next(i, acc).hops, a, Next(i, acc).from)
                                                       /\ Len(Next(i, acc).hops) = Len(acc.hops) + 1
  <2>1. PICK e : e = Edges[path[i]]
    OBVIOUS
  <2>2. PICK hop : hop = [edge |-> e, forward |-> e.src = acc.from]
    OBVIOUS
  <2>3. e \in Range(Edges) /\ acc.from \in {e.src, e.dst}
    BY <1>2, <2>1 DEF Range
  <2>4. hop \in Hop /\ FromKind(hop) = acc.from /\ ToKind(hop) = IF e.src = acc.from THEN e.dst ELSE e.src
    BY <2>2, <2>3 DEF Hop, FromKind, ToKind
  <2>5. /\ Next(i, acc) = [ok |-> TRUE, from |-> ToKind(hop), hops |-> Append(acc.hops, hop)]
        /\ ToKind(hop) \in Kinds
    BY <2>1, <2>2, <2>3, <2>4
  <2>6. Append(acc.hops, hop) \in Seq(Hop)
    BY <2>4, AppendProperties
  <2> HIDE DEF Next, Kinds
  <2>7. Next(i, acc) \in Ways
    BY <2>5, <2>6
  <2>8. ASSUME NEW a, Chain(acc.hops, a, acc.from)
        PROVE  /\ Chain(Next(i, acc).hops, a, Next(i, acc).from)
               /\ Len(Next(i, acc).hops) = Len(acc.hops) + 1
    BY <2>4, <2>5, <2>8, ChainGrows
  <2> QED
    BY <2>7, <2>8
<1>3. \A i \in 1..N, acc \in Ways : [acc EXCEPT !.ok = FALSE] \in Ways /\ ~[acc EXCEPT !.ok = FALSE].ok
  OBVIOUS
<1>4. first \in Ways
  <2>1. <<>> \in Seq(Hop)
    BY EmptySeq
  <2> QED
    BY <2>1
<1>5. Resolve(from, path) = (CHOOSE g : IsF(g))[N]
  BY DEF Resolve
<1> HIDE DEF N, Ways, Next, Fits, first
<1>6. step \in [1..N -> [Ways -> Ways]]
  BY <1>2, <1>3
<1>7. PICK g : Recursive(g, N, Ways, first, step)
  <2> HIDE DEF step
  <2> QED
    BY <1>1, <1>4, <1>6, IntervalRecursion
<1>8. IsF(g)
  <2>1. ASSUME NEW i \in 1..N PROVE g[i] = Go(i, g[i - 1])
    <3>1. g[i - 1] \in Ways
      BY <1>1, <1>7 DEF Recursive
    <3> QED
      BY <1>7, <3>1 DEF Recursive
  <2> HIDE DEF Go
  <2> QED
    BY <1>1, <1>7, <2>1 DEF Recursive
<1>9. PICK way : way = CHOOSE h : IsF(h)
  OBVIOUS
<1>10. IsF(way)
  <2> HIDE DEF IsF
  <2> QED
    BY <1>8, <1>9, Zenon
<1>11. way[0] = first /\ \A i \in 1..N : way[i] = Go(i, way[i - 1])
  <2> HIDE DEF Go
  <2>1. \A i \in 0..N : way[i] = IF i = 0 THEN first ELSE Go(i, way[i - 1])
    BY <1>10, Zenon
  <2>2. 0 \in 0..N /\ \A i \in 1..N : i \in 0..N /\ i # 0
    BY <1>1
  <2> QED
    BY <2>1, <2>2, Zenon
<1> DEFINE Good(i) == way[i] \in Ways /\ (way[i].ok => Chain(way[i].hops, from, way[i].from) /\ Len(way[i].hops) = i)
           T == {i \in 0..N : Good(i)}
<1>12. 0 \in T
  <2>1. Chain(<<>>, from, from) /\ Len(<<>>) = 0
    BY EmptySeq DEF Chain
  <2>2. first.hops = <<>> /\ first.from = from
    BY DEF first
  <2> QED
    BY <1>1, <1>4, <1>11, <2>1, <2>2
<1>13. ASSUME NEW i \in 1..N, i - 1 \in T
       PROVE  i \in T
  <2>1. Good(i - 1) /\ way[i] = Go(i, way[i - 1])
    BY <1>11, <1>13
  <2>2. PICK acc : acc = way[i - 1]
    OBVIOUS
  <2>3. /\ acc \in Ways /\ (acc.ok => Chain(acc.hops, from, acc.from) /\ Len(acc.hops) = i - 1)
        /\ way[i] = Go(i, acc)
    BY <2>1, <2>2
  <2>4. Fits(i, acc) => acc.ok
    BY DEF Fits
  <2>5. Good(i)
    <3>1. CASE Fits(i, acc)
      <4>1. way[i] = Next(i, acc) /\ Chain(acc.hops, from, acc.from) /\ Len(acc.hops) + 1 = i
        BY <1>1, <2>3, <2>4, <3>1
      <4>2. /\ Next(i, acc) \in Ways
            /\ Chain(Next(i, acc).hops, from, Next(i, acc).from) /\ Len(Next(i, acc).hops) = i
        BY <1>2, <2>3, <3>1, <4>1
      <4> QED
        BY <4>1, <4>2
    <3>2. CASE ~Fits(i, acc)
      BY <1>3, <2>3, <3>2
    <3> QED
      BY <3>1, <3>2
  <2> HIDE DEF Good
  <2> QED
    BY <1>1, <2>5
<1>14. T = 0..N
  <2>1. T \in SUBSET (0..N)
    OBVIOUS
  <2> HIDE DEF T
  <2> QED
    BY <1>1, <1>12, <1>13, <2>1, IntervalInduction
<1>15. Good(N)
  <2> HIDE DEF Good
  <2> QED
    BY <1>1, <1>14
<1>16. Resolve(from, path) = way[N]
  BY <1>5, <1>9
<1> QED
  BY <1>15, <1>16 DEF N

-----------------------------------------------------------------------------
(***************************************************************************)
(* The walk.  What it has in hand are objects as they were when they were  *)
(* read, all of the kind that the hop starts from, or leads to.            *)
(***************************************************************************)

InHand(S, kind) == \A o \in S : IsSnapshot(o) /\ GVKOf[o.id] = kind

WalkInv ==
  /\ \E a, b : Chain(hops, a, b)
  /\ at \in 1..Len(hops)
  /\ InHand(ins, FromKind(hops[at]))
  /\ InHand(out, ToKind(hops[at])) /\ InHand(gathered, ToKind(hops[at]))
  /\ \A o \in asking : left \subseteq Asks(o, hops[at].edge, hops[at].forward)

\* A call has requests left for as long as it lasts, which is within a walk.
CallInv ==
  /\ asking \subseteq ins /\ (asking = {} <=> left = {}) /\ (asking = {} => gathered = {})
  /\ pc # "walk" => asking = {}

\* Being right about the cluster and one hop takes being right about the path.
LocatorInv ==
  /\ ClusterOK
  /\ births  \in [Object -> 1..(1 + changes)]
  /\ changes \in 0..MaxChanges
  /\ pc      \in {"idle", "walk", "done"}
  /\ reply   \in {"none", "found", "notFound", "failed"}
  /\ pc = "walk" => WalkInv
  /\ CallInv
  /\ pc = "done" => (reply = "found" <=> Cardinality(out) = 1)

LEMMA HopsOf ==
  ASSUME WalkInv
  PROVE  /\ hops \in Seq(Hop) /\ Len(hops) \in Nat /\ DOMAIN hops = 1..Len(hops)
         /\ \A i \in 1..Len(hops) : /\ IsEdge(hops[i].edge) /\ hops[i].forward \in BOOLEAN
                                    /\ i # 1 => FromKind(hops[i]) = ToKind(hops[i - 1])
<1>1. PICK a, b : Chain(hops, a, b)
  BY DEF WalkInv
<1>2. hops \in Seq(Hop) /\ Len(hops) \in Nat /\ DOMAIN hops = 1..Len(hops)
  BY <1>1, LenProperties DEF Chain
<1>3. \A i \in 1..Len(hops) : hops[i] \in Hop
  BY <1>2, ElementOfSeq
<1> QED
  BY <1>1, <1>2, <1>3 DEF Chain, Hop, IsEdge

\* The answers are proper, and the requests do not depend on the cluster.
LEMMA AskNow ==
  ASSUME ClusterOK, NEW e, IsEdge(e), NEW f \in BOOLEAN, NEW o, IsSnapshot(o), NEW q \in Asks(o, e, f)
  PROVE  Proper(Ask(o, e, f, q), IF f THEN e.dst ELSE e.src)
<1>1. e.type \in {"MatchSelector", "MatchName", "OwnedBy", "MatchRef"}
  BY EdgesAssumption DEF IsEdge, Range
<1>2. ASSUME f
      PROVE  Proper(FetchAt(o, e, q), e.dst)
  BY RequestsNow, FoundNow DEF FetchAt
<1>3. ASSUME ~f, GVKOf[o.id] = e.dst
      PROVE  Proper(Backward(o, e), e.src)
  BY <1>3, BackwardNow
<1> QED
  BY <1>1, <1>2, <1>3, RequestsNow, FoundNow DEF Ask

LEMMA SameAsks == \A o, e, f : Asks(o, e, f)' = Asks(o, e, f)
BY DEF Asks, OwnerRefs, Namespaces, OrAll

\* What a hop leads to, now.
LEMMA HopNow ==
  ASSUME ClusterOK, WalkInv, NEW o \in ins
  PROVE  \A q \in Asks(o, hops[at].edge, hops[at].forward) :
           LET result == Ask(o, hops[at].edge, hops[at].forward, q)
           IN  /\ InHand(result.objs, ToKind(hops[at]))
               /\ \A p \in result.objs : p = Snapshot(p.id) /\ Exists(p.id)
<1> TAKE q \in Asks(o, hops[at].edge, hops[at].forward)
<1>1. PICK e, f, result : e = hops[at].edge /\ f = hops[at].forward /\ result = Ask(o, e, f, q)
  OBVIOUS
<1>2. IsEdge(e) /\ f \in BOOLEAN /\ IsSnapshot(o) /\ ToKind(hops[at]) = IF f THEN e.dst ELSE e.src
  BY <1>1, HopsOf DEF WalkInv, InHand, ToKind
<1>3. Proper(result, ToKind(hops[at]))
  BY <1>1, <1>2, AskNow
<1>4. \A p \in result.objs : IsSnapshot(p) /\ p = Snapshot(p.id) /\ Exists(p.id) /\ GVKOf[p.id] = ToKind(hops[at])
  BY <1>3, NowSnapshots DEF Proper, AreNow
<1> QED
  BY <1>1, <1>3, <1>4 DEF InHand

\* A request of a call that has begun, or begins.
LEMMA TodoAsked ==
  ASSUME LocatorInv, pc = "walk", NEW o \in ins, asking \subseteq {o}
  PROVE  Todo(o) \subseteq Asks(o, hops[at].edge, hops[at].forward)
<1>1. CASE asking = {}
  BY <1>1 DEF Todo
<1>2. CASE asking # {}
  <2>1. o \in asking
    BY <1>2
  <2>2. left \subseteq Asks(o, hops[at].edge, hops[at].forward)
    BY <2>1 DEF LocatorInv, WalkInv
  <2> QED
    BY <1>2, <2>2 DEF Todo
<1> QED
  BY <1>1, <1>2

LEMMA OneObject ==
  ASSUME NEW objs
  PROVE  /\ TheObject(objs) \in {"found", "notFound", "failed"}
         /\ TheObject(objs) = "found" => Cardinality(objs) = 1
BY FS_EmptySet DEF TheObject

\* An answer has an object if it says so.
LEMMA Answered ==
  ASSUME NEW result, NEW objs, NEW path, Answer(result, objs, path),
         result \in {"found", "notFound", "failed"}, result = "found" => Cardinality(objs) = 1
  PROVE  pc' = "done" /\ reply' = result /\ (reply' = "found" <=> Cardinality(out') = 1) /\ CallInv'
BY FS_EmptySet DEF Answer, NoCall, CallInv

LEMMA LocatorInvInit == LocatorInit => LocatorInv
<1> SUFFICES ASSUME LocatorInit PROVE LocatorInv
  OBVIOUS
<1>1. ClusterOK
  BY LocatorAssumption DEF LocatorInit, ClusterOK
<1>2. births \in [Object -> 1..(1 + changes)] /\ changes \in 0..MaxChanges
  BY LocatorAssumption DEF LocatorInit
<1> QED
  BY <1>1, <1>2 DEF LocatorInit, LocatorInv, CallInv

LEMMA LocatorInvNext == LocatorInv /\ [LocatorNext]_locatorVars => LocatorInv'
<1> SUFFICES ASSUME LocatorInv, [LocatorNext]_locatorVars PROVE LocatorInv'
  OBVIOUS
<1>1. ASSUME NEW c \in Changes, Change(c[1], c[2])
      PROVE  LocatorInv'
  <2>1. c[1] \in Object /\ c[2] \in Looks[c[1]] \cup {Absent} /\ MaxChanges \in Nat
    BY LocatorAssumption
  <2>2. ClusterOK'
    BY <1>1, <2>1 DEF LocatorInv, ClusterOK, Change
  <2>3. births' \in [Object -> 1..(1 + changes')] /\ changes' \in 0..MaxChanges
    <3>1. changes' = changes + 1 /\ changes' \in 0..MaxChanges /\ births \in [Object -> 1..changes']
      BY <1>1, <2>1 DEF LocatorInv, Change
    <3>2. \A y \in Object : births'[y] \in {births[y], births[y] + 1} /\ births'[y] \in 1..(1 + changes')
      BY <1>1, <3>1 DEF Change
    <3>3. births' = [births EXCEPT ![c[1]] = births'[c[1]]]
      BY <1>1, <2>1, <3>1 DEF Change
    <3> QED
      BY <2>1, <3>1, <3>2, <3>3
  <2>4. WalkInv'
    BY <1>1, SameAsks DEF LocatorInv, WalkInv, Change, walkVars, callVars, InHand, IsSnapshot
  <2> QED
    BY <1>1, <2>2, <2>3, <2>4 DEF LocatorInv, CallInv, Change, walkVars, callVars
<1>2. ASSUME NEW r \in Requests, Locate(r)
      PROVE  LocatorInv'
  <2>1. PICK got, way : got = GetSelected(r.src) /\ way = Resolve(r.src.gvk, r.path)
    OBVIOUS
  <2>2. UNCHANGED <<cluster, births, changes>>
    BY <1>2 DEF Locate
  <2>3. ClusterOK' /\ births' \in [Object -> 1..(1 + changes')] /\ changes' \in 0..MaxChanges
    BY <2>2 DEF LocatorInv, ClusterOK
  <2>4. \/ Answer("failed", {}, <<>>)
        \/ Answer(TheObject(got), got, <<>>)
        \/ /\ TheObject(got) = "found" /\ r.path # <<>> /\ way.ok
           /\ pc' = "walk" /\ hops' = way.hops /\ at' = 1 /\ ins' = got /\ out' = {}
           /\ UNCHANGED <<callVars, reply>>
    BY <1>2, <2>1 DEF Locate
  <2>5. ASSUME Answer("failed", {}, <<>>) \/ Answer(TheObject(got), got, <<>>)
        PROVE  LocatorInv'
    <3>1. /\ pc' = "done" /\ reply' \in {"found", "notFound", "failed"} /\ CallInv'
          /\ reply' = "found" <=> Cardinality(out') = 1
      BY <2>5, Answered, OneObject
    <3> QED
      BY <2>3, <3>1 DEF LocatorInv
  <2>6. ASSUME /\ r.path # <<>> /\ way.ok
               /\ pc' = "walk" /\ hops' = way.hops /\ at' = 1 /\ ins' = got /\ out' = {}
               /\ UNCHANGED <<callVars, reply>>
        PROVE  LocatorInv'
    <3>1. PICK to : Chain(way.hops, r.src.gvk, to) /\ Len(way.hops) = Len(r.path)
      BY <2>1, <2>6, LocatorAssumption, ResolvedChain
    <3>2. Len(way.hops) \in Nat \ {0}
      <4>1. r.path \in Seq(Range(r.path))
        BY LocatorAssumption
      <4> QED
        BY <2>6, <3>1, <4>1, EmptySeq
    <3>3. FromKind(way.hops[1]) = r.src.gvk
      BY <3>1, <3>2 DEF Chain
    <3>4. InHand(got, r.src.gvk)
      <4>1. AreNow(got, r.src.gvk)
        BY <2>1, ReadNow DEF GetSelected, AreNow
      <4> QED
        BY <4>1, NowSnapshots DEF LocatorInv, AreNow, InHand
    <3>5. asking = {} /\ left = {} /\ gathered = {}
      BY <1>2 DEF LocatorInv, CallInv, Locate
    <3>6. WalkInv'
      BY <2>6, <3>1, <3>2, <3>3, <3>4, <3>5 DEF callVars, WalkInv, InHand, IsSnapshot
    <3> QED
      BY <2>3, <2>6, <3>5, <3>6 DEF LocatorInv, CallInv, callVars
  <2> QED
    BY <2>4, <2>5, <2>6
<1>3. ASSUME NEW o \in ins, Follow(o)
      PROVE  LocatorInv'
  <2>1. UNCHANGED <<cluster, births, changes>> /\ pc = "walk" /\ asking \subseteq {o} /\ WalkInv
    BY <1>3 DEF Follow, historyVars, LocatorInv
  <2>2. ClusterOK' /\ births' \in [Object -> 1..(1 + changes')] /\ changes' \in 0..MaxChanges
    BY <2>1 DEF LocatorInv, ClusterOK
  <2>3. ASSUME NEW objs, InHand(objs, ToKind(hops[at])), Followed(o, objs)
        PROVE  LocatorInv'
    <3>1. InHand(out', ToKind(hops[at]))
      BY <2>1, <2>3 DEF WalkInv, InHand, AppendObjects, Followed
    <3>2. UNCHANGED <<hops, at, pc, reply>> /\ ins' \subseteq ins /\ asking' = {} /\ left' = {} /\ gathered' = {}
      BY <2>3 DEF Followed, NoCall
    <3>3. WalkInv' /\ CallInv'
      BY <2>1, <3>1, <3>2 DEF WalkInv, InHand, IsSnapshot, CallInv
    <3> QED
      BY <2>1, <2>2, <3>2, <3>3 DEF LocatorInv
  <2>4. InHand({}, ToKind(hops[at]))
    BY DEF InHand
  <2>5. CASE Todo(o) = {} /\ Followed(o, {})
    BY <2>3, <2>4, <2>5
  <2>6. ASSUME NEW q \in Todo(o), NEW result, result = Ask(o, hops[at].edge, hops[at].forward, q),
               NEW found, found = AppendObjects(gathered, result.objs)
        PROVE  /\ Answer("failed", {}, hops) => LocatorInv'
               /\ Followed(o, {}) \/ Followed(o, found) => LocatorInv'
               /\ Todo(o) \ {q} # {} /\ asking' = {o} /\ left' = Todo(o) \ {q} /\ gathered' = found
                    /\ UNCHANGED <<pc, hops, at, ins, out, reply>> => LocatorInv'
    <3>1. ASSUME Answer("failed", {}, hops)
          PROVE  LocatorInv'
      <4>1. pc' = "done" /\ reply' = "failed" /\ (reply' = "found" <=> Cardinality(out') = 1) /\ CallInv'
        BY <3>1, Answered
      <4> QED
        BY <2>2, <4>1 DEF LocatorInv
    <3>2. Todo(o) \subseteq Asks(o, hops[at].edge, hops[at].forward)
      BY <2>1, TodoAsked
    <3>3. InHand(result.objs, ToKind(hops[at]))
      BY <2>1, <2>6, <3>2, HopNow DEF LocatorInv
    <3>4. InHand(found, ToKind(hops[at]))
      BY <2>1, <2>6, <3>3 DEF WalkInv, InHand, AppendObjects
    <3>5. ASSUME Todo(o) \ {q} # {}, asking' = {o}, left' = Todo(o) \ {q}, gathered' = found,
                 UNCHANGED <<pc, hops, at, ins, out, reply>>
          PROVE  LocatorInv'
      <4>1. left' \subseteq Asks(o, hops[at].edge, hops[at].forward)
        BY <3>2, <3>5
      <4>2. WalkInv'
        BY <2>1, <3>4, <3>5, <4>1, SameAsks DEF WalkInv, InHand, IsSnapshot
      <4>3. CallInv'
        BY <1>3, <2>1, <3>5 DEF CallInv
      <4> QED
        BY <2>1, <2>2, <3>5, <4>2, <4>3 DEF LocatorInv
    <3> QED
      BY <2>3, <2>4, <3>1, <3>4, <3>5
  <2> QED
    BY <1>3, <2>5, <2>6 DEF Follow
<1>4. ASSUME NextHop
      PROVE  LocatorInv'
  <2>1. UNCHANGED <<cluster, births, changes>> /\ pc = "walk"
    BY <1>4 DEF NextHop, historyVars
  <2>2. ClusterOK' /\ births' \in [Object -> 1..(1 + changes')] /\ changes' \in 0..MaxChanges
    BY <2>1 DEF LocatorInv, ClusterOK
  <2>3. CASE at < Len(hops) /\ at' = at + 1 /\ ins' = out /\ out' = {} /\ UNCHANGED <<pc, hops, callVars, reply>>
    <3>1. at' \in 1..Len(hops) /\ FromKind(hops[at']) = ToKind(hops[at])
      BY <2>1, <2>3, HopsOf DEF LocatorInv, WalkInv
    <3>2. asking = {} /\ left = {} /\ gathered = {}
      BY <1>4 DEF LocatorInv, CallInv, NextHop
    <3>3. WalkInv' /\ CallInv'
      BY <2>1, <2>3, <3>1, <3>2 DEF LocatorInv, WalkInv, InHand, IsSnapshot, CallInv, callVars
    <3> QED
      BY <2>1, <2>2, <2>3, <3>3 DEF LocatorInv
  <2>4. CASE Answer(TheObject(out), out, hops)
    <3>1. /\ pc' = "done" /\ reply' \in {"found", "notFound", "failed"} /\ CallInv'
          /\ reply' = "found" <=> Cardinality(out') = 1
      BY <2>4, Answered, OneObject
    <3> QED
      BY <2>2, <3>1 DEF LocatorInv
  <2> QED
    BY <1>4, <2>3, <2>4 DEF NextHop
<1>5. CASE Return
  BY <1>5 DEF LocatorInv, CallInv, callVars, Return, ClusterOK
<1>6. CASE UNCHANGED locatorVars
  BY <1>6, SameAsks DEF LocatorInv, ClusterOK, CallInv, locatorVars, walkVars, callVars, WalkInv, InHand, IsSnapshot
<1> QED
  BY <1>1, <1>2, <1>3, <1>4, <1>5, <1>6 DEF LocatorNext

\* Types; a walk is in one of its hops, with objects of the kind where the hop
\* starts; and it is said to have found an object when it has exactly one.
THEOREM LocatorTypeCorrect == LocatorSpec => []LocatorTypeOK
<1>1. LocatorInv => LocatorTypeOK
  <2> SUFFICES ASSUME LocatorInv PROVE LocatorTypeOK
    OBVIOUS
  <2>1. births \in [Object -> 1..(1 + MaxChanges)]
    BY LocatorAssumption DEF LocatorInv
  <2>2. pc = "walk" => at \in DOMAIN hops /\ \A o \in ins : GVKOf[o.id] = FromKind(hops[at])
    BY HopsOf DEF LocatorInv, WalkInv, InHand
  <2> QED
    BY <2>1, <2>2 DEF LocatorInv, LocatorTypeOK, ClusterOK, CallInv
<1> QED
  BY <1>1, LocatorInvInit, LocatorInvNext, PTL DEF LocatorSpec

\* ResourcesFor, forward, gives exactly what a connection means, for all
\* connections, objects and looks.
THEOREM LinksAreExact == LocatorSpec => []LinksExact
<1>1. LocatorInv => LinksExact
  BY ClusterLinksExact DEF LocatorInv
<1> QED
  BY <1>1, LocatorInvInit, LocatorInvNext, PTL DEF LocatorSpec

\* ResourcesFor, backward, gives the objects from which forward leads back,
\* whenever both give an answer, but for replaced owners and for references that
\* lead elsewhere.
THEOREM DirectionsAlwaysAgree == LocatorSpec => []DirectionsAgree
<1>1. LocatorInv => DirectionsAgree
  BY ClusterDirectionsAgree DEF LocatorInv
<1> QED
  BY <1>1, LocatorInvInit, LocatorInvNext, PTL DEF LocatorSpec

-----------------------------------------------------------------------------
(***************************************************************************)
(* What hops join, from one state to the next.                             *)
(***************************************************************************)

LEMMA StartsOf ==
  \A path, i, o : <<i, o>> \in Starts(path) <=>
    i \in DOMAIN path /\ \E x \in Object : o = Snapshot(x) /\ Exists(x) /\ GVKOf[x] = FromKind(path[i])
BY SnapshotOf DEF Starts

LEMMA JoinedOf ==
  \A path, i, x, y : <<<<i, x>>, y>> \in Joined(path) =>
    i \in DOMAIN path /\ x \in Object /\ y \in Ids(ResourcesFor(Snapshot(x), path[i].edge, path[i].forward).objs)
<1> TAKE path, i, x, y
<1> SUFFICES ASSUME <<<<i, x>>, y>> \in Joined(path)
             PROVE  i \in DOMAIN path /\ x \in Object
                      /\ y \in Ids(ResourcesFor(Snapshot(x), path[i].edge, path[i].forward).objs)
  OBVIOUS
<1>1. PICK p \in Starts(path) :
        <<<<i, x>>, y>> \in {<<p[1], p[2].id>>} \X Ids(ResourcesFor(p[2], path[p[1]].edge, path[p[1]].forward).objs)
  BY DEF Joined
<1>2. p[1] = i /\ p[2].id = x /\ y \in Ids(ResourcesFor(p[2], path[i].edge, path[i].forward).objs)
  BY <1>1
<1>3. p = <<i, p[2]>>
  BY <1>2 DEF Starts
<1>4. i \in DOMAIN path /\ \E z \in Object : p[2] = Snapshot(z)
  BY <1>3, StartsOf
<1>5. p[2] = Snapshot(x) /\ x \in Object
  BY <1>2, <1>4, SnapshotOf
<1> QED
  BY <1>2, <1>4, <1>5

LEMMA LinkedOf ==
  ASSUME NEW path, NEW i \in DOMAIN path, NEW x \in Object, Exists(x), GVKOf[x] = FromKind(path[i]),
         NEW y \in Shown(Snapshot(x), path[i])
  PROVE  <<<<i, x>>, y>> \in Linked(path)
<1>1. <<i, Snapshot(x)>> \in Starts(path)
  BY StartsOf
<1>2. <<<<i, x>>, y>> \in {<<i, Snapshot(x).id>>} \X Shown(Snapshot(x), path[i])
  BY SnapshotOf
<1>3. PICK p : p = <<i, Snapshot(x)>>
  OBVIOUS
<1>4. p \in Starts(path) /\ <<<<i, x>>, y>> \in {<<p[1], p[2].id>>} \X Shown(p[2], path[p[1]])
  BY <1>1, <1>2, <1>3
<1> QED
  BY <1>4 DEF Linked

\* What is read of a kind is the same, when objects of other kinds have changed.
LEMMA SameRead ==
  ASSUME NEW gvk, \A y \in Object : GVKOf[y] = gvk => cluster'[y] = cluster[y] /\ births'[y] = births[y]
  PROVE  \A ns, name : List(gvk, ns)' = List(gvk, ns) /\ Get(gvk, ns, name)' = Get(gvk, ns, name)
<1> TAKE ns, name
<1>1. List(gvk, ns)' = List(gvk, ns)
  BY DEF List, Snapshot, Exists
<1>2. Get(gvk, ns, name)' = Get(gvk, ns, name)
  BY DEF Get, Snapshot, Exists
<1> QED
  BY <1>1, <1>2

\* Nothing of a kind has changed.
StillOf(gvk) == \A y \in Object : GVKOf[y] = gvk => cluster'[y] = cluster[y] /\ births'[y] = births[y]

LEMMA SameHop ==
  ASSUME NEW e, IsEdge(e), NEW o, NEW f \in BOOLEAN, StillOf(IF f THEN e.dst ELSE e.src)
  PROVE  ResourcesFor(o, e, f)' = ResourcesFor(o, e, f) /\ \A q : Ask(o, e, f, q)' = Ask(o, e, f, q)
<1>0. e.type \in {"MatchSelector", "MatchName", "OwnedBy", "MatchRef"}
  BY EdgesAssumption DEF IsEdge, Range
<1>1. CASE f
  <2>1. \A ns, name : List(e.dst, ns)' = List(e.dst, ns) /\ Get(e.dst, ns, name)' = Get(e.dst, ns, name)
    BY <1>1, SameRead DEF StillOf
  <2>2. \A q : SelectedIn(o, e, q)' = SelectedIn(o, e, q)
    BY <2>1 DEF SelectedIn
  <2>3. \A q : NamedIn(o, e, q)' = NamedIn(o, e, q)
    BY <2>1 DEF NamedIn
  <2>4. \A q : OwnerBy(o, e, q)' = OwnerBy(o, e, q)
    BY <2>1 DEF OwnerBy
  <2>5. \A r : Fetch(o, r, e)' = Fetch(o, r, e)
    BY <2>1 DEF Fetch
  <2>6. Selected(o, e)' = Selected(o, e)
    <3> DEFINE results == {SelectedIn(o, e, ns) : ns \in OrAll(Namespaces(o, e.nsPath))}
    <3>1. results' = results
      BY <2>2
    <3>2. Selected(o, e) = Together(results) /\ Selected(o, e)' = Together(results')
      BY DEF Selected
    <3> HIDE DEF results
    <3> QED
      BY <3>1, <3>2
  <2>7. Named(o, e)' = Named(o, e)
    <3> DEFINE results == {NamedIn(o, e, ns) : ns \in OrAll(Namespaces(o, e.nsPath))}
    <3>1. results' = results
      BY <2>3
    <3>2. Named(o, e) = Together(results) /\ Named(o, e)' = Together(results')
      BY DEF Named
    <3> HIDE DEF results
    <3> QED
      BY <3>1, <3>2
  <2>8. Owners(o, e)' = Owners(o, e)
    <3> DEFINE results == {OwnerBy(o, e, r) : r \in OwnerRefs(o, e)}
    <3>1. results' = results
      BY <2>4 DEF OwnerRefs
    <3>2. Owners(o, e) = Together(results) /\ Owners(o, e)' = Together(results')
      BY DEF Owners
    <3> HIDE DEF results
    <3> QED
      BY <3>1, <3>2
  <2>9. Referenced(o, e)' = Referenced(o, e)
    BY <2>5 DEF Referenced
  <2>10. ResourcesFor(o, e, f)' = ResourcesFor(o, e, f)
    BY <1>0, <1>1, <2>6, <2>7, <2>8, <2>9 DEF ResourcesFor, Forward
  <2>11. \A q : FetchAt(o, e, q)' = FetchAt(o, e, q)
    BY <2>5 DEF FetchAt
  <2>12. \A q : Ask(o, e, f, q)' = Ask(o, e, f, q)
    BY <1>0, <1>1, <2>2, <2>3, <2>4, <2>11 DEF Ask
  <2> QED
    BY <2>10, <2>12
<1>2. CASE ~f
  <2>1. \A ns, name : List(e.src, ns)' = List(e.src, ns) /\ Get(e.src, ns, name)' = Get(e.src, ns, name)
    BY <1>2, SameRead DEF StillOf
  <2>2. Selecting(o, e)' = Selecting(o, e)
    <3> DEFINE asks == {p \in List(e.src, NamespaceBack(o, e)) :
                          \/ e.nsPath \in {"", MetadataNamespace}
                          \/ NamespaceOf[o.id] \in Namespaces(p, e.nsPath)
                          \/ Namespaces(p, e.nsPath) = {}}
               Of(S) == CASE LabelsAt(o, e) = Missing -> Found({})
                          [] LabelsAt(o, e) # Missing /\ (\E p \in S : Selector(p, e) = Malformed) -> Failed
                          [] OTHER -> Found({p \in S : /\ Selector(p, e) # Missing
                                                       /\ Matches(Selector(p, e), LabelsAt(o, e))
                                                       /\ IsConnected(e.level, o, p)})
    <3>1. asks' = asks
      BY <2>1
    <3>2. Selecting(o, e) = Of(asks) /\ Selecting(o, e)' = Of(asks')
      BY DEF Selecting
    <3> HIDE DEF asks, Of
    <3> QED
      BY <3>1, <3>2
  <2>3. Naming(o, e)' = Naming(o, e)
    BY <2>1 DEF Naming
  <2>4. Children(o, e)' = Children(o, e)
    BY <2>1 DEF Children
  <2>5. Referring(o, e)' = Referring(o, e)
    BY <2>1 DEF Referring
  <2>6. Backward(o, e)' = Backward(o, e)
    BY <1>0, <2>2, <2>3, <2>4, <2>5 DEF Backward
  <2> QED
    BY <1>2, <2>6 DEF ResourcesFor, Ask
<1> QED
  BY <1>1, <1>2

LEMMA SameLinks ==
  ASSUME WalkInv, UNCHANGED <<cluster, births, hops>>
  PROVE  /\ Joined(hops)' = Joined(hops) /\ Linked(hops)' = Linked(hops)
         /\ \A o : \A i \in 1..Len(hops) : Shown(o, hops[i])' = Shown(o, hops[i])
<1>1. \A i \in DOMAIN hops : IsEdge(hops[i].edge) /\ hops[i].forward \in BOOLEAN
  BY HopsOf
<1>2. ASSUME NEW o, NEW i \in DOMAIN hops
      PROVE  /\ ResourcesFor(o, hops[i].edge, hops[i].forward)' = ResourcesFor(o, hops[i].edge, hops[i].forward)
             /\ Shown(o, hops[i])' = Shown(o, hops[i])
  <2>1. PICK e, f : e = hops[i].edge /\ f = hops[i].forward
    OBVIOUS
  <2>2. ResourcesFor(o, e, f)' = ResourcesFor(o, e, f) /\ \A q : Ask(o, e, f, q)' = Ask(o, e, f, q)
    BY <1>1, <1>2, <2>1, SameHop DEF StillOf
  <2>3. UNION {Ids(Ask(o, e, f, q).objs) : q \in Asks(o, e, f)}' = UNION {Ids(Ask(o, e, f, q).objs) : q \in Asks(o, e, f)}
    BY <2>2, SameAsks DEF Ids
  <2>4. hops'[i].edge = e /\ hops'[i].forward = f
    BY <1>2, <2>1
  <2> QED
    BY <2>1, <2>2, <2>3, <2>4 DEF Shown
<1>3. Starts(hops)' = Starts(hops)
  BY <1>2 DEF Starts, Snapshot, Exists, FromKind
<1>4. \A p \in Starts(hops) : p[1] \in DOMAIN hops
  BY DEF Starts
<1>5. Joined(hops)' = Joined(hops)
  BY <1>2, <1>3, <1>4 DEF Joined, Ids
<1>6. Linked(hops)' = Linked(hops)
  BY <1>2, <1>3, <1>4 DEF Linked
<1> QED
  BY <1>2, <1>5, <1>6, HopsOf

-----------------------------------------------------------------------------
(***************************************************************************)
(* What the history says of the walk: what is in hand is current, unless   *)
(* it changed.  If it changed alone, its requests show nothing that they   *)
(* have not shown before, except within its kind.                          *)
(***************************************************************************)

Hand == ins \cup out \cup gathered

ShownBefore(o) ==
  \A i \in 1..Len(hops) : FromKind(hops[i]) = GVKOf[o.id] /\ ToKind(hops[i]) # GVKOf[o.id] =>
    \A y \in Shown(o, hops[i]) : <<<<i, o.id>>, y>> \in Ever

HistoryInv ==
  pc = "walk" =>
    /\ IsFiniteSet(touched)
    /\ \A o \in Hand : o.id \notin touched => o = Snapshot(o.id)
    /\ \A o \in Hand : touched \subseteq {o.id} => ShownBefore(o)

LEMMA NowExists ==
  ASSUME NEW o, IsSnapshot(o), o = Snapshot(o.id)
  PROVE  o.id \in Object /\ Exists(o.id)
<1>1. o.id \in Object /\ o.look \in Looks[o.id] /\ o.look = cluster[o.id]
  BY SnapshotOf DEF IsSnapshot
<1> QED
  BY <1>1, FinderAssumption DEF Exists

NowIsShown == WalkInv => \A o : IsSnapshot(o) /\ o = Snapshot(o.id) => ShownBefore(o)

LEMMA NowShownBefore == NowIsShown
<1> SUFFICES ASSUME WalkInv, NEW o, IsSnapshot(o), o = Snapshot(o.id),
                    NEW i \in 1..Len(hops), FromKind(hops[i]) = GVKOf[o.id], NEW y \in Shown(o, hops[i])
             PROVE  <<<<i, o.id>>, y>> \in Ever
  BY Zenon DEF NowIsShown, ShownBefore
<1>1. o.id \in Object /\ Exists(o.id) /\ i \in DOMAIN hops
  BY NowExists, HopsOf
<1>2. PICK x : x = o.id
  OBVIOUS
<1>3. y \in Shown(Snapshot(x), hops[i])
  BY <1>2
<1>4. <<<<i, x>>, y>> \in Linked(hops)
  BY <1>1, <1>2, <1>3, LinkedOf
<1> QED
  BY <1>2, <1>4 DEF Ever

\* What an object that was changed alone leads to is what it has led to.
LEMMA StillShown ==
  ASSUME WalkInv, NEW x \in Object, NEW v, cluster' = [cluster EXCEPT ![x] = v],
         births' = [births EXCEPT ![x] = IF Exists(x) THEN @ ELSE @ + 1],
         DOMAIN cluster = Object, DOMAIN births = Object,
         UNCHANGED hops, Ever \subseteq Ever', NEW o, o.id = x, ShownBefore(o)
  PROVE  ShownBefore(o)'
<1>1. \A y \in Object : y # x => cluster'[y] = cluster[y] /\ births'[y] = births[y]
  OBVIOUS
<1>2. ASSUME NEW i \in 1..Len(hops), FromKind(hops[i]) = GVKOf[x], ToKind(hops[i]) # GVKOf[x]
      PROVE  Shown(o, hops[i])' = Shown(o, hops[i])
  <2>1. PICK e, f : e = hops[i].edge /\ f = hops[i].forward
    OBVIOUS
  <2>2. IsEdge(e) /\ f \in BOOLEAN /\ ToKind(hops[i]) = IF f THEN e.dst ELSE e.src
    BY <2>1, HopsOf DEF ToKind
  <2>3. StillOf(IF f THEN e.dst ELSE e.src)
    BY <1>1, <1>2, <2>2 DEF StillOf
  <2>4. ResourcesFor(o, e, f)' = ResourcesFor(o, e, f) /\ \A q : Ask(o, e, f, q)' = Ask(o, e, f, q)
    BY <2>2, <2>3, SameHop
  <2>5. UNION {Ids(Ask(o, e, f, q).objs) : q \in Asks(o, e, f)}' = UNION {Ids(Ask(o, e, f, q).objs) : q \in Asks(o, e, f)}
    BY <2>4, SameAsks DEF Ids
  <2>6. hops'[i].edge = e /\ hops'[i].forward = f
    BY <2>1
  <2> QED
    BY <2>1, <2>5, <2>6 DEF Shown
<1> QED
  BY <1>2 DEF ShownBefore, FromKind, ToKind

\* What was seen at some time was.
LEMMA EverGrows ==
  ASSUME NEW x, NEW v, Change(x, v)
  PROVE  Ever \subseteq Ever' /\ Always' \subseteq Always /\ seen' = Ever
BY DEF Change, walkVars, Ever, Always

LEMMA HistoryInvInit == LocatorInit => HistoryInv
BY DEF LocatorInit, HistoryInv

LEMMA HistoryInvNext == LocatorInv /\ HistoryInv /\ [LocatorNext]_locatorVars => HistoryInv'
<1> SUFFICES ASSUME LocatorInv, HistoryInv, [LocatorNext]_locatorVars, pc' = "walk"
             PROVE  HistoryInv'
  BY DEF HistoryInv
<1>0. LocatorInv'
  BY LocatorInvNext
<1>1. ASSUME NEW c \in Changes, Change(c[1], c[2])
      PROVE  HistoryInv'
  <2>1. PICK x, v : x = c[1] /\ v = c[2]
    OBVIOUS
  <2>2. /\ x \in Object /\ pc = "walk" /\ UNCHANGED <<hops, Hand>>
        /\ cluster' = [cluster EXCEPT ![x] = v]
        /\ births' = [births EXCEPT ![x] = IF Exists(x) THEN @ ELSE @ + 1]
        /\ touched' = touched \cup {x} /\ Ever \subseteq Ever'
    BY <1>1, <2>1, LocatorAssumption, EverGrows DEF Change, walkVars, callVars, Hand
  <2>3. WalkInv /\ DOMAIN cluster = Object /\ DOMAIN births = Object
    BY <2>2 DEF LocatorInv, ClusterOK
  <2>4. IsFiniteSet(touched')
    BY <2>2, FS_AddElement DEF HistoryInv
  <2>5. ASSUME NEW o \in Hand
        PROVE  o.id \in Object
    BY <2>3 DEF WalkInv, InHand, IsSnapshot, Hand
  <2>6. ASSUME NEW o \in Hand, o.id \notin touched'
        PROVE  (o = Snapshot(o.id))'
    <3>1. o = Snapshot(o.id) /\ o.id # x
      BY <2>2, <2>6 DEF HistoryInv
    <3> QED
      BY <2>2, <2>3, <2>5, <3>1 DEF Snapshot
  <2>7. ASSUME NEW o \in Hand, touched' \subseteq {o.id}
        PROVE  ShownBefore(o)'
    <3>1. o.id = x /\ ShownBefore(o)
      BY <2>2, <2>7 DEF HistoryInv
    <3> QED
      BY <2>2, <2>3, <3>1, StillShown
  <2> QED
    BY <2>2, <2>4, <2>6, <2>7 DEF HistoryInv
<1>2. ASSUME UNCHANGED <<cluster, births, touched, steady, seen, hops>>, pc = "walk",
             \A o \in Hand' : o \in Hand \/ (IsSnapshot(o) /\ o = Snapshot(o.id))
      PROVE  HistoryInv'
  <2>1. WalkInv
    BY <1>2 DEF LocatorInv
  <2>2. Ever' = Ever
    BY <1>2, <2>1, SameLinks DEF Ever
  <2>3. \A o : ShownBefore(o)' <=> ShownBefore(o)
    BY <1>2, <2>1, <2>2, SameLinks DEF ShownBefore, FromKind, ToKind
  <2>4. \A o : (o = Snapshot(o.id))' <=> o = Snapshot(o.id)
    BY <1>2 DEF Snapshot
  <2>5. \A o \in Hand' : o.id \notin touched => o = Snapshot(o.id)
    BY <1>2 DEF HistoryInv
  <2>6. \A o \in Hand' : touched \subseteq {o.id} => ShownBefore(o)
    BY <1>2, <2>1, NowShownBefore DEF NowIsShown, HistoryInv
  <2> QED
    BY <1>2, <2>3, <2>4, <2>5, <2>6 DEF HistoryInv
<1>3. ASSUME NEW r \in Requests, Locate(r)
      PROVE  HistoryInv'
  <2>1. PICK objs : objs = GetSelected(r.src)
    OBVIOUS
  <2>2. Hand' = objs
    BY <1>3, <2>1 DEF Locate, Answer, Hand, LocatorInv, CallInv, callVars
  <2>3. touched' = {} /\ UNCHANGED <<cluster, births>>
    BY <1>3 DEF Locate
  <2>4. \A o \in objs : o = Snapshot(o.id)
    BY <2>1, ListOf, SnapshotOf DEF GetSelected
  <2>5. \A o \in objs : (o = Snapshot(o.id))'
    BY <2>3, <2>4 DEF Snapshot
  <2>6. \A o \in objs : ShownBefore(o)'
    <3>1. WalkInv'
      BY <1>0 DEF LocatorInv
    <3>2. \A o \in objs : IsSnapshot(o)
      BY <2>2, <3>1 DEF WalkInv, InHand, IsSnapshot, Hand
    <3>3. NowIsShown'
      BY NowShownBefore, PTL
    <3> QED
      BY <2>5, <3>1, <3>2, <3>3 DEF NowIsShown, IsSnapshot
  <2>7. IsFiniteSet({})
    BY FS_EmptySet
  <2> QED
    BY <2>2, <2>3, <2>5, <2>6, <2>7 DEF HistoryInv
<1>4. ASSUME NEW o \in ins, Follow(o)
      PROVE  HistoryInv'
  <2>1. /\ pc = "walk" /\ UNCHANGED <<cluster, births, touched, steady, seen, hops>>
        /\ asking \subseteq {o} /\ WalkInv /\ ClusterOK
    BY <1>4 DEF Follow, Followed, Answer, historyVars, LocatorInv
  <2>2. CASE Todo(o) = {} /\ Followed(o, {})
    <3>1. Hand' \subseteq Hand
      BY <2>2 DEF Followed, NoCall, AppendObjects, Hand
    <3> QED
      BY <1>2, <2>1, <3>1
  <2>3. CASE Todo(o) # {}
    <3>1. PICK q \in Todo(o) : \E objs :
            /\ objs = Ask(o, hops[at].edge, hops[at].forward, q).objs
            /\ \/ Followed(o, {}) \/ Followed(o, AppendObjects(gathered, objs))
               \/ gathered' = AppendObjects(gathered, objs) /\ UNCHANGED <<ins, out>>
      BY <1>4, <2>3 DEF Follow, Answer
    <3>2. PICK objs :
            /\ objs = Ask(o, hops[at].edge, hops[at].forward, q).objs
            /\ \/ Followed(o, {}) \/ Followed(o, AppendObjects(gathered, objs))
               \/ gathered' = AppendObjects(gathered, objs) /\ UNCHANGED <<ins, out>>
      BY <3>1
    <3>3. Hand' \subseteq Hand \cup objs
      BY <3>2 DEF Followed, NoCall, AppendObjects, Hand
    <3>4. q \in Asks(o, hops[at].edge, hops[at].forward)
      BY <2>1, TodoAsked
    <3>5. \A p \in objs : IsSnapshot(p) /\ p = Snapshot(p.id)
      BY <2>1, <3>2, <3>4, HopNow DEF InHand
    <3> QED
      BY <1>2, <2>1, <3>3, <3>5
  <2> QED
    BY <1>4, <2>2, <2>3 DEF Follow
<1>5. ASSUME NextHop
      PROVE  HistoryInv'
  <2>1. /\ pc = "walk" /\ UNCHANGED <<cluster, births, touched, steady, seen, hops>>
        /\ Hand' \subseteq Hand
    BY <1>5 DEF NextHop, Answer, historyVars, callVars, Hand
  <2> QED
    BY <1>2, <2>1
<1>6. CASE Return
  BY <1>6 DEF Return
<1>7. CASE UNCHANGED locatorVars
  BY <1>2, <1>7 DEF locatorVars, walkVars, callVars, Hand
<1> QED
  BY <1>1, <1>3, <1>4, <1>5, <1>6, <1>7 DEF LocatorNext

-----------------------------------------------------------------------------
(***************************************************************************)
(* Where the hops lead.  Via is a recursive function of the pairs that are *)
(* joined; the invariants speak of every family of sets of objects, one    *)
(* set for each hop made, that is within, or around, what the pairs lead   *)
(* to, so that one family serves before and after a step.                  *)
(***************************************************************************)

Leads(i, rel, X) == {q[2] : q \in {p \in rel : p[1][1] = i /\ p[1][2] \in X}}

Within(F, start, n, rel) == F[0] \subseteq start /\ \A i \in 1..n : F[i] \subseteq Leads(i, rel, F[i - 1])
Around(F, start, n, rel) == start \subseteq F[0] /\ \A i \in 1..n : Leads(i, rel, F[i - 1]) \subseteq F[i]

LEMMA WithinMore ==
  ASSUME NEW F, NEW start, NEW n, NEW few, NEW many, few \subseteq many
  PROVE  /\ Within(F, start, n, few) => Within(F, start, n, many)
         /\ Around(F, start, n, many) => Around(F, start, n, few)
<1>1. \A i, X : Leads(i, few, X) \subseteq Leads(i, many, X)
  BY DEF Leads
<1> QED
  BY <1>1 DEF Within, Around

LEMMA ViaFamily ==
  ASSUME at \in Nat, NEW rel
  PROVE  \E F : Via(rel) = F[at] /\ Within(F, src, at, rel) /\ Around(F, src, at, rel)
<1> DEFINE Sets == SUBSET (src \cup {q[2] : q \in rel})
           step == [i \in 1..at |-> [X \in Sets |-> Leads(i, rel, X)]]
           IsF(f) == f = [i \in 0..at |-> IF i = 0 THEN src
                                          ELSE {q[2] : q \in {p \in rel : p[1][1] = i /\ p[1][2] \in f[i - 1]}}]
<1>1. src \in Sets /\ step \in [1..at -> [Sets -> Sets]]
  <2>1. \A i, X : Leads(i, rel, X) \in Sets
    BY DEF Leads
  <2> HIDE DEF Sets
  <2>2. src \in Sets
    BY DEF Sets
  <2> QED
    BY <2>1, <2>2
<1>2. Via(rel) = (CHOOSE f : IsF(f))[at]
  BY DEF Via
<1> HIDE DEF Sets
<1>3. PICK g : Recursive(g, at, Sets, src, step)
  <2> HIDE DEF step
  <2> QED
    BY <1>1, IntervalRecursion
<1>4. IsF(g)
  <2>1. ASSUME NEW i \in 1..at PROVE g[i] = Leads(i, rel, g[i - 1])
    <3>1. g[i - 1] \in Sets
      BY <1>3 DEF Recursive
    <3> QED
      BY <1>3, <3>1 DEF Recursive
  <2> QED
    BY <1>3, <2>1 DEF Recursive, Leads
<1>5. PICK f : f = CHOOSE h : IsF(h)
  OBVIOUS
<1>6. IsF(f)
  <2> HIDE DEF IsF
  <2> QED
    BY <1>4, <1>5, Zenon
<1>7. f[0] = src /\ \A i \in 1..at : f[i] = Leads(i, rel, f[i - 1])
  <2>1. \A i \in 0..at : f[i] = IF i = 0 THEN src ELSE Leads(i, rel, f[i - 1])
    BY <1>6, Zenon DEF Leads
  <2>2. 0 \in 0..at /\ \A i \in 1..at : i \in 0..at /\ i # 0
    OBVIOUS
  <2> QED
    BY <2>1, <2>2, Zenon
<1>8. Within(f, src, at, rel) /\ Around(f, src, at, rel)
  BY <1>7 DEF Within, Around
<1> QED
  BY <1>2, <1>5, <1>8

\* What replaces an object in a result is that object, read later.
LEMMA AppendedIds ==
  ASSUME NEW arr, NEW items, NEW kind, InHand(arr, kind), InHand(items, kind)
  PROVE  Ids(AppendObjects(arr, items)) = Ids(arr) \cup Ids(items)
<1>1. Ids(AppendObjects(arr, items)) \subseteq Ids(arr) \cup Ids(items)
  BY DEF AppendObjects, Ids
<1>2. Ids(items) \subseteq Ids(AppendObjects(arr, items))
  BY DEF AppendObjects, Ids
<1>3. ASSUME NEW o \in arr
      PROVE  o.id \in Ids(AppendObjects(arr, items))
  <2>1. CASE \E p \in items : <<NamespaceOf[p.id], NameOf[p.id]>> = <<NamespaceOf[o.id], NameOf[o.id]>>
    <3>1. PICK p \in items : NamespaceOf[p.id] = NamespaceOf[o.id] /\ NameOf[p.id] = NameOf[o.id]
      BY <2>1
    <3>2. p.id \in Object /\ o.id \in Object /\ GVKOf[p.id] = GVKOf[o.id]
      BY <1>3, <3>1 DEF InHand, IsSnapshot
    <3>3. p.id = o.id
      BY <3>1, <3>2, FinderAssumption
    <3> QED
      BY <1>2, <3>1, <3>3 DEF Ids
  <2>2. CASE ~\E p \in items : <<NamespaceOf[p.id], NameOf[p.id]>> = <<NamespaceOf[o.id], NameOf[o.id]>>
    <3>1. o \in AppendObjects(arr, items)
      BY <1>3, <2>2 DEF AppendObjects
    <3> QED
      BY <3>1 DEF Ids
  <2> QED
    BY <2>1, <2>2
<1> QED
  BY <1>1, <1>2, <1>3 DEF Ids

-----------------------------------------------------------------------------
(***************************************************************************)
(* The requests of a call.  What a call finds at once, one of its requests *)
(* does; and which of them it is does not depend on the cluster.           *)
(***************************************************************************)

LEMMA TogetherFinds ==
  ASSUME NEW results, NEW gvk, \A r \in results : Proper(r, gvk), NEW y \in Ids(Together(results).objs)
  PROVE  (\A r \in results : r.err = "none") /\ \E r \in results : y \in Ids(r.objs)
<1>1. Together(results).objs # {}
  BY DEF Ids
<1>2. /\ \A r \in results : r.err = "none"
      /\ Together(results) = Found(UNION {r.objs : r \in results})
  BY <1>1, TogetherTaken DEF Proper
<1> QED
  BY <1>2 DEF Found, Ids

LEMMA TurnsFind ==
  ASSUME NEW results, DOMAIN results \subseteq Nat, NEW gvk, \A i \in DOMAIN results : Proper(results[i], gvk),
         NEW y \in Ids(InTurn(results).objs)
  PROVE  (\A i \in DOMAIN results : results[i].err = "none") /\ \E i \in DOMAIN results : y \in Ids(results[i].objs)
<1>1. InTurn(results).objs # {}
  BY DEF Ids
<1>2. /\ \A i \in DOMAIN results : results[i].err = "none"
      /\ InTurn(results) = Found(UNION {results[i].objs : i \in DOMAIN results})
  BY <1>1, TurnsTaken DEF Proper
<1> QED
  BY <1>2 DEF Found, Ids

LEMMA ReferencesFind ==
  ASSUME NEW e, IsEdge(e), e.type = "MatchRef", NEW o, IsSnapshot(o), GVKOf[o.id] = e.src,
         NEW y \in Ids(Referenced(o, e).objs)
  PROVE  /\ \A q \in Asks(o, e, TRUE) : FetchAt(o, e, q).err = "none"
         /\ \E q \in Asks(o, e, TRUE) : y \in Ids(FetchAt(o, e, q).objs)
<1> DEFINE Rows(j) == o.look.refs[e.references[j]]
           Fetches(rows) == [i \in DOMAIN rows |-> Fetch(o, ParseResourceRefs(rows)[i], e)]
           ByPath(rows) == IF ~RowsOK(rows) THEN Failed ELSE InTurn(Fetches(rows))
           results == [j \in DOMAIN e.references |-> ByPath(Rows(j))]
<1>1. IsList(e.references) /\ \A j \in DOMAIN e.references : IsList(Rows(j))
  <2>1. IsList(e.references) /\ Range(e.references) \subseteq DOMAIN o.look.refs
    BY EdgesAssumption DEF IsSnapshot, IsEdge, Range
  <2>2. \A j \in DOMAIN e.references : e.references[j] \in DOMAIN o.look.refs
    BY <2>1 DEF Range
  <2> QED
    BY <2>1, <2>2, LooksAssumption DEF IsSnapshot
<1>2. \A q : q \in Asks(o, e, TRUE) <=> \E j \in DOMAIN e.references : \E i \in DOMAIN Rows(j) : q = <<j, i>>
  <2>1. Asks(o, e, TRUE) = UNION {{j} \X DOMAIN o.look.refs[e.references[j]] : j \in DOMAIN e.references}
    BY DEF Asks
  <2>2. \A q, j : q \in {j} \X DOMAIN o.look.refs[e.references[j]] <=> \E i \in DOMAIN Rows(j) : q = <<j, i>>
    OBVIOUS
  <2>3. \A q : q \in Asks(o, e, TRUE) <=> \E j \in DOMAIN e.references : q \in {j} \X DOMAIN o.look.refs[e.references[j]]
    BY <2>1
  <2> HIDE DEF Rows
  <2> QED
    BY <2>2, <2>3, Zenon
<1>3. ASSUME NEW j \in DOMAIN e.references, NEW i \in DOMAIN Rows(j), RowsOK(Rows(j))
      PROVE  FetchAt(o, e, <<j, i>>) = Fetches(Rows(j))[i]
  BY <1>3 DEF FetchAt
<1>4. \A j \in DOMAIN e.references : /\ DOMAIN Fetches(Rows(j)) = DOMAIN Rows(j) /\ DOMAIN Rows(j) \subseteq Nat
                                     /\ \A i \in DOMAIN Rows(j) : Proper(Fetches(Rows(j))[i], e.dst)
  BY <1>1, RequestsNow DEF IsList
<1> HIDE DEF Fetches
<1>5. \A j \in DOMAIN e.references : Proper(ByPath(Rows(j)), e.dst)
  BY <1>4, TurnsNow, FoundNow
<1> HIDE DEF ByPath
<1>6. /\ DOMAIN results = DOMAIN e.references /\ DOMAIN results \subseteq Nat
      /\ \A j \in DOMAIN results : results[j] = ByPath(Rows(j)) /\ Proper(results[j], e.dst)
  BY <1>1, <1>5 DEF IsList
<1>7. Referenced(o, e) = InTurn(results)
  BY DEF Referenced, ByPath, Fetches
<1> HIDE DEF results
<1>8. /\ \A j \in DOMAIN e.references : ByPath(Rows(j)).err = "none"
      /\ \E j \in DOMAIN e.references : y \in Ids(ByPath(Rows(j)).objs)
  <2>1. y \in Ids(InTurn(results).objs)
    BY <1>7
  <2>2. (\A j \in DOMAIN results : results[j].err = "none") /\ \E j \in DOMAIN results : y \in Ids(results[j].objs)
    BY <1>6, <2>1, TurnsFind
  <2> HIDE DEF Rows
  <2> QED
    BY <1>6, <2>2
<1>9. \A j \in DOMAIN e.references : RowsOK(Rows(j)) /\ ByPath(Rows(j)) = InTurn(Fetches(Rows(j)))
  BY <1>8, Results DEF ByPath
<1>10. ASSUME NEW j \in DOMAIN e.references, NEW i \in DOMAIN Rows(j)
       PROVE  FetchAt(o, e, <<j, i>>).err = "none"
  <2>1. InTurn(Fetches(Rows(j))).err = "none"
    BY <1>8, <1>9
  <2>2. Fetches(Rows(j))[i].err = "none"
    BY <1>4, <2>1, TurnsTaken
  <2> QED
    BY <1>3, <1>9, <2>2
<1>11. PICK j \in DOMAIN e.references : y \in Ids(InTurn(Fetches(Rows(j))).objs)
  BY <1>8, <1>9
<1>12. PICK i \in DOMAIN Rows(j) : y \in Ids(Fetches(Rows(j))[i].objs)
  <2>1. PICK fetches : fetches = Fetches(Rows(j))
    OBVIOUS
  <2>2. /\ DOMAIN fetches = DOMAIN Rows(j) /\ DOMAIN fetches \subseteq Nat
        /\ \A i \in DOMAIN fetches : Proper(fetches[i], e.dst)
    BY <1>4, <2>1
  <2>3. \E i \in DOMAIN fetches : y \in Ids(fetches[i].objs)
    BY <1>11, <2>1, <2>2, TurnsFind
  <2> QED
    BY <2>1, <2>2, <2>3
<1>13. y \in Ids(FetchAt(o, e, <<j, i>>).objs)
  BY <1>3, <1>9, <1>12
<1>14. <<j, i>> \in Asks(o, e, TRUE)
  BY <1>2
<1>15. ASSUME NEW q \in Asks(o, e, TRUE)
       PROVE  FetchAt(o, e, q).err = "none"
  <2>1. PICK k \in DOMAIN e.references : \E n \in DOMAIN Rows(k) : q = <<k, n>>
    BY <1>2
  <2>3. PICK n \in DOMAIN Rows(k) : q = <<k, n>>
    BY <2>1
  <2>2. FetchAt(o, e, <<k, n>>).err = "none"
    BY <1>10
  <2> QED
    BY <2>3, <2>2
<1> QED
  BY <1>13, <1>14, <1>15

\* What a call finds.
LEMMA CallFinds ==
  ASSUME NEW e, IsEdge(e), NEW f \in BOOLEAN, NEW o, IsSnapshot(o), NEW y \in Ids(ResourcesFor(o, e, f).objs)
  PROVE  /\ \A q \in Asks(o, e, f) : Ask(o, e, f, q).err = "none"
         /\ \E q \in Asks(o, e, f) : y \in Ids(Ask(o, e, f, q).objs)
<1>1. e.type \in {"MatchSelector", "MatchName", "OwnedBy", "MatchRef"}
  BY EdgesAssumption DEF IsEdge, Range
<1>2. GVKOf[o.id] = IF f THEN e.src ELSE e.dst
  BY DEF ResourcesFor, Failed, Ids
<1>3. CASE ~f
  <2>1. Asks(o, e, f) = {"list"} /\ \A q : Ask(o, e, f, q) = Backward(o, e)
    BY <1>2, <1>3 DEF Asks, Ask
  <2>2. y \in Ids(Backward(o, e).objs)
    BY <1>2, <1>3 DEF ResourcesFor
  <2>3. Backward(o, e).err = "none"
    BY <2>2, BackwardNow DEF Proper, Ids
  <2> QED
    BY <2>1, <2>2, <2>3
<1>4. CASE f
  <2>1. y \in Ids(Forward(o, e).objs)
    BY <1>2, <1>4 DEF ResourcesFor
  <2>2. CASE e.type = "MatchSelector"
    <3>1. \A q : Ask(o, e, f, q) = SelectedIn(o, e, q)
      BY <1>2, <1>4, <2>2 DEF Ask
    <3>2. Asks(o, e, f) = OrAll(Namespaces(o, e.nsPath)) /\ y \in Ids(Selected(o, e).objs)
      BY <1>4, <2>1, <2>2 DEF Asks, Forward
    <3>3. PICK results : results = {SelectedIn(o, e, q) : q \in Asks(o, e, f)}
      OBVIOUS
    <3>4. y \in Ids(Together(results).objs) /\ \A r \in results : Proper(r, e.dst)
      BY <3>2, <3>3, RequestsNow DEF Selected
    <3>5. (\A r \in results : r.err = "none") /\ \E r \in results : y \in Ids(r.objs)
      BY <3>4, TogetherFinds
    <3> QED
      BY <3>1, <3>3, <3>5
  <2>3. CASE e.type = "MatchName"
    <3>1. \A q : Ask(o, e, f, q) = NamedIn(o, e, q)
      BY <1>2, <1>4, <2>3 DEF Ask
    <3>2. Asks(o, e, f) = OrAll(Namespaces(o, e.nsPath)) /\ y \in Ids(Named(o, e).objs)
      BY <1>4, <2>1, <2>3 DEF Asks, Forward
    <3>3. PICK results : results = {NamedIn(o, e, q) : q \in Asks(o, e, f)}
      OBVIOUS
    <3>4. y \in Ids(Together(results).objs) /\ \A r \in results : Proper(r, e.dst)
      BY <3>2, <3>3, RequestsNow DEF Named
    <3>5. (\A r \in results : r.err = "none") /\ \E r \in results : y \in Ids(r.objs)
      BY <3>4, TogetherFinds
    <3> QED
      BY <3>1, <3>3, <3>5
  <2>4. CASE e.type = "OwnedBy"
    <3>1. \A q : Ask(o, e, f, q) = OwnerBy(o, e, q)
      BY <1>2, <1>4, <2>4 DEF Ask
    <3>2. Asks(o, e, f) = OwnerRefs(o, e) /\ y \in Ids(Owners(o, e).objs)
      BY <1>4, <2>1, <2>4 DEF Asks, Forward
    <3>3. PICK results : results = {OwnerBy(o, e, q) : q \in Asks(o, e, f)}
      OBVIOUS
    <3>4. y \in Ids(Together(results).objs) /\ \A r \in results : Proper(r, e.dst)
      BY <3>2, <3>3, RequestsNow DEF Owners
    <3>5. (\A r \in results : r.err = "none") /\ \E r \in results : y \in Ids(r.objs)
      BY <3>4, TogetherFinds
    <3> QED
      BY <3>1, <3>3, <3>5
  <2>5. CASE e.type = "MatchRef"
    <3>1. \A q : Ask(o, e, f, q) = FetchAt(o, e, q)
      BY <1>2, <1>4, <2>5 DEF Ask
    <3>2. y \in Ids(Referenced(o, e).objs)
      BY <2>1, <2>5 DEF Forward
    <3> QED
      BY <1>2, <1>4, <2>5, <3>1, <3>2, ReferencesFind
  <2> QED
    BY <1>1, <2>2, <2>3, <2>4, <2>5
<1> QED
  BY <1>3, <1>4

RefAt(o, e, q) == ParseResourceRefs(o.look.refs[e.references[q[1]]])[q[2]]

\* The request q of o asks for y, whether or not that is there and fits.
Hits(o, e, f, q, y) ==
  f => CASE e.type = "MatchSelector" -> Scoped(e.dst, q) \in {NamespaceAll, NamespaceOf[y]}
         [] e.type = "MatchName"     -> Scoped(e.dst, q) = NamespaceOf[y]
         [] e.type = "OwnedBy"       -> q.name = NameOf[y]
         [] e.type = "MatchRef"      -> IsSaid(o.id, y, RefAt(o, e, q), e)

\* What is selected from snapshots by what o says.
LEMMA Listed ==
  \A gvk, ns, y : Snapshot(y) \in List(gvk, ns) <=>
    y \in Object /\ GVKOf[y] = gvk /\ Exists(y) /\ Scoped(gvk, ns) \in {NamespaceAll, NamespaceOf[y]}
BY SnapshotOf, ListOf

LEMMA Gotten ==
  \A gvk, ns, name, y : Snapshot(y) \in Get(gvk, ns, name) <=>
    y \in Object /\ GVKOf[y] = gvk /\ Exists(y) /\ NameOf[y] = name /\ NamespaceOf[y] = Scoped(gvk, ns)
BY SnapshotOf, GetOf

LEMMA AllRead ==
  \A gvk, ns, name : /\ \A p \in List(gvk, ns) : p = Snapshot(p.id)
                     /\ \A p \in Get(gvk, ns, name) : p = Snapshot(p.id)
BY SnapshotOf, ListOf, GetOf

\* A request finds only what it asks for; and it finds, of that, what another
\* request of the call would find as well.
LEMMA HitsOf ==
  ASSUME NEW e, IsEdge(e), NEW f \in BOOLEAN, NEW o, NEW q, NEW p, NEW y,
         Ask(o, e, f, q).err = "none", y \in Ids(Ask(o, e, f, p).objs)
  PROVE  /\ Hits(o, e, f, p, y)
         /\ Hits(o, e, f, q, y) => y \in Ids(Ask(o, e, f, q).objs)
<1>1. e.type \in {"MatchSelector", "MatchName", "OwnedBy", "MatchRef"}
  BY EdgesAssumption DEF IsEdge, Range
<1>2. GVKOf[o.id] = IF f THEN e.src ELSE e.dst
  BY Results DEF Ask
<1>3. Failed.objs = {} /\ NotFound.objs = {} /\ Ids({}) = {}
  BY DEF Failed, NotFound, Ids
<1>4. CASE ~f
  <2>1. \A r : Ask(o, e, f, r) = Backward(o, e)
    BY <1>2, <1>4 DEF Ask
  <2> QED
    BY <1>4, <2>1 DEF Hits
<1>5. CASE f /\ e.type = "MatchSelector"
  <2>1. \A r : Ask(o, e, f, r) = SelectedIn(o, e, r)
    BY <1>2, <1>5 DEF Ask
  <2> DEFINE fits(z) == Matches(Selector(o, e), LabelsAt(z, e)) /\ IsConnected(e.level, z, o)
  <2>2. Selector(o, e) \notin {Malformed, Missing}
    BY <1>3, <2>1, Results DEF SelectedIn
  <2>3. ASSUME NEW r
        PROVE  y \in Ids(SelectedIn(o, e, r).objs) <=> Snapshot(y) \in List(e.dst, r) /\ fits(Snapshot(y))
    <3> DEFINE objs == {z \in List(e.dst, r) : fits(z)}
    <3>1. SelectedIn(o, e, r).objs = objs
      BY <2>2, Results DEF SelectedIn
    <3>2. y \in Ids(objs) <=> Snapshot(y) \in objs
      BY AllRead, IdsOf
    <3> QED
      BY <3>1, <3>2
  <2> HIDE DEF fits
  <2>4. \A r : Hits(o, e, f, r, y) <=> Scoped(e.dst, r) \in {NamespaceAll, NamespaceOf[y]}
    BY <1>5 DEF Hits
  <2>5. Snapshot(y) \in List(e.dst, p) /\ fits(Snapshot(y))
    BY <2>1, <2>3
  <2>6. Hits(o, e, f, p, y) /\ (Hits(o, e, f, q, y) => Snapshot(y) \in List(e.dst, q))
    BY <2>4, <2>5, Listed
  <2> QED
    BY <2>1, <2>3, <2>5, <2>6
<1>6. CASE f /\ e.type = "MatchName"
  <2>1. \A r : Ask(o, e, f, r) = NamedIn(o, e, r)
    BY <1>2, <1>6 DEF Ask
  <2> DEFINE fits(z) == IsConnected(e.level, z, o)
             name == e.rename[NameOf[o.id]]
  <2>3. ASSUME NEW r
        PROVE  y \in Ids(NamedIn(o, e, r).objs) <=> Snapshot(y) \in Get(e.dst, r, name) /\ fits(Snapshot(y))
    <3> DEFINE objs == {z \in Get(e.dst, r, name) : fits(z)}
    <3>1. Get(e.dst, r, name) # {} => NamedIn(o, e, r).objs = objs
      BY Results DEF NamedIn
    <3>2. Get(e.dst, r, name) = {} => NamedIn(o, e, r).objs = {}
      BY <1>3 DEF NamedIn
    <3>3. y \in Ids(objs) <=> Snapshot(y) \in objs
      BY AllRead, IdsOf
    <3> QED
      BY <1>3, <3>1, <3>2, <3>3
  <2> HIDE DEF fits, name
  <2>4. \A r : Hits(o, e, f, r, y) <=> Scoped(e.dst, r) = NamespaceOf[y]
    BY <1>6 DEF Hits
  <2>5. Snapshot(y) \in Get(e.dst, p, name) /\ fits(Snapshot(y))
    BY <2>1, <2>3
  <2>6. Hits(o, e, f, p, y) /\ (Hits(o, e, f, q, y) => Snapshot(y) \in Get(e.dst, q, name))
    BY <2>4, <2>5, Gotten
  <2> QED
    BY <2>1, <2>3, <2>5, <2>6
<1>7. CASE f /\ e.type = "OwnedBy"
  <2>1. \A r : Ask(o, e, f, r) = OwnerBy(o, e, r)
    BY <1>2, <1>7 DEF Ask
  <2>2. ASSUME NEW r
        PROVE  y \in Ids(OwnerBy(o, e, r).objs) <=> Snapshot(y) \in Get(e.dst, NamespaceOf[o.id], r.name)
    <3> DEFINE objs == Get(e.dst, NamespaceOf[o.id], r.name)
    <3>1. OwnerBy(o, e, r).objs = objs
      BY <1>3, Results DEF OwnerBy
    <3>2. y \in Ids(objs) <=> Snapshot(y) \in objs
      BY AllRead, IdsOf
    <3> QED
      BY <3>1, <3>2
  <2>4. \A r : Hits(o, e, f, r, y) <=> r.name = NameOf[y]
    BY <1>7 DEF Hits
  <2>5. Snapshot(y) \in Get(e.dst, NamespaceOf[o.id], p.name)
    BY <2>1, <2>2
  <2>6. Hits(o, e, f, p, y) /\ (Hits(o, e, f, q, y) => Snapshot(y) \in Get(e.dst, NamespaceOf[o.id], q.name))
    BY <2>4, <2>5, Gotten
  <2> QED
    BY <2>1, <2>2, <2>6
<1>8. CASE f /\ e.type = "MatchRef"
  <2> DEFINE fits(z) == IsConnected(e.level, z, o)
             ns(r) == IF r.namespace = "" THEN NamespaceOf[o.id] ELSE r.namespace
  <2>1. \A r : Ask(o, e, f, r) = FetchAt(o, e, r)
    BY <1>2, <1>8 DEF Ask
  <2>2. \A r : /\ FetchAt(o, e, r).err = "none" \/ y \in Ids(FetchAt(o, e, r).objs) =>
                    FetchAt(o, e, r) = Fetch(o, RefAt(o, e, r), e)
    BY <1>3, Results DEF FetchAt, RefAt
  <2>3. ASSUME NEW r, Fetch(o, r, e).err = "none" \/ y \in Ids(Fetch(o, r, e).objs)
        PROVE  y \in Ids(Fetch(o, r, e).objs) <=>
                 Concerns(r, e.dst) /\ Snapshot(y) \in Get(e.dst, ns(r), r.name) /\ fits(Snapshot(y))
    <3> DEFINE objs == {z \in Get(e.dst, ns(r), r.name) : fits(z)}
    <3>1. CASE ~Concerns(r, e.dst)
      BY <1>3, <3>1, Results DEF Fetch
    <3>2. CASE Concerns(r, e.dst)
      <4>1. ~(e.dst \in Namespaced /\ ns(r) = "")
        BY <1>3, <2>3, <3>2, Results DEF Fetch
      <4>2. Fetch(o, r, e) = IF Get(e.dst, ns(r), r.name) = {} THEN NotFound ELSE Found(objs)
        BY <3>2, <4>1 DEF Fetch
      <4>3. y \in Ids(objs) <=> Snapshot(y) \in objs
        BY AllRead, IdsOf
      <4> HIDE DEF ns, fits
      <4> QED
        BY <1>3, <3>2, <4>2, <4>3, Results
    <3> QED
      BY <3>1, <3>2
  <2>4. \A r : IsSaid(o.id, y, r, e) <=>
                 Concerns(r, e.dst) /\ Scoped(e.dst, ns(r)) = NamespaceOf[y] /\ r.name = NameOf[y]
    BY DEF IsSaid, Says
  <2> HIDE DEF fits, ns
  <2>5. \A r : Hits(o, e, f, r, y) <=> IsSaid(o.id, y, RefAt(o, e, r), e)
    BY <1>8 DEF Hits
  <2>6. PICK a, b : a = RefAt(o, e, p) /\ b = RefAt(o, e, q)
    OBVIOUS
  <2>7. Ask(o, e, f, p) = Fetch(o, a, e) /\ Ask(o, e, f, q) = Fetch(o, b, e)
    BY <2>1, <2>2, <2>6
  <2>8. Concerns(a, e.dst) /\ Snapshot(y) \in Get(e.dst, ns(a), a.name) /\ fits(Snapshot(y))
    BY <2>3, <2>7
  <2>9. y \in Object /\ GVKOf[y] = e.dst /\ Exists(y) /\ NameOf[y] = a.name /\ NamespaceOf[y] = Scoped(e.dst, ns(a))
    BY <2>8, Gotten
  <2>10. IsSaid(o.id, y, b, e) => Snapshot(y) \in Get(e.dst, ns(b), b.name)
    BY <2>4, <2>9, Gotten
  <2>11. IsSaid(o.id, y, b, e) => y \in Ids(Fetch(o, b, e).objs)
    BY <2>3, <2>4, <2>7, <2>8, <2>10
  <2> QED
    BY <2>4, <2>5, <2>6, <2>7, <2>8, <2>9, <2>11
<1> QED
  BY <1>1, <1>4, <1>5, <1>6, <1>7, <1>8

-----------------------------------------------------------------------------
(* Nothing is missed. *)

\* The pairs that were joined all the time, from objects that did not change.
Standing == {p \in Always : p[1][2] \notin touched}

\* To what there was a way all the time, up to this hop, is still in hand, or all
\* that it leads to has been found.
NoneMissed ==
  pc = "walk" => \A F : Within(F, src, at - 1, Standing) =>
    \A x \in F[at - 1] : x \in Ids(ins) \/ Leads(at, Standing, {x}) \subseteq Ids(out)

\* Of what the call leads to all the time, each is found, or will still be asked for.
NoneForgotten ==
  pc = "walk" => \A o \in asking : \A y \in Leads(at, Standing, {o.id}) :
    y \in Ids(gathered) \/ \E q \in left : Hits(o, hops[at].edge, hops[at].forward, q, y)

\* What is followed as it is: its call leads, at once, to all that it always led to.
LEMMA FollowedStanding ==
  ASSUME LocatorInv, HistoryInv, pc = "walk", NEW o \in ins, NEW y \in Leads(at, Standing, {o.id})
  PROVE  LET e == hops[at].edge
             f == hops[at].forward
         IN  /\ \A q \in Asks(o, e, f) : Ask(o, e, f, q).err = "none"
             /\ \E q \in Asks(o, e, f) : y \in Ids(Ask(o, e, f, q).objs)
<1>1. PICK q \in Standing : q[1][1] = at /\ q[1][2] = o.id /\ q[2] = y
  BY DEF Leads
<1>2. q \in Joined(hops) /\ o.id \notin touched
  BY <1>1 DEF Standing, Always
<1>3. q = <<<<at, o.id>>, y>>
  <2>1. \E p \in Starts(hops) : q \in {<<p[1], p[2].id>>} \X Ids(ResourcesFor(p[2], hops[p[1]].edge, hops[p[1]].forward).objs)
    BY <1>2 DEF Joined
  <2> QED
    BY <1>1, <2>1
<1>4. o = Snapshot(o.id)
  BY <1>2 DEF HistoryInv, Hand
<1>5. PICK e, f, x : e = hops[at].edge /\ f = hops[at].forward /\ x = o.id
  OBVIOUS
<1>6. y \in Ids(ResourcesFor(Snapshot(x), e, f).objs)
  BY <1>2, <1>3, <1>5, JoinedOf
<1>7. IsEdge(e) /\ f \in BOOLEAN /\ IsSnapshot(o)
  BY <1>5, HopsOf DEF LocatorInv, WalkInv, InHand
<1> QED
  BY <1>4, <1>5, <1>6, <1>7, CallFinds

\* What a call leads to all the time is among what it has found, with the request
\* that is made, or will be asked for.
LEMMA FollowedFinds ==
  ASSUME LocatorInv, HistoryInv, NoneForgotten, pc = "walk", NEW o \in ins, asking \subseteq {o},
         NEW y \in Leads(at, Standing, {o.id})
  PROVE  LET e == hops[at].edge
             f == hops[at].forward
         IN  /\ Todo(o) # {}
             /\ \A q \in Todo(o) :
                  /\ Ask(o, e, f, q).err = "none"
                  /\ \/ y \in Ids(AppendObjects(gathered, Ask(o, e, f, q).objs))
                     \/ \E p \in Todo(o) \ {q} : Hits(o, e, f, p, y)
<1>1. PICK e, f : e = hops[at].edge /\ f = hops[at].forward
  OBVIOUS
<1>2. IsEdge(e) /\ f \in BOOLEAN /\ WalkInv /\ ClusterOK
  BY <1>1, HopsOf DEF LocatorInv, WalkInv
<1>3. (\A q \in Asks(o, e, f) : Ask(o, e, f, q).err = "none") /\ \E q \in Asks(o, e, f) : y \in Ids(Ask(o, e, f, q).objs)
  BY <1>1, FollowedStanding
<1>4. PICK any \in Asks(o, e, f) : y \in Ids(Ask(o, e, f, any).objs)
  BY <1>3
<1>5. Todo(o) \subseteq Asks(o, e, f)
  BY <1>1, TodoAsked
<1>6. Todo(o) # {} /\ (y \in Ids(gathered) \/ \E q \in Todo(o) : Hits(o, e, f, q, y))
  <2>1. CASE asking = {}
    <3>1. Todo(o) = Asks(o, e, f)
      BY <1>1, <2>1 DEF Todo
    <3>2. Ask(o, e, f, any).err = "none"
      BY <1>3
    <3>3. Hits(o, e, f, any, y)
      BY <1>2, <1>4, <3>2, HitsOf
    <3> QED
      BY <3>1, <3>3
  <2>2. CASE asking # {}
    <3>1. o \in asking /\ Todo(o) = left /\ left # {}
      BY <2>2 DEF Todo, LocatorInv, CallInv
    <3> QED
      BY <1>1, <3>1 DEF NoneForgotten
  <2> QED
    BY <2>1, <2>2
<1>7. ASSUME NEW q \in Todo(o)
      PROVE  /\ Ask(o, e, f, q).err = "none"
             /\ \/ y \in Ids(AppendObjects(gathered, Ask(o, e, f, q).objs))
                \/ \E p \in Todo(o) \ {q} : Hits(o, e, f, p, y)
  <2>1. Ask(o, e, f, q).err = "none"
    BY <1>3, <1>5
  <2>2. Hits(o, e, f, q, y) => y \in Ids(Ask(o, e, f, q).objs)
    BY <1>2, <1>4, <2>1, HitsOf
  <2>3. InHand(gathered, ToKind(hops[at])) /\ InHand(Ask(o, e, f, q).objs, ToKind(hops[at]))
    BY <1>1, <1>2, <1>5, HopNow DEF WalkInv
  <2>4. Ids(AppendObjects(gathered, Ask(o, e, f, q).objs)) = Ids(gathered) \cup Ids(Ask(o, e, f, q).objs)
    BY <2>3, AppendedIds
  <2> QED
    BY <1>6, <2>1, <2>2, <2>4
<1> QED
  BY <1>1, <1>6, <1>7

\* What a step of the walk leaves standing, and what a change does.
LEMMA StandingShrinks ==
  ASSUME LocatorInv, pc = "walk"
  PROVE  /\ \A x, v : Change(x, v) => Standing' \subseteq Standing
         /\ UNCHANGED <<cluster, births, hops, steady, touched>> => Standing' = Standing
<1>1. ASSUME NEW x, NEW v, Change(x, v)
      PROVE  Standing' \subseteq Standing
  <2>1. Always' \subseteq Always /\ touched \subseteq touched'
    BY <1>1, EverGrows DEF Change
  <2> QED
    BY <2>1 DEF Standing
<1>2. ASSUME UNCHANGED <<cluster, births, hops, steady, touched>>
      PROVE  Standing' = Standing
  <2>1. Joined(hops)' = Joined(hops)
    BY <1>2, SameLinks DEF LocatorInv
  <2> QED
    BY <1>2, <2>1 DEF Standing, Always
<1> QED
  BY <1>1, <1>2

LEMMA NoneForgottenNext ==
  LocatorInv /\ HistoryInv /\ NoneForgotten /\ [LocatorNext]_locatorVars => NoneForgotten'
<1> SUFFICES ASSUME LocatorInv, HistoryInv, NoneForgotten, [LocatorNext]_locatorVars, pc' = "walk",
                    NEW o \in asking', NEW y \in Leads(at', Standing', {o.id})
             PROVE  y \in Ids(gathered') \/ \E q \in left' : Hits(o, hops'[at'].edge, hops'[at'].forward, q, y)
  BY DEF NoneForgotten, Leads, Ids, Hits, IsSaid, Says, RefAt, Concerns, Scoped, ParseResourceRefs
<1>1. ASSUME pc = "walk", UNCHANGED <<asking, left, gathered, at, hops>>, Standing' \subseteq Standing
      PROVE  y \in Ids(gathered') \/ \E q \in left' : Hits(o, hops'[at'].edge, hops'[at'].forward, q, y)
  <2>1. o \in asking /\ y \in Leads(at, Standing, {o.id})
    BY <1>1 DEF Leads
  <2> QED
    BY <1>1, <2>1 DEF NoneForgotten
<1>2. ASSUME NEW c \in Changes, Change(c[1], c[2])
      PROVE  y \in Ids(gathered') \/ \E q \in left' : Hits(o, hops'[at'].edge, hops'[at'].forward, q, y)
  <2>1. pc = "walk" /\ UNCHANGED <<asking, left, gathered, at, hops>>
    BY <1>2 DEF Change, walkVars, callVars
  <2> QED
    BY <1>1, <1>2, <2>1, StandingShrinks
<1>3. ASSUME NEW r \in Requests, Locate(r)
      PROVE  FALSE
  BY <1>3 DEF Locate, Answer, NoCall, callVars, LocatorInv, CallInv
<1>4. ASSUME NEW x \in ins, Follow(x)
      PROVE  y \in Ids(gathered') \/ \E q \in left' : Hits(o, hops'[at'].edge, hops'[at'].forward, q, y)
  <2>1. PICK q \in Todo(x) :
          /\ asking' = {x} /\ left' = Todo(x) \ {q} /\ UNCHANGED <<at, hops>>
          /\ gathered' = AppendObjects(gathered, Ask(x, hops[at].edge, hops[at].forward, q).objs)
    BY <1>4 DEF Follow, Followed, Answer, NoCall
  <2>2. pc = "walk" /\ asking \subseteq {x} /\ UNCHANGED <<cluster, births, steady, touched>>
    BY <1>4 DEF Follow, historyVars
  <2>3. Standing' = Standing
    BY <2>1, <2>2, StandingShrinks
  <2>4. o = x /\ y \in Leads(at, Standing, {x.id})
    BY <2>1, <2>3 DEF Leads
  <2>5. \/ y \in Ids(AppendObjects(gathered, Ask(x, hops[at].edge, hops[at].forward, q).objs))
        \/ \E p \in Todo(x) \ {q} : Hits(x, hops[at].edge, hops[at].forward, p, y)
    BY <2>2, <2>4, FollowedFinds
  <2> QED
    BY <2>1, <2>4, <2>5
<1>5. ASSUME NextHop
      PROVE  FALSE
  BY <1>5 DEF NextHop, Answer, NoCall, callVars, LocatorInv, CallInv
<1>6. CASE Return
  BY <1>6 DEF Return
<1>7. CASE UNCHANGED locatorVars
  <2>1. /\ pc = "walk" /\ UNCHANGED <<asking, left, gathered, at, hops>>
        /\ UNCHANGED <<cluster, births, hops, steady, touched>>
    BY <1>7 DEF locatorVars, walkVars, callVars
  <2> QED
    BY <1>1, <2>1, StandingShrinks
<1> QED
  BY <1>2, <1>3, <1>4, <1>5, <1>6, <1>7 DEF LocatorNext

LEMMA NoneMissedNext ==
  LocatorInv /\ HistoryInv /\ NoneForgotten /\ NoneMissed /\ [LocatorNext]_locatorVars => NoneMissed'
<1> SUFFICES ASSUME LocatorInv, HistoryInv, NoneForgotten, NoneMissed, [LocatorNext]_locatorVars, pc' = "walk",
                    NEW F, Within(F, src', at' - 1, Standing'), NEW x \in F[at' - 1]
             PROVE  x \in Ids(ins') \/ Leads(at', Standing', {x}) \subseteq Ids(out')
  BY DEF NoneMissed, Within, Leads, Ids
<1>1. ASSUME NEW c \in Changes, Change(c[1], c[2])
      PROVE  x \in Ids(ins') \/ Leads(at', Standing', {x}) \subseteq Ids(out')
  <2>1. pc = "walk" /\ UNCHANGED <<src, at, ins, out>>
    BY <1>1 DEF Change, walkVars
  <2>2. Standing' \subseteq Standing
    BY <1>1, <2>1, StandingShrinks
  <2>3. Within(F, src, at - 1, Standing) /\ x \in F[at - 1]
    BY <2>1, <2>2, WithinMore
  <2>4. Leads(at, Standing', {x}) \subseteq Leads(at, Standing, {x})
    BY <2>2 DEF Leads
  <2> QED
    BY <2>1, <2>3, <2>4 DEF NoneMissed
<1>2. ASSUME NEW r \in Requests, Locate(r)
      PROVE  x \in Ids(ins')
  <2>1. src' = Ids(ins') /\ at' = 1
    BY <1>2 DEF Locate, Answer
  <2> QED
    BY <2>1 DEF Within
<1>3. ASSUME NEW o \in ins, Follow(o)
      PROVE  x \in Ids(ins') \/ Leads(at', Standing', {x}) \subseteq Ids(out')
  <2>1. /\ pc = "walk" /\ asking \subseteq {o} /\ UNCHANGED <<cluster, births, hops, steady, touched, src, at>>
    BY <1>3 DEF Follow, Followed, Answer, historyVars
  <2>2. Standing' = Standing
    BY <2>1, StandingShrinks
  <2>3. x \in Ids(ins) \/ Leads(at, Standing, {x}) \subseteq Ids(out)
    BY <2>1, <2>2 DEF NoneMissed
  <2>4. CASE UNCHANGED <<ins, out>>
    BY <2>1, <2>2, <2>3, <2>4
  <2>5. ASSUME NEW objs, InHand(objs, ToKind(hops[at])), Leads(at, Standing, {o.id}) \subseteq Ids(objs), Followed(o, objs)
        PROVE  x \in Ids(ins') \/ Leads(at', Standing', {x}) \subseteq Ids(out')
    <3>1. Ids(out') = Ids(out) \cup Ids(objs)
      BY <2>1, <2>5, AppendedIds DEF Followed, LocatorInv, WalkInv
    <3>2. x \in Ids(ins) => x \in Ids(ins') \/ x = o.id
      BY <2>5 DEF Followed, Ids
    <3> QED
      BY <2>1, <2>2, <2>3, <2>5, <3>1, <3>2
  <2>6. InHand({}, ToKind(hops[at]))
    BY DEF InHand
  <2>7. CASE Todo(o) = {} /\ Followed(o, {})
    <3>1. Leads(at, Standing, {o.id}) \subseteq Ids({})
      BY <2>1, <2>7, FollowedFinds
    <3> QED
      BY <2>5, <2>6, <2>7, <3>1
  <2>8. ASSUME NEW q \in Todo(o), NEW result, result = Ask(o, hops[at].edge, hops[at].forward, q)
        PROVE  /\ result.err = "notFound" /\ Followed(o, {}) =>
                    x \in Ids(ins') \/ Leads(at', Standing', {x}) \subseteq Ids(out')
               /\ Todo(o) \ {q} = {} /\ Followed(o, AppendObjects(gathered, result.objs)) =>
                    x \in Ids(ins') \/ Leads(at', Standing', {x}) \subseteq Ids(out')
    <3>1. ASSUME result.err = "notFound", Followed(o, {})
          PROVE  x \in Ids(ins') \/ Leads(at', Standing', {x}) \subseteq Ids(out')
      <4>1. Leads(at, Standing, {o.id}) \subseteq Ids({})
        BY <2>1, <2>8, <3>1, FollowedFinds
      <4> QED
        BY <2>5, <2>6, <3>1, <4>1
    <3>2. ASSUME Todo(o) \ {q} = {}, Followed(o, AppendObjects(gathered, result.objs))
          PROVE  x \in Ids(ins') \/ Leads(at', Standing', {x}) \subseteq Ids(out')
      <4>1. PICK found : found = AppendObjects(gathered, result.objs)
        OBVIOUS
      <4>2. Leads(at, Standing, {o.id}) \subseteq Ids(found)
        BY <2>1, <2>8, <3>2, <4>1, FollowedFinds
      <4>3. q \in Asks(o, hops[at].edge, hops[at].forward)
        BY <2>1, TodoAsked
      <4>4. InHand(found, ToKind(hops[at]))
        BY <2>1, <2>8, <4>1, <4>3, HopNow DEF LocatorInv, WalkInv, InHand, AppendObjects
      <4> QED
        BY <2>5, <3>2, <4>1, <4>2, <4>4
    <3> QED
      BY <3>1, <3>2
  <2> QED
    BY <1>3, <2>4, <2>7, <2>8 DEF Follow, Answer
<1>4. ASSUME NextHop
      PROVE  x \in Ids(ins')
  <2>1. /\ pc = "walk" /\ UNCHANGED <<cluster, births, hops, steady, touched, src>>
        /\ at' = at + 1 /\ ins' = out /\ ins = {} /\ at \in Nat /\ at >= 1
    BY <1>4, HopsOf DEF NextHop, Answer, historyVars, LocatorInv, WalkInv
  <2>2. Standing' = Standing
    BY <2>1, StandingShrinks
  <2>3. Within(F, src, at, Standing) /\ x \in F[at]
    BY <2>1, <2>2
  <2>4. Within(F, src, at - 1, Standing) /\ F[at] \subseteq Leads(at, Standing, F[at - 1])
    BY <2>1, <2>3 DEF Within
  <2>5. \A z \in F[at - 1] : Leads(at, Standing, {z}) \subseteq Ids(out)
    BY <2>1, <2>4 DEF NoneMissed, Ids
  <2>6. Leads(at, Standing, F[at - 1]) \subseteq Ids(out)
    BY <2>5 DEF Leads
  <2> QED
    BY <2>1, <2>3, <2>4, <2>6
<1>5. CASE Return
  BY <1>5 DEF Return
<1>6. CASE UNCHANGED locatorVars
  <2>1. /\ pc = "walk" /\ UNCHANGED <<cluster, births, hops, steady, touched, src, at, ins, out>>
    BY <1>6 DEF locatorVars, walkVars
  <2>2. Standing' = Standing
    BY <2>1, StandingShrinks
  <2> QED
    BY <2>1, <2>2 DEF NoneMissed
<1> QED
  BY <1>1, <1>2, <1>3, <1>4, <1>5, <1>6 DEF LocatorNext

\* For every path, any number of requests of each call, and any changes between
\* them: Locate misses no object to which there was a way all the time, through
\* objects that did not change.
THEOREM NothingMissed == LocatorSpec => []LocateMissesNothing
<1>1. LocatorInit => NoneForgotten /\ NoneMissed
  BY DEF LocatorInit, NoneForgotten, NoneMissed
<1>2. LocatorInv /\ NoneMissed => LocateMissesNothing
  <2> SUFFICES ASSUME LocatorInv, NoneMissed, pc = "walk", ins = {}
               PROVE  Via(Standing) \subseteq Ids(out)
    BY DEF LocateMissesNothing, Standing
  <2>1. at \in Nat /\ at >= 1
    BY HopsOf DEF LocatorInv, WalkInv
  <2>2. PICK F : Via(Standing) = F[at] /\ Within(F, src, at, Standing)
    BY <2>1, ViaFamily
  <2>3. Within(F, src, at - 1, Standing) /\ F[at] \subseteq Leads(at, Standing, F[at - 1])
    BY <2>1, <2>2 DEF Within
  <2>4. \A z \in F[at - 1] : Leads(at, Standing, {z}) \subseteq Ids(out)
    BY <2>3 DEF NoneMissed, Ids
  <2>5. Leads(at, Standing, F[at - 1]) \subseteq Ids(out)
    BY <2>4 DEF Leads
  <2> QED
    BY <2>2, <2>3, <2>5
<1> QED
  BY <1>1, <1>2, LocatorInvInit, LocatorInvNext, HistoryInvInit, HistoryInvNext,
     NoneForgottenNext, NoneMissedNext, PTL DEF LocatorSpec

-----------------------------------------------------------------------------
(* Nothing is invented. *)

Known == Ever \cup Mixed

\* What is in hand has been led to by the pairs that requests joined at some time,
\* or by a change that mixes an old look with new ones.
NoneInvented ==
  pc = "walk" => \A F : Around(F, src, at, Known) =>
    Ids(ins) \subseteq F[at - 1] /\ Ids(out \cup gathered) \subseteq F[at]

\* The history only grows, and so does what is mixed.
LEMMA KnownGrows ==
  ASSUME IsFiniteSet(touched'), touched \subseteq touched', Ever \subseteq Ever', UNCHANGED hops
  PROVE  Known \subseteq Known'
<1>1. Cardinality(touched) > 1 => Cardinality(touched') > 1
  <2>1. /\ IsFiniteSet(touched) /\ Cardinality(touched) <= Cardinality(touched')
        /\ Cardinality(touched) \in Nat /\ Cardinality(touched') \in Nat
    BY FS_Subset, FS_CardinalityType
  <2> QED
    BY <2>1
<1>2. Mixed \subseteq Mixed'
  <2> SUFFICES ASSUME NEW p \in Mixed
               PROVE  p \in Mixed'
    OBVIOUS
  <2>1. /\ p \in ((DOMAIN hops') \X touched') \X Object
        /\ Cardinality(touched) > 1 \/ FromKind(hops[p[1][1]]) = ToKind(hops[p[1][1]])
    BY DEF Mixed
  <2>2. Cardinality(touched') > 1 \/ FromKind(hops'[p[1][1]]) = ToKind(hops'[p[1][1]])
    BY <1>1, <2>1
  <2> QED
    BY <2>1, <2>2 DEF Mixed, FromKind, ToKind
<1> QED
  BY <1>2 DEF Known

\* Whatever a request finds, as its object is or as it was, is known.
LEMMA FollowedKnown ==
  ASSUME LocatorInv, HistoryInv, pc = "walk", NEW o \in ins,
         NEW q \in Asks(o, hops[at].edge, hops[at].forward),
         NEW y \in Ids(Ask(o, hops[at].edge, hops[at].forward, q).objs)
  PROVE  <<<<at, o.id>>, y>> \in Known
<1>1. WalkInv /\ ClusterOK /\ at \in 1..Len(hops) /\ at \in DOMAIN hops
  BY HopsOf DEF LocatorInv, WalkInv
<1>2. IsSnapshot(o) /\ GVKOf[o.id] = FromKind(hops[at]) /\ o.id \in Object
  BY <1>1 DEF WalkInv, InHand, IsSnapshot
<1>3. y \in Object
  BY <1>1, HopNow DEF InHand, IsSnapshot, Ids
<1>4. y \in Shown(o, hops[at])
  BY DEF Shown
<1>5. CASE o.id \notin touched
  <2>1. o = Snapshot(o.id)
    BY <1>5 DEF HistoryInv, Hand
  <2>2. PICK x : x = o.id
    OBVIOUS
  <2>3. x \in Object /\ Exists(x) /\ y \in Shown(Snapshot(x), hops[at])
    BY <1>2, <1>4, <2>1, <2>2, NowExists
  <2>4. <<<<at, x>>, y>> \in Linked(hops)
    BY <1>1, <1>2, <2>2, <2>3, LinkedOf
  <2> QED
    BY <2>2, <2>4 DEF Known, Ever
<1>6. CASE o.id \in touched /\ (Cardinality(touched) > 1 \/ FromKind(hops[at]) = ToKind(hops[at]))
  BY <1>1, <1>3, <1>6 DEF Known, Mixed
<1>7. CASE o.id \in touched /\ ~(Cardinality(touched) > 1) /\ FromKind(hops[at]) # ToKind(hops[at])
  <2>1. Cardinality(touched) = 1
    <3>1. IsFiniteSet(touched) /\ Cardinality(touched) \in Nat /\ Cardinality(touched) # 0
      BY <1>7, FS_CardinalityType, FS_EmptySet DEF HistoryInv
    <3> QED
      BY <1>7, <3>1
  <2>2. touched \subseteq {o.id}
    BY <1>7, <2>1, FS_Singleton DEF HistoryInv
  <2>3. ShownBefore(o)
    BY <2>2 DEF HistoryInv, Hand
  <2>4. <<<<at, o.id>>, y>> \in Ever
    BY <1>1, <1>2, <1>4, <1>7, <2>3 DEF ShownBefore
  <2> QED
    BY <2>4 DEF Known
<1> QED
  BY <1>5, <1>6, <1>7

LEMMA NoneInventedNext ==
  LocatorInv /\ HistoryInv /\ NoneInvented /\ [LocatorNext]_locatorVars => NoneInvented'
<1> SUFFICES ASSUME LocatorInv, HistoryInv, NoneInvented, [LocatorNext]_locatorVars, pc' = "walk",
                    NEW F, Around(F, src', at', Known')
             PROVE  Ids(ins') \subseteq F[at' - 1] /\ Ids(out' \cup gathered') \subseteq F[at']
  BY DEF NoneInvented, Around, Leads, Ids
<1>0. HistoryInv'
  BY HistoryInvNext
<1>1. ASSUME pc = "walk", UNCHANGED <<src, at, hops>>, Known \subseteq Known',
             ins' \subseteq ins, out' \cup gathered' \subseteq out \cup gathered
      PROVE  Ids(ins') \subseteq F[at' - 1] /\ Ids(out' \cup gathered') \subseteq F[at']
  <2>1. Around(F, src, at, Known)
    BY <1>1, WithinMore
  <2> QED
    BY <1>1, <2>1 DEF NoneInvented, Ids
<1>2. ASSUME pc = "walk", UNCHANGED <<cluster, births, hops, touched, seen>>
      PROVE  Known' = Known
  <2>1. Linked(hops)' = Linked(hops)
    BY <1>2, SameLinks DEF LocatorInv
  <2> QED
    BY <1>2, <2>1 DEF Known, Ever, Mixed, FromKind, ToKind
<1>3. ASSUME NEW c \in Changes, Change(c[1], c[2])
      PROVE  Ids(ins') \subseteq F[at' - 1] /\ Ids(out' \cup gathered') \subseteq F[at']
  <2>1. pc = "walk" /\ UNCHANGED <<src, at, ins, out, gathered, hops>> /\ touched \subseteq touched'
    BY <1>3 DEF Change, walkVars, callVars
  <2>2. IsFiniteSet(touched') /\ Ever \subseteq Ever'
    BY <1>0, <1>3, EverGrows DEF HistoryInv
  <2>3. Known \subseteq Known'
    BY <2>1, <2>2, KnownGrows
  <2> QED
    BY <1>1, <2>1, <2>3
<1>4. ASSUME NEW r \in Requests, Locate(r)
      PROVE  Ids(ins') \subseteq F[at' - 1] /\ Ids(out' \cup gathered') \subseteq F[at']
  <2>1. src' = Ids(ins') /\ at' = 1 /\ out' \cup gathered' = {}
    BY <1>4 DEF Locate, Answer, callVars, LocatorInv, CallInv
  <2>2. Ids(ins') \subseteq F[0]
    BY <2>1 DEF Around
  <2> QED
    BY <2>1, <2>2 DEF Ids
<1>5. ASSUME NEW o \in ins, Follow(o)
      PROVE  Ids(ins') \subseteq F[at' - 1] /\ Ids(out' \cup gathered') \subseteq F[at']
  <2>1. /\ pc = "walk" /\ asking \subseteq {o} /\ UNCHANGED <<cluster, births, hops, touched, seen, src, at>>
    BY <1>5 DEF Follow, Followed, Answer, historyVars
  <2>2. Known' = Known
    BY <1>2, <2>1
  <2>3. CASE Todo(o) = {} /\ Followed(o, {})
    <3>1. ins' \subseteq ins /\ out' \cup gathered' \subseteq out \cup gathered
      BY <2>3 DEF Followed, NoCall, AppendObjects
    <3> QED
      BY <1>1, <2>1, <2>2, <3>1
  <2>4. CASE Todo(o) # {}
    <3>1. PICK q \in Todo(o) : \E objs :
            /\ objs = Ask(o, hops[at].edge, hops[at].forward, q).objs
            /\ \/ Followed(o, {}) \/ Followed(o, AppendObjects(gathered, objs))
               \/ gathered' = AppendObjects(gathered, objs) /\ UNCHANGED <<ins, out>>
      BY <1>5, <2>4 DEF Follow, Answer
    <3>2. PICK objs :
            /\ objs = Ask(o, hops[at].edge, hops[at].forward, q).objs
            /\ \/ Followed(o, {}) \/ Followed(o, AppendObjects(gathered, objs))
               \/ gathered' = AppendObjects(gathered, objs) /\ UNCHANGED <<ins, out>>
      BY <3>1
    <3>3. ins' \subseteq ins /\ out' \cup gathered' \subseteq out \cup gathered \cup objs
      BY <3>2 DEF Followed, NoCall, AppendObjects
    <3>4. Around(F, src, at, Known) /\ Ids(ins) \subseteq F[at - 1] /\ Ids(out \cup gathered) \subseteq F[at]
      BY <2>1, <2>2 DEF NoneInvented
    <3>5. Ids(objs) \subseteq F[at]
      <4> SUFFICES ASSUME NEW y \in Ids(objs) PROVE y \in F[at]
        OBVIOUS
      <4>1. q \in Asks(o, hops[at].edge, hops[at].forward)
        BY <2>1, TodoAsked
      <4>2. PICK pair \in Known : pair = <<<<at, o.id>>, y>>
        BY <2>1, <3>2, <4>1, FollowedKnown
      <4>3. o.id \in F[at - 1]
        BY <3>4 DEF Ids
      <4>4. y \in Leads(at, Known, F[at - 1])
        BY <4>2, <4>3 DEF Leads
      <4>5. at \in 1..at
        BY <2>1, HopsOf DEF LocatorInv, WalkInv
      <4> QED
        BY <3>4, <4>4, <4>5 DEF Around
    <3> QED
      BY <2>1, <3>3, <3>4, <3>5 DEF Ids
  <2> QED
    BY <1>5, <2>3, <2>4 DEF Follow
<1>6. ASSUME NextHop
      PROVE  Ids(ins') \subseteq F[at' - 1] /\ Ids(out' \cup gathered') \subseteq F[at']
  <2>1. /\ pc = "walk" /\ UNCHANGED <<cluster, births, hops, touched, seen, src>>
        /\ at' = at + 1 /\ ins' = out /\ out' \cup gathered' = {} /\ at \in Nat
    BY <1>6, HopsOf DEF NextHop, Answer, historyVars, callVars, LocatorInv, WalkInv, CallInv
  <2>2. Around(F, src, at, Known)
    BY <1>2, <2>1 DEF Around
  <2>3. Ids(out) \subseteq F[at]
    BY <2>1, <2>2 DEF NoneInvented, Ids
  <2> QED
    BY <2>1, <2>3 DEF Ids
<1>7. CASE Return
  BY <1>7 DEF Return
<1>8. CASE UNCHANGED locatorVars
  <2>1. pc = "walk" /\ UNCHANGED <<cluster, births, hops, touched, seen, src, at, ins, out, gathered>>
    BY <1>8 DEF locatorVars, walkVars, callVars
  <2> QED
    BY <1>1, <1>2, <2>1
<1> QED
  BY <1>3, <1>4, <1>5, <1>6, <1>7, <1>8 DEF LocatorNext

\* For every path, and any changes between the requests: Locate finds nothing to
\* which no hops led, each there at some time, but for what changes mix.
THEOREM NothingInvented == LocatorSpec => []LocateInventsNothing
<1>1. LocatorInit => NoneInvented
  BY DEF LocatorInit, NoneInvented
<1>2. LocatorInv /\ NoneInvented => LocateInventsNothing
  <2> SUFFICES ASSUME LocatorInv, NoneInvented, pc = "walk"
               PROVE  Ids(out) \subseteq Via(Known)
    BY DEF LocateInventsNothing, Known
  <2>1. at \in Nat
    BY HopsOf DEF LocatorInv, WalkInv
  <2>2. PICK F : Via(Known) = F[at] /\ Around(F, src, at, Known)
    BY <2>1, ViaFamily
  <2> QED
    BY <2>2 DEF NoneInvented, Ids
<1> QED
  BY <1>1, <1>2, LocatorInvInit, LocatorInvNext, HistoryInvInit, HistoryInvNext, NoneInventedNext, PTL DEF LocatorSpec
=============================================================================
