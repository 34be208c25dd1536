------------------------ MODULE PageRenderer_proofs ------------------------
(***************************************************************************)
(* Pages and the queries of their blocks, for every graph, every layout    *)
(* and any number of changes and failures.                                 *)
(***************************************************************************)
EXTENDS PageRenderer, ObjectGraph_proofs, NaturalRecursion, FiniteSetTheorems, SequenceTheorems

(***************************************************************************)
(* Recursive functions.  Each is a CHOOSE; what IntervalRecursion yields   *)
(* shows that there is something to choose.                                *)
(***************************************************************************)

\* What n steps along label lead to from S.
IsWalk(f, S, label) ==
  /\ f \in [0..Cardinality(OID) -> SUBSET OID]
  /\ f[0] = S
  /\ \A n \in 1..Cardinality(OID) : f[n] = S \cup UNION {edges[x][label] : x \in f[n - 1]}

\* Reach takes as many steps as there are objects.
LEMMA ReachSteps ==
  ASSUME TypeOK, NEW S \in SUBSET OID, NEW label \in EdgeLabel
  PROVE  \E f : IsWalk(f, S, label) /\ Reach(S, label) = f[Cardinality(OID)]
<1> DEFINE N == Cardinality(OID)
           After(A) == S \cup UNION {edges[x][label] : x \in A}
           IsF(g) == g = [n \in 0..N |-> IF n = 0 THEN S ELSE After(g[n - 1])]
           f == CHOOSE g : IsF(g)
<1>1. N \in Nat
  BY QueryAssumption, FS_CardinalityType
<1>2. \A A \in SUBSET OID : After(A) \in SUBSET OID
  BY DEF TypeOK, Conns
<1>3. IsF(f)
  <2> DEFINE Sets == SUBSET OID
             step == [n \in 1..N |-> [A \in Sets |-> After(A)]]
  <2> HIDE DEF N, After, Sets
  <2>1. S \in Sets /\ step \in [1..N -> [Sets -> Sets]]
    BY <1>2 DEF Sets
  <2> HIDE DEF step
  <2>2. PICK g : Recursive(g, N, Sets, S, step)
    BY <1>1, <2>1, IntervalRecursion
  <2>3. ASSUME NEW n \in 1..N PROVE g[n] = After(g[n - 1])
    <3>1. g[n - 1] \in Sets
      BY <1>1, <2>2 DEF Recursive
    <3> QED
      BY <2>2, <3>1 DEF step, Recursive
  <2>4. g = [n \in 0..N |-> IF n = 0 THEN S ELSE After(g[n - 1])]
    BY <1>1, <2>2, <2>3 DEF Recursive
  <2>5. IsF(g)
    BY <2>4
  <2> QED
    BY <2>5, Zenon
<1>4. Reach(S, label) = f[N]
  BY DEF Reach
<1> HIDE DEF f
<1>5. f[0] = S /\ (\A n \in 1..N : f[n] = After(f[n - 1])) /\ DOMAIN f = 0..N
  <2> HIDE DEF N, After
  <2>1. \A n \in 0..N : f[n] = IF n = 0 THEN S ELSE After(f[n - 1])
    BY <1>3, Zenon
  <2>2. 0 \in 0..N /\ \A n \in 1..N : n \in 0..N /\ n # 0
    BY <1>1
  <2> QED
    BY <1>3, <2>1, <2>2, Zenon
<1>6. f \in [0..N -> SUBSET OID]
  <2> DEFINE T == {n \in 0..N : f[n] \in SUBSET OID}
  <2> HIDE DEF N, After
  <2>1. 0 \in T
    BY <1>1, <1>5
  <2>2. \A n \in 1..N : n - 1 \in T => n \in T
    BY <1>1, <1>2, <1>5
  <2>3. T = 0..N
    <3> HIDE DEF T
    <3>1. T \in SUBSET (0..N)
      BY DEF T
    <3> QED
      BY <1>1, <2>1, <2>2, <3>1, IntervalInduction
  <2>4. f = [n \in 0..N |-> f[n]]
    BY <1>3
  <2> QED
    BY <2>3, <2>4
<1> QED
  BY <1>4, <1>5, <1>6 DEF IsWalk

\* What is linked are objects.
LEMMA LinksTypeOK ==
  ASSUME TypeOK, NEW x \in OID, NEW label \in EdgeLabel
  PROVE  Links(x, label) \subseteq OID
<1>1. \A S \in SUBSET OID : \A l \in EdgeLabel : Reach(S, l) \in SUBSET OID
  <2> SUFFICES ASSUME NEW S \in SUBSET OID, NEW l \in EdgeLabel PROVE Reach(S, l) \in SUBSET OID
    OBVIOUS
  <2>1. Cardinality(OID) \in 0..Cardinality(OID)
    BY QueryAssumption, FS_CardinalityType
  <2>2. PICK f : IsWalk(f, S, l) /\ Reach(S, l) = f[Cardinality(OID)]
    BY ReachSteps
  <2> QED
    BY <2>1, <2>2 DEF IsWalk
<1>2. Offshoot \in EdgeLabel
  BY QueryAssumption
<1> QED
  BY <1>1, <1>2 DEF Links

\* Levels, hop by hop.
LEMMA LevelsSteps ==
  ASSUME query.src \in OID, Len(query.hops) \in Nat, NEW rel
  PROVE  /\ Levels(rel) \in [0..Len(query.hops) -> SUBSET OID]
         /\ Levels(rel)[0] = {query.src}
         /\ \A i \in 1..Len(query.hops) : Levels(rel)[i] = Step(i, rel, Levels(rel)[i - 1])
<1> DEFINE N == Len(query.hops)
           c == {query.src}
           Sets == SUBSET OID
           IsF(g) == g = [i \in 0..N |-> IF i = 0 THEN c ELSE Step(i, rel, g[i - 1])]
           step == [i \in 1..N |-> [A \in Sets |-> Step(i, rel, A)]]
<1>1. \A i, A : Step(i, rel, A) \in Sets
  BY DEF Step
<1>2. N \in Nat /\ c \in Sets /\ step \in [1..N -> [Sets -> Sets]]
  <2> HIDE DEF N, Sets
  <2>1. c \in Sets
    BY DEF Sets
  <2> QED
    BY <1>1, <2>1 DEF N
<1>3. Levels(rel) = CHOOSE g : IsF(g)
  BY DEF Levels
<1> HIDE DEF N, c, Sets
<1>4. PICK g : Recursive(g, N, Sets, c, step)
  <2> HIDE DEF step
  <2> QED
    BY <1>2, IntervalRecursion
<1>5. IsF(g)
  <2>1. ASSUME NEW i \in 1..N PROVE g[i] = Step(i, rel, g[i - 1])
    <3>1. g[i - 1] \in Sets
      BY <1>2, <1>4 DEF Recursive
    <3> QED
      BY <1>4, <3>1 DEF Recursive
  <2> QED
    BY <1>2, <1>4, <2>1 DEF Recursive
<1>6. IsF(Levels(rel))
  <2> HIDE DEF IsF
  <2> QED
    BY <1>3, <1>5, Zenon
<1>7. \A i \in 0..N : Levels(rel)[i] = IF i = 0 THEN c ELSE Step(i, rel, Levels(rel)[i - 1])
  BY <1>6, Zenon
<1>8. 0 \in 0..N /\ \A i \in 1..N : i \in 0..N /\ i # 0
  BY <1>2
<1>9. Levels(rel)[0] = c /\ \A i \in 1..N : Levels(rel)[i] = Step(i, rel, Levels(rel)[i - 1])
  BY <1>7, <1>8, Zenon
<1>10. \A i \in 0..N : Levels(rel)[i] \in Sets
  BY <1>1, <1>2, <1>7
<1> QED
  BY <1>6, <1>9, <1>10 DEF N, c, Sets

\* The blocks chosen are blocks of the layout; those of RenderPageBlock's layout
\* are its block.
LEMMA ChosenBlocks ==
  ASSUME NEW r, r.layout \in Seq(LayoutBlocks)
  PROVE  /\ Chosen(r) \in Seq(LayoutBlocks)
         /\ \A b : r.layout = <<b>> /\ IsChosen(b, r) => Chosen(r) = <<b>>
<1> DEFINE N == Len(r.layout)
           Seqs == Seq(LayoutBlocks)
           Add(i, s) == IF IsChosen(r.layout[i], r) THEN Append(s, r.layout[i]) ELSE s
           IsF(g) == g = [i \in 0..N |-> IF i = 0 THEN <<>> ELSE Add(i, g[i - 1])]
           f == CHOOSE g : IsF(g)
           step == [i \in 1..N |-> [s \in Seqs |-> Add(i, s)]]
<1>1. N \in Nat /\ <<>> \in Seqs /\ \A i \in 1..N : \A s \in Seqs : Add(i, s) \in Seqs
  OBVIOUS
<1>2. Chosen(r) = f[N]
  <2>1. f = CHOOSE g : g = [i \in 0..N |-> IF i = 0 THEN <<>>
                                         ELSE IF IsChosen(r.layout[i], r) THEN Append(g[i - 1], r.layout[i]) ELSE g[i - 1]]
    OBVIOUS
  <2> QED
    BY <2>1 DEF Chosen
<1>3. \A b : r.layout = <<b>> /\ IsChosen(b, r) => N = 1 /\ Add(1, <<>>) = <<b>>
  OBVIOUS
<1> HIDE DEF N, Seqs, Add
<1>4. PICK g : Recursive(g, N, Seqs, <<>>, step)
  <2>1. step \in [1..N -> [Seqs -> Seqs]]
    BY <1>1
  <2> HIDE DEF step
  <2> QED
    BY <1>1, <2>1, IntervalRecursion
<1>5. IsF(g)
  <2>1. ASSUME NEW i \in 1..N PROVE g[i] = Add(i, g[i - 1])
    <3>1. g[i - 1] \in Seqs
      BY <1>1, <1>4 DEF Recursive
    <3> QED
      BY <1>4, <3>1 DEF Recursive
  <2> QED
    BY <1>1, <1>4, <2>1 DEF Recursive
<1>6. IsF(f)
  <2> HIDE DEF IsF
  <2> QED
    BY <1>5, Zenon
<1> HIDE DEF f
<1>7. \A i \in 0..N : f[i] = IF i = 0 THEN <<>> ELSE Add(i, f[i - 1])
  BY <1>6, Zenon
<1> DEFINE T == {i \in 0..N : f[i] \in Seqs}
<1>8. T = 0..N
  <2>1. 0 \in T
    BY <1>1, <1>7
  <2>2. \A i \in 1..N : i - 1 \in T => i \in T
    BY <1>1, <1>7
  <2>3. T \in SUBSET (0..N)
    OBVIOUS
  <2> HIDE DEF T
  <2> QED
    BY <1>1, <2>1, <2>2, <2>3, IntervalInduction
<1>9. Chosen(r) \in Seqs
  BY <1>1, <1>2, <1>8
<1>10. ASSUME NEW b, r.layout = <<b>>, IsChosen(b, r) PROVE Chosen(r) = <<b>>
  <2>1. f[0] = <<>> /\ f[1] = Add(1, f[0])
    BY <1>3, <1>7, <1>10
  <2> QED
    BY <1>2, <1>3, <1>10, <2>1
<1> QED
  BY <1>9, <1>10 DEF Seqs

-----------------------------------------------------------------------------
(***************************************************************************)
(* Type correctness.                                                       *)
(***************************************************************************)

WorldInv ==
  /\ TypeOK /\ ClientTypeOK /\ created \in Nat
  /\ Kind \ mapped \subseteq lacked

QueryInv ==
  /\ qpc \in {"idle", "resolve", "map", "expand", "template", "source", "create", "done"}
  /\ reply \in {"none", "ok", "failed"}
  /\ qpc = "idle" => todo = {} /\ refs = {} /\ unread = {} /\ objs = {}
  /\ qpc # "done" => reply = "none"
  /\ qpc # "idle" => IsQuery(query)
  /\ qpc \in {"resolve", "map", "expand"} => query.type = "graphql"
  /\ qpc \in {"template", "source", "create"} => query.type = "rest"
  /\ \A p \in todo : /\ query.type = "graphql"
                     /\ p \in Seq(OID) /\ Len(p) \in 1..Len(query.hops) /\ p[1] = query.src
  /\ refs \subseteq {KeyOf[x] : x \in OID} /\ unread \subseteq refs
  /\ objs \subseteq OID

Shows == [block : LayoutBlocks, result : {"ok", "missing"}]

ViewInv ==
  /\ vpc \in {"idle", "source", "load", "render", "done"}
  /\ result \in {"none", "ok", "failed"}
  /\ left \in Seq(LayoutBlocks) /\ shown \in Seq(Shows)
  /\ vpc # "idle" => view.src \in OID
  /\ vpc \in {"idle", "source", "load", "render"} => result = "none"
  /\ vpc \in {"idle", "source", "load"} => left = <<>> /\ shown = <<>>
  /\ vpc \in {"source", "load", "done"} => qpc = "idle"
  /\ vpc \in {"idle", "source", "load"} /\ qpc = "idle" => created = 0
  /\ vpc \in {"source", "load"} => view.layout = NoLayout \/ view.layout \in Seq(LayoutBlocks)
  /\ vpc = "render" /\ qpc # "idle" =>
       /\ left # <<>> /\ Head(left).kind = "Connection"
       /\ query.type = Head(left).query.type /\ query.target = Head(left).query.target

TypeInv == WorldInv /\ QueryInv /\ ViewInv

\* Hop by hop, a query that is well formed says what to look for.
LEMMA HopTypes ==
  ASSUME QueryInv, qpc # "idle", query.type = "graphql"
  PROVE  /\ query.src \in OID /\ query.target \in Kind
         /\ Len(query.hops) \in Nat \ {0} /\ DOMAIN query.hops = 1..Len(query.hops)
         /\ \A i \in 1..Len(query.hops) :
              query.hops[i].label \in EdgeLabel /\ query.hops[i].kind \in Kind \cup {AnyKind, GroupOnly}
<1>1. IsQuery(query) /\ query.hops \in Hops
  BY DEF QueryInv, IsQuery
<1> DEFINE Hop == [label : EdgeLabel, kind : Kind \cup {AnyKind, GroupOnly}]
<1>2. query.hops \in Seq(Hop) /\ query.hops # <<>>
  BY <1>1 DEF Hops
<1>3. \A h \in Hop : h.label \in EdgeLabel /\ h.kind \in Kind \cup {AnyKind, GroupOnly}
  OBVIOUS
<1> HIDE DEF Hop
<1>4. Len(query.hops) \in Nat \ {0} /\ query.hops \in [1..Len(query.hops) -> Hop]
  BY <1>2
<1> QED
  BY <1>1, <1>3, <1>4 DEF IsQuery

\* The invariant has the types that the runs check.
LEMMA TypeInvTypes == TypeInv => PageTypeOK
<1> SUFFICES ASSUME TypeInv PROVE PageTypeOK
  OBVIOUS
<1>1. ASSUME NEW p \in todo PROVE Len(p) \in DOMAIN query.hops /\ p[1] = query.src
  <2>1. QueryInv /\ qpc # "idle" /\ query.type = "graphql" /\ Len(p) \in 1..Len(query.hops) /\ p[1] = query.src
    BY DEF TypeInv, QueryInv
  <2> QED
    BY <2>1, HopTypes
<1> QED
  BY <1>1 DEF TypeInv, WorldInv, QueryInv, ViewInv, PageTypeOK, QueryTypeOK, Running

LEMMA InitTypes == PageInit => TypeInv
<1> SUFFICES ASSUME PageInit PROVE TypeInv
  OBVIOUS
<1>1. PICK b \in Beginnings :
        LET seen == {x \in OID : KindOf[x] \in b.listed /\ (x \in b.cluster <=> x \notin b.late)}
        IN  /\ ids = b.ids
            /\ cluster = b.cluster
            /\ mapped = b.mapped /\ mapped \in Reloads /\ lacked = Kind \ mapped
            /\ synced = b.listed \X {"object"}
            /\ cached = [f \in Form |-> IF f = "object" THEN seen ELSE {}]
            /\ behind = [f \in Form |-> [x \in OID |-> IF f = "object" /\ x \in b.late THEN 1 ELSE 0]]
  BY Zenon DEF PageInit, QueryInit
<1>2. /\ b.ids \in [OID -> Conns]
      /\ b.cluster \subseteq OID /\ b.mapped \subseteq Kind /\ b.listed \subseteq Kind \ Live
  BY QueryAssumption
<1>3. ids \in [OID -> Conns]
  BY <1>1, <1>2
<1>4. edges \in [OID -> Conns]
  BY <1>3 DEF PageInit, QueryInit, Conns
<1>5. ClientTypeOK
  <2>1. cluster \subseteq OID /\ served \subseteq Kind /\ mapped \subseteq Kind /\ lacked \subseteq Kind
    BY <1>1, <1>2 DEF PageInit, QueryInit
  <2>2. synced \subseteq (Kind \ Live) \X Form
    BY <1>1, <1>2 DEF Form
  <2>3. cached \in [Form -> SUBSET OID] /\ behind \in [Form -> [OID -> Nat]]
    BY <1>1
  <2> QED
    BY <2>1, <2>2, <2>3 DEF ClientTypeOK
<1>6. WorldInv
  <2>1. created \in Nat
    BY DEF PageInit, QueryInit
  <2>2. Kind \ mapped \subseteq lacked
    BY <1>1
  <2> QED
    BY <1>3, <1>4, <1>5, <2>1, <2>2 DEF WorldInv, TypeOK
<1>7. QueryInv
  BY DEF PageInit, QueryInit, QueryInv
<1>8. ViewInv
  BY DEF PageInit, QueryInit, ViewInv
<1> QED
  BY <1>6, <1>7, <1>8 DEF TypeInv

(* The client. *)

\* Kinds are looked up, and the mapper may be loaded anew.
Lookup == UNCHANGED mapperVars \/ Reload

LEMMA LookupSteps == \A k : Maps(k) \/ Lacks(k) => Lookup
BY DEF Maps, Lacks, Lookup, mapperVars

LEMMA LookupTypes ==
  ASSUME ClientTypeOK, Kind \ mapped \subseteq lacked, UNCHANGED <<cluster, served, informerVars>>,
         Lookup \/ (UNCHANGED mapped /\ lacked' = Kind \ mapped)
  PROVE  ClientTypeOK' /\ (Kind \ mapped \subseteq lacked)'
<1>1. /\ mapped' \subseteq Kind /\ lacked' \subseteq Kind /\ Kind \ mapped' \subseteq lacked'
      /\ UNCHANGED <<cluster, served, synced, cached, behind>>
  BY DEF ClientTypeOK, Lookup, Reload, Reloads, mapperVars, informerVars
<1> QED
  BY <1>1 DEF ClientTypeOK

\* What goes on around a request.
Around == World \/ \E k \in Kind, form \in Form : Sync(k, form)

LEMMA AroundSteps ==
  ASSUME Meanwhile \/ SyncMeanwhile
  PROVE  Around /\ UNCHANGED <<viewVars, answerVars, created>>
<1>1. Around /\ UNCHANGED viewVars
  BY DEF Meanwhile, SyncMeanwhile, Around
<1>2. UNCHANGED <<answerVars, created>>
  BY <1>1 DEF Around, World, UpdateGraph, CreateOrDelete, Serve, LookupElsewhere, Catch, Sync, WorldChanges
<1> QED
  BY <1>1, <1>2

LEMMA ChangeTypes == ASSUME ClientTypeOK, NEW x \in OID, Change(x) PROVE ClientTypeOK'
<1>1. cluster' \subseteq OID
  BY DEF Change, Toggle, ClientTypeOK
<1>2. behind' \in [Form -> [OID -> Nat]]
  <2>1. \A f \in Form : [behind[f] EXCEPT ![x] = IF <<KindOf[x], f>> \in synced THEN @ + 1 ELSE @]
                          \in [OID -> Nat]
    BY DEF ClientTypeOK
  <2> QED
    BY <2>1 DEF Change
<1> QED
  BY <1>1, <1>2 DEF Change, ClientTypeOK

LEMMA DeliverTypes ==
  ASSUME ClientTypeOK, NEW x \in OID, NEW form \in Form, Deliver(x, form) PROVE ClientTypeOK'
<1>1. PICK n \in 1..behind[form][x] :
        /\ behind' = [behind EXCEPT ![form][x] = @ - n]
        /\ cached' = [cached EXCEPT ![form] = IF n % 2 = 1 THEN Toggle(@, x) ELSE @]
  BY DEF Deliver
<1>2. behind[form] \in [OID -> Nat] /\ behind[form][x] - n \in Nat
  BY DEF ClientTypeOK
<1>3. behind' \in [Form -> [OID -> Nat]]
  BY <1>1, <1>2 DEF ClientTypeOK
<1>4. cached[form] \subseteq OID /\ Toggle(cached[form], x) \subseteq OID
  BY DEF ClientTypeOK, Toggle
<1>5. cached' \in [Form -> SUBSET OID]
  BY <1>1, <1>4 DEF ClientTypeOK
<1> QED
  BY <1>3, <1>5 DEF Deliver, ClientTypeOK

LEMMA SyncTypes ==
  ASSUME ClientTypeOK, NEW k, NEW form \in Form, SyncInformer(k, form) PROVE ClientTypeOK'
<1>1. synced' \subseteq (Kind \ Live) \X Form
  BY DEF SyncInformer, ClientTypeOK
<1>2. cached' \in [Form -> SUBSET OID]
  BY DEF SyncInformer, ClientTypeOK
<1> QED
  BY <1>1, <1>2 DEF SyncInformer, ClientTypeOK

LEMMA AroundTypes == ASSUME TypeInv, Meanwhile \/ SyncMeanwhile PROVE TypeInv'
<1>1. Around /\ UNCHANGED <<viewVars, answerVars, created>>
  BY AroundSteps
<1>2. TypeOK'
  <2>1. ASSUME NEW x \in OID, NEW conns \in MayDeclare(x), UpdateGraph(x, conns) PROVE TypeOK'
    <3>1. conns \in Conns
      BY DEF MayDeclare, ConnsOf
    <3> QED
      BY <2>1, <3>1, UpdateTypeOK DEF TypeInv, WorldInv, UpdateGraph
  <2>2. CASE UNCHANGED graphVars
    BY <2>2 DEF graphVars, TypeInv, WorldInv, TypeOK
  <2> QED
    BY <1>1, <2>1, <2>2 DEF Around, World, CreateOrDelete, Serve, LookupElsewhere, Catch, Sync, worldVars
<1>3. (ClientTypeOK /\ Kind \ mapped \subseteq lacked)'
  <2>1. ClientTypeOK /\ Kind \ mapped \subseteq lacked
    BY DEF TypeInv, WorldInv
  <2>2. ASSUME NEW x \in OID, NEW conns, UpdateGraph(x, conns)
        PROVE  (ClientTypeOK /\ Kind \ mapped \subseteq lacked)'
    BY <2>1, <2>2, LookupTypes DEF UpdateGraph, Lookup
  <2>3. ASSUME NEW x \in OID, CreateOrDelete(x)
        PROVE  (ClientTypeOK /\ Kind \ mapped \subseteq lacked)'
    BY <2>1, <2>3, ChangeTypes DEF CreateOrDelete, Change
  <2>4. ASSUME NEW k \in Kind, Serve(k)
        PROVE  (ClientTypeOK /\ Kind \ mapped \subseteq lacked)'
    BY <2>1, <2>4 DEF Serve, InstallOrRemove, Toggle, ClientTypeOK
  <2>5. ASSUME LookupElsewhere
        PROVE  (ClientTypeOK /\ Kind \ mapped \subseteq lacked)'
    BY <2>1, <2>5, LookupTypes DEF LookupElsewhere, Lookup, worldVars
  <2>6. ASSUME NEW x \in OID, NEW form \in Form, Catch(x, form)
        PROVE  (ClientTypeOK /\ Kind \ mapped \subseteq lacked)'
    BY <2>1, <2>6, DeliverTypes DEF Catch, Deliver
  <2>7. ASSUME NEW k \in Kind, NEW form \in Form, Sync(k, form)
        PROVE  (ClientTypeOK /\ Kind \ mapped \subseteq lacked)'
    BY <2>1, <2>7, SyncTypes DEF Sync, SyncInformer
  <2> QED
    BY <1>1, <2>2, <2>3, <2>4, <2>5, <2>6, <2>7 DEF Around, World
<1>4. WorldInv'
  BY <1>1, <1>2, <1>3 DEF TypeInv, WorldInv
<1>5. QueryInv'
  BY <1>1 DEF answerVars, TypeInv, QueryInv, IsQuery
<1>6. ViewInv'
  BY <1>1 DEF answerVars, viewVars, TypeInv, ViewInv
<1> QED
  BY <1>4, <1>5, <1>6 DEF TypeInv

(* The steps of a query. *)

\* What a resolver finds are objects.
LEMMA FoundTypes ==
  ASSUME WorldInv, QueryInv, NEW p \in todo
  PROVE  /\ qpc # "idle" /\ query.type = "graphql"
         /\ Len(p) \in 1..Len(query.hops) /\ p \in Seq(OID) /\ p[Len(p)] \in OID
         /\ query.hops[Len(p)].label \in EdgeLabel
         /\ Links(p[Len(p)], query.hops[Len(p)].label) \subseteq OID
<1>1. qpc # "idle" /\ query.type = "graphql" /\ Len(p) \in 1..Len(query.hops) /\ p \in Seq(OID)
  BY DEF QueryInv
<1>2. query.hops[Len(p)].label \in EdgeLabel
  BY <1>1, HopTypes
<1>3. p[Len(p)] \in OID
  BY <1>1
<1> QED
  BY <1>1, <1>2, <1>3, LinksTypeOK DEF WorldInv

LEMMA ResolveTypes == ASSUME WorldInv, QueryInv, NEW p \in todo, Resolve(p) PROVE QueryInv'
<1> DEFINE hop   == query.hops[Len(p)]
           found == {y \in Links(p[Len(p)], hop.label) : Wanted(hop, y)}
<1>1. CASE Done("failed")
  BY <1>1 DEF Done, Resolve, QueryInv, IsQuery
<1>2. CASE /\ todo' = (todo \ {p}) \cup (IF IsLast(p) THEN {} ELSE {Append(p, y) : y \in found})
           /\ refs' = Collect(p, found)
           /\ UNCHANGED <<query, qpc, unread, objs, reply>>
  <2>1. found \subseteq OID
    BY FoundTypes
  <2> HIDE DEF found
  <2>2. refs' \subseteq {KeyOf[x] : x \in OID} /\ unread' \subseteq refs'
    BY <1>2, <2>1 DEF Collect, QueryInv
  <2>3. ASSUME NEW y \in found, ~IsLast(p)
        PROVE  /\ Append(p, y) \in Seq(OID) /\ Append(p, y)[1] = query.src
               /\ Len(Append(p, y)) \in 1..Len(query.hops)
    <3>1. Len(p) \in 1..Len(query.hops) /\ p \in Seq(OID) /\ p[1] = query.src /\ y \in OID
      BY <2>1 DEF QueryInv
    <3>2. Len(query.hops) \in Nat
      BY FoundTypes, HopTypes
    <3> QED
      BY <2>3, <3>1, <3>2 DEF IsLast
  <2>4. \A q \in todo' : /\ query.type = "graphql"
                         /\ q \in Seq(OID) /\ Len(q) \in 1..Len(query.hops) /\ q[1] = query.src
    BY <1>2, <2>3 DEF QueryInv
  <2>5. qpc = "resolve"
    BY DEF Resolve
  <2> QED
    BY <1>2, <2>2, <2>4, <2>5 DEF QueryInv, IsQuery
<1> QED
  BY <1>1, <1>2 DEF Resolve

\* A query is begun, for a block or for itself.
LEMMA StartsTypes ==
  ASSUME QueryInv, qpc = "idle", NEW r, IsQuery(r),
         NEW at \in IF r.type = "graphql" THEN {"resolve"} ELSE {"template", "create"}, Starts(r, at)
  PROVE  QueryInv'
<1>1. r.type \in {"graphql", "rest"} /\ r.src \in OID
  BY DEF IsQuery
<1>2. IsQuery(query)' /\ query' = r
  BY DEF Starts, IsQuery
<1>3. CASE r.type = "graphql"
  <2>1. r.hops \in Hops
    BY <1>3 DEF IsQuery
  <2>2. Len(r.hops) \in Nat \ {0}
    BY <2>1 DEF Hops
  <2>3. <<r.src>> \in Seq(OID) /\ Len(<<r.src>>) = 1 /\ <<r.src>>[1] = r.src
    BY <1>1
  <2> QED
    BY <1>2, <1>3, <2>2, <2>3 DEF Starts, QueryInv
<1>4. CASE r.type = "rest"
  BY <1>2, <1>4 DEF Starts, QueryInv
<1> QED
  BY <1>1, <1>3, <1>4

LEMMA QueryTypes == ASSUME QueryInv, NEW r \in Queries, ExecQuery(r) PROVE QueryInv'
<1>1. IsQuery(r)
  BY PageAssumption
<1>2. CASE query' = r /\ qpc' = "done" /\ UNCHANGED <<todo, refs, unread, objs>> /\ reply' = "failed"
  BY <1>1, <1>2 DEF ExecQuery, QueryInv, IsQuery
<1>3. ASSUME NEW at \in IF r.type = "graphql" THEN {"resolve"} ELSE {"template", "create"}, Starts(r, at)
      PROVE  QueryInv'
  BY <1>1, <1>3, StartsTypes DEF ExecQuery
<1> QED
  BY <1>1, <1>2, <1>3 DEF ExecQuery, IsQuery

\* The rest of a query, and its failure.
LEMMA ExecuteTypes == ASSUME WorldInv, QueryInv, Execute \/ RequestFails PROVE QueryInv'
<1>1. ASSUME NEW p \in todo, Resolve(p) PROVE QueryInv'
  BY <1>1, ResolveTypes
<1>2. CASE Resolved \/ MapTarget \/ Expanded \/ CreateAnswer \/ RequestFails
  BY <1>2 DEF Resolved, MapTarget, Expanded, CreateAnswer, RequestFails, Done, QueryInv, IsQuery
<1>4. CASE MapSource \/ ReadSource
  BY <1>4 DEF MapSource, ReadSource, Done, QueryInv, IsQuery
<1>3. ASSUME NEW ref \in unread, Expand(ref) PROVE QueryInv'
  BY <1>3 DEF Expand, Read, Named, QueryInv, IsQuery
<1> QED
  BY <1>1, <1>2, <1>3, <1>4 DEF Execute

\* An answer is put away.
LEMMA ForgetTypes == ASSUME Forget PROVE QueryInv'
BY DEF Forget, QueryInv

(* The steps of the renderer. *)

LEMMA HeadTypes ==
  ASSUME ViewInv, Rendering
  PROVE  /\ vpc = "render" /\ result = "none" /\ view.src \in OID
         /\ Head(left) \in LayoutBlocks /\ Tail(left) \in Seq(LayoutBlocks)
         /\ Head(left).kind = "Connection" => Head(left).query \in BlockQueries
<1>1. left \in Seq(LayoutBlocks) /\ left # <<>>
  BY DEF ViewInv, Rendering
<1>2. Head(left) \in LayoutBlocks /\ Tail(left) \in Seq(LayoutBlocks)
  BY <1>1, HeadTailProperties
<1> QED
  BY <1>2, PageAssumption DEF ViewInv, Rendering

\* The query of a block, of a view of src.
LEMMA BlockQueryTypes ==
  ASSUME NEW b, b.query \in BlockQueries, view.src \in OID
  PROVE  /\ IsQuery(BlockQuery(b))
         /\ BlockQuery(b).type = b.query.type /\ BlockQuery(b).target = b.query.target
         /\ b.query.target \in Kind /\ b.query.type \in {"graphql", "rest"}
<1> DEFINE q == BlockQuery(b)
<1>1. ASSUME NEW f \in DOMAIN b.query \ {"src", "expand", "templated"} PROVE q[f] = b.query[f]
  BY <1>1 DEF BlockQuery
<1>2. q.src = view.src /\ q.expand = TRUE /\ q.templated = FALSE
  BY DEF BlockQuery
<1> HIDE DEF q
<1>3. CASE b.query \in [type : {"graphql"}, target : Kind, hops : Hops]
  <2>1. DOMAIN b.query = {"type", "target", "hops"}
    BY <1>3
  <2>2. q.type = b.query.type /\ q.target = b.query.target /\ q.hops = b.query.hops
    BY <1>1, <2>1
  <2> QED
    BY <1>2, <1>3, <2>2 DEF IsQuery, q
<1>4. CASE b.query \in [type : {"rest"}, target : Kind]
  <2>1. DOMAIN b.query = {"type", "target"}
    BY <1>4
  <2>2. q.type = b.query.type /\ q.target = b.query.target
    BY <1>1, <2>1
  <2> QED
    BY <1>2, <1>4, <2>2 DEF IsQuery, q
<1> QED
  BY <1>3, <1>4 DEF BlockQueries

LEMMA ShowTypes ==
  ASSUME ViewInv, Rendering, NEW how \in {"ok", "missing"}, Show(how)
  PROVE  left' \in Seq(LayoutBlocks) /\ shown' \in Seq(Shows)
<1>1. Head(left) \in LayoutBlocks /\ Tail(left) \in Seq(LayoutBlocks)
  BY HeadTypes
<1>2. [block |-> Head(left), result |-> how] \in Shows
  BY <1>1 DEF Shows
<1>3. shown \in Seq(Shows)
  BY DEF ViewInv
<1> QED
  BY <1>1, <1>2, <1>3, AppendProperties DEF Show

\* Every step of the renderer itself that only shows a block or ends.
LEMMA ShowOrEndTypes ==
  ASSUME ViewInv, Rendering, qpc' = "idle",
         Show("ok") \/ Show("missing") \/ End("failed")
  PROVE  ViewInv'
<1>1. CASE Show("ok") \/ Show("missing")
  <2>1. left' \in Seq(LayoutBlocks) /\ shown' \in Seq(Shows)
    BY <1>1, ShowTypes
  <2>2. UNCHANGED <<view, vpc, result>>
    BY <1>1 DEF Show
  <2> QED
    BY <2>1, <2>2 DEF ViewInv, Rendering
<1>2. CASE End("failed")
  BY <1>2 DEF End, ViewInv, Rendering
<1> QED
  BY <1>1, <1>2

LEMMA LoadLayoutTypes == ASSUME ViewInv, LoadLayout PROVE ViewInv'
<1>1. UNCHANGED qpc /\ UNCHANGED created
  BY DEF LoadLayout, queryVars, answerVars
<1>2. CASE view.layout = NoLayout
  BY <1>1, <1>2 DEF LoadLayout, End, ViewInv
<1>3. CASE view.layout # NoLayout
  <2>1. Chosen(view) \in Seq(LayoutBlocks)
    BY <1>3, ChosenBlocks DEF ViewInv, LoadLayout
  <2> QED
    BY <1>1, <1>3, <2>1 DEF LoadLayout, ViewInv
<1> QED
  BY <1>2, <1>3 DEF LoadLayout

LEMMA FindSourceTypes == ASSUME ViewInv, FindSource PROVE ViewInv'
<1>1. UNCHANGED qpc /\ UNCHANGED created
  BY DEF FindSource, queryVars, answerVars
<1> QED
  BY <1>1 DEF FindSource, End, ViewInv

LEMMA RequestTypes ==
  ASSUME ViewInv,
         (\E r \in Views : RenderLayout(r)) \/ (\E r \in Blocks : RenderPageBlock(r))
  PROVE  ViewInv'
<1>1. ASSUME NEW r \in Views, RenderLayout(r) PROVE ViewInv'
  <2>1. r.src \in OID /\ (r.layout = NoLayout \/ r.layout \in Seq(LayoutBlocks))
    BY PageAssumption
  <2> QED
    BY <1>1, <2>1 DEF RenderLayout, Begin, answerVars, ViewInv
<1>2. ASSUME NEW r \in Blocks, RenderPageBlock(r) PROVE ViewInv'
  <2>1. r.src \in OID /\ <<r.block>> \in Seq(LayoutBlocks)
    BY PageAssumption
  <2> QED
    BY <1>2, <2>1 DEF RenderPageBlock, Begin, answerVars, ViewInv
<1> QED
  BY <1>1, <1>2

LEMMA RenderConnectionTypes ==
  ASSUME TypeInv, RenderConnection PROVE QueryInv' /\ ViewInv'
<1> DEFINE b == Head(left)
           q == BlockQuery(b)
<1>1. /\ Rendering /\ qpc = "idle" /\ b.kind = "Connection" /\ QueryInv /\ ViewInv
      /\ b.query \in BlockQueries /\ view.src \in OID
  BY HeadTypes DEF RenderConnection, TypeInv
<1>2. IsQuery(q) /\ q.type = b.query.type /\ q.target = b.query.target
  BY <1>1, BlockQueryTypes
<1>3. CASE Show("missing") /\ NoQuery
  <2>1. ViewInv'
    BY <1>1, <1>3, ShowOrEndTypes DEF NoQuery, answerVars
  <2>2. QueryInv'
    BY <1>1, <1>3 DEF NoQuery, answerVars, QueryInv, IsQuery
  <2> QED
    BY <2>1, <2>2
<1>4. CASE /\ Starts(q, IF q.type = "graphql" THEN "resolve" ELSE "create")
           /\ UNCHANGED viewVars
  <2> HIDE DEF q
  <2>1. QueryInv'
    BY <1>1, <1>2, <1>4, StartsTypes
  <2>2. query' = q /\ qpc' \notin {"idle", "done"} /\ UNCHANGED viewVars
    BY <1>4 DEF Starts
  <2>3. ViewInv'
    BY <1>1, <1>2, <2>2 DEF ViewInv, viewVars, Rendering
  <2> QED
    BY <2>1, <2>3
<1> QED
  BY <1>3, <1>4 DEF RenderConnection

\* The query of a block goes on, and the view waits.
LEMMA QueryStepTypes ==
  ASSUME TypeInv, Execute \/ RequestFails, UNCHANGED viewVars PROVE QueryInv' /\ ViewInv'
<1>1. qpc # "idle" /\ qpc' # "idle" /\ UNCHANGED query
  BY DEF Execute, Resolve, Resolved, MapTarget, Expand, Expanded, MapSource, ReadSource, CreateAnswer,
         RequestFails, Done
<1>2. ViewInv'
  BY <1>1 DEF TypeInv, ViewInv, viewVars
<1>3. QueryInv'
  BY ExecuteTypes DEF TypeInv
<1> QED
  BY <1>2, <1>3

LEMMA QueryCallTypes == ASSUME TypeInv, NEW r \in Queries, Query(r) PROVE QueryInv' /\ ViewInv'
<1>1. QueryInv'
  BY QueryTypes DEF Query, TypeInv
<1>2. vpc = "idle" /\ qpc' # "idle" /\ UNCHANGED viewVars
  <2>1. qpc' \in {"done", "resolve", "template", "create"}
    BY DEF Query, ExecQuery, Starts
  <2> QED
    BY <2>1 DEF Query
<1>3. ViewInv'
  BY <1>2 DEF viewVars, TypeInv, ViewInv
<1> QED
  BY <1>1, <1>3

\* A block is shown, or the rendering ends.
LEMMA BlockTypes ==
  ASSUME TypeInv, RenderSelf \/ FailToMap \/ ShowAnswer \/ FailToConvert
  PROVE  QueryInv' /\ ViewInv'
<1>1. Rendering /\ (Show("ok") \/ End("failed"))
  BY DEF RenderSelf, FailToMap, ShowAnswer, FailToConvert, MappingFails, ConversionEnds
<1>2. CASE RenderSelf \/ FailToMap
  <2>1. qpc = "idle"
    BY <1>2 DEF RenderSelf, FailToMap, Rendering, TypeInv, ViewInv
  <2>2. UNCHANGED answerVars
    BY <1>2 DEF RenderSelf, FailToMap, queryVars, NoQuery
  <2>3. QueryInv'
    BY <2>2 DEF answerVars, TypeInv, QueryInv, IsQuery
  <2> QED
    BY <1>1, <2>1, <2>2, <2>3, ShowOrEndTypes DEF answerVars, TypeInv
<1>3. CASE ShowAnswer \/ FailToConvert
  <2>1. Forget
    BY <1>3 DEF ShowAnswer, FailToConvert
  <2> QED
    BY <1>1, <2>1, ForgetTypes, ShowOrEndTypes DEF Forget, TypeInv
<1> QED
  BY <1>2, <1>3

LEMMA FailToFindTypes == ASSUME TypeInv, FailToFind PROVE QueryInv' /\ ViewInv'
<1>1. UNCHANGED <<answerVars, created>> /\ End("failed") /\ vpc = "source"
  BY DEF FailToFind, NoQuery
<1>2. QueryInv'
  BY <1>1 DEF answerVars, TypeInv, QueryInv, IsQuery
<1>3. ViewInv'
  BY <1>1 DEF answerVars, End, TypeInv, ViewInv
<1> QED
  BY <1>2, <1>3

LEMMA ReturnTypes == ASSUME TypeInv, Return PROVE QueryInv' /\ ViewInv'
<1>1. QueryInv'
  BY ForgetTypes DEF Return
<1>2. ViewInv'
  BY DEF Return, Forget, ViewInv
<1> QED
  BY <1>1, <1>2

\* The world is as it was for all steps but those around the request, and the
\* mapper is only used.
LEMMA WorldTypes ==
  ASSUME TypeInv, [PageNext]_pageVars, ~Meanwhile, ~SyncMeanwhile
  PROVE  /\ UNCHANGED worldVars /\ WorldInv'
         /\ Lookup \/ (Return /\ UNCHANGED mapped /\ lacked' = Kind \ mapped)
<1>1. /\ UNCHANGED worldVars /\ created' \in {created, created + 1, 0}
      /\ Lookup \/ (Return /\ UNCHANGED mapped /\ lacked' = Kind \ mapped)
  <2> USE DEF Lookup, queryVars
  <2>1. CASE Execute \/ RequestFails
    BY <2>1, LookupSteps
    DEF Execute, Resolve, Resolved, MapTarget, Expand, Expanded, MapSource, ReadSource, CreateAnswer,
        RequestFails
  <2>2. ASSUME NEW r, Query(r) \/ Begin(r)
        PROVE  UNCHANGED worldVars /\ UNCHANGED created /\ Lookup
    BY <2>2, LookupSteps DEF Query, ExecQuery, Begin
  <2>3. CASE RenderConnection
    BY <2>3, LookupSteps DEF RenderConnection
  <2>4. CASE \/ FindSource \/ LoadLayout \/ RenderSelf \/ ShowAnswer \/ Rendered \/ Return
             \/ FailToFind \/ FailToMap \/ FailToConvert \/ UNCHANGED pageVars
    BY <2>4 DEF FindSource, LoadLayout, RenderSelf, ShowAnswer, Rendered, Return,
                FailToFind, FailToMap, FailToConvert, pageVars
  <2> QED
    BY <2>1, <2>2, <2>3, <2>4 DEF PageNext, Render, RenderLayout, RenderPageBlock
<1>2. ClientTypeOK' /\ (Kind \ mapped \subseteq lacked)'
  BY <1>1, LookupTypes DEF worldVars, TypeInv, WorldInv
<1> QED
  BY <1>1, <1>2 DEF worldVars, graphVars, TypeInv, WorldInv, TypeOK

\* So do all steps.
LEMMA StepTypes == TypeInv /\ [PageNext]_pageVars => TypeInv'
<1> SUFFICES ASSUME TypeInv, [PageNext]_pageVars PROVE TypeInv'
  OBVIOUS
<1>1. CASE Meanwhile \/ SyncMeanwhile
  BY <1>1, AroundTypes
<1>2. CASE ~Meanwhile /\ ~SyncMeanwhile
  <2> SUFFICES QueryInv' /\ ViewInv'
    BY <1>2, WorldTypes DEF TypeInv
  <2>1. CASE (\E r \in Views : RenderLayout(r)) \/ (\E r \in Blocks : RenderPageBlock(r))
    <3>1. UNCHANGED answerVars
      BY <2>1 DEF RenderLayout, RenderPageBlock, Begin
    <3>2. QueryInv'
      BY <3>1 DEF answerVars, TypeInv, QueryInv, IsQuery
    <3> QED
      BY <2>1, <3>2, RequestTypes DEF TypeInv
  <2>2. ASSUME NEW r \in Queries, Query(r) PROVE QueryInv' /\ ViewInv'
    BY <2>2, QueryCallTypes
  <2>3. CASE LoadLayout
    <3>1. UNCHANGED answerVars
      BY <2>3 DEF LoadLayout, queryVars
    <3>2. QueryInv'
      BY <3>1 DEF answerVars, TypeInv, QueryInv, IsQuery
    <3> QED
      BY <2>3, <3>2, LoadLayoutTypes DEF TypeInv
  <2>10. CASE FindSource
    <3>1. UNCHANGED answerVars
      BY <2>10 DEF FindSource, queryVars
    <3>2. QueryInv'
      BY <3>1 DEF answerVars, TypeInv, QueryInv, IsQuery
    <3> QED
      BY <2>10, <3>2, FindSourceTypes DEF TypeInv
  <2>11. CASE FailToFind
    BY <2>11, FailToFindTypes
  <2>4. CASE RenderConnection
    BY <2>4, RenderConnectionTypes
  <2>5. CASE RenderSelf \/ FailToMap \/ ShowAnswer \/ FailToConvert
    BY <2>5, BlockTypes
  <2>6. CASE Rendered
    <3>1. UNCHANGED <<answerVars, created, view, left, shown>> /\ vpc' = "done" /\ result' = "ok" /\ vpc = "render"
          /\ left = <<>>
      BY <2>6 DEF Rendered, End, queryVars
    <3>2. QueryInv'
      BY <3>1 DEF answerVars, TypeInv, QueryInv, IsQuery
    <3>3. ViewInv'
      BY <3>1 DEF answerVars, TypeInv, ViewInv
    <3> QED
      BY <3>2, <3>3
  <2>7. CASE Return
    BY <2>7, ReturnTypes
  <2>8. CASE (Execute \/ RequestFails) /\ UNCHANGED viewVars
    BY <2>8, QueryStepTypes
  <2>9. CASE UNCHANGED pageVars
    BY <2>9 DEF pageVars, queryVars, answerVars, viewVars, TypeInv, QueryInv, IsQuery, ViewInv
  <2> QED
    BY <1>2, <2>1, <2>2, <2>3, <2>4, <2>5, <2>6, <2>7, <2>8, <2>9, <2>10, <2>11
    DEF PageNext, Render
<1> QED
  BY <1>1, <1>2

LEMMA AlwaysTypes == PageSpec => []TypeInv
BY InitTypes, StepTypes, PTL DEF PageSpec

\* Type correctness of pages and queries: what is in the tree and among the
\* references are objects and their keys, the query that runs is the one of the
\* block that is rendered, and nothing is left of one when it has returned.
THEOREM PageTypeCorrect == PageSpec => []PageTypeOK
BY AlwaysTypes, TypeInvTypes, PTL

-----------------------------------------------------------------------------
(***************************************************************************)
(* Completeness of views: what is shown and what is left are, one after    *)
(* the other, the blocks that were asked for.                              *)
(***************************************************************************)

ProgressInv ==
  vpc = "render" =>
    /\ Len(shown) + Len(left) = Len(Chosen(view))
    /\ \A i \in 1..Len(shown) : shown[i].block = Chosen(view)[i]
    /\ \A i \in 1..Len(left) : left[i] = Chosen(view)[Len(shown) + i]
    /\ Chosen(view) \in Seq(LayoutBlocks)

CompleteInv == ProgressInv /\ ViewComplete

\* Nothing happens to the view.
LEMMA IdleComplete ==
  ASSUME CompleteInv, UNCHANGED <<view, vpc, left, shown, result>> PROVE CompleteInv'
BY DEF CompleteInv, ProgressInv, ViewComplete

LEMMA ShowComplete ==
  ASSUME TypeInv, CompleteInv, Rendering, NEW how \in {"ok", "missing"}, Show(how) PROVE CompleteInv'
<1> DEFINE C == Chosen(view)
           e == [block |-> Head(left), result |-> how]
<1>1. /\ left \in Seq(LayoutBlocks) /\ left # <<>> /\ shown \in Seq(Shows) /\ e \in Shows
      /\ vpc = "render" /\ result = "none"
  BY HeadTypes DEF TypeInv, ViewInv, Rendering, Shows
<1>2. /\ Len(shown) + Len(left) = Len(C)
      /\ \A i \in 1..Len(shown) : shown[i].block = C[i]
      /\ \A i \in 1..Len(left) : left[i] = C[Len(shown) + i]
      /\ C \in Seq(LayoutBlocks)
  BY <1>1 DEF CompleteInv, ProgressInv
<1>3. shown' = Append(shown, e) /\ left' = Tail(left) /\ UNCHANGED <<view, vpc, result>>
  BY DEF Show
<1>4. e.block = left[1]
  BY <1>1
<1> HIDE DEF e, C
<1>5. /\ Len(shown') = Len(shown) + 1
      /\ \A i \in 1..Len(shown) : shown'[i] = shown[i]
      /\ shown'[Len(shown) + 1] = e
  BY <1>1, <1>3, AppendProperties
<1>6. /\ Len(left') = Len(left) - 1 /\ Len(left) \in Nat \ {0}
      /\ \A i \in 1..Len(left') : left'[i] = left[i + 1]
  BY <1>1, <1>3
<1>7. Len(shown) \in Nat
  BY <1>1
<1>8. Len(shown') + Len(left') = Len(C)
  <2>1. /\ Len(shown) + Len(left) = Len(C) /\ Len(shown') = Len(shown) + 1
        /\ Len(left') = Len(left) - 1 /\ Len(left) \in Nat
    BY <1>2, <1>5, <1>6
  <2> QED
    BY <1>7, <2>1
<1>9. ASSUME NEW i \in 1..Len(shown') PROVE shown'[i].block = C[i]
  <2>1. CASE i \in 1..Len(shown)
    BY <1>2, <1>5, <2>1
  <2>2. CASE i = Len(shown) + 1
    BY <1>2, <1>4, <1>5, <1>6, <1>7, <2>2
  <2> QED
    BY <1>5, <1>7, <2>1, <2>2
<1>10. ASSUME NEW i \in 1..Len(left') PROVE left'[i] = C[Len(shown') + i]
  <2>1. i + 1 \in 1..Len(left) /\ Len(shown) + (i + 1) = Len(shown') + i
    BY <1>5, <1>6, <1>7
  <2> QED
    BY <1>2, <1>6, <2>1
<1> QED
  BY <1>1, <1>2, <1>3, <1>8, <1>9, <1>10 DEF CompleteInv, ProgressInv, ViewComplete, C

LEMMA StepComplete == TypeInv /\ CompleteInv /\ [PageNext]_pageVars => CompleteInv'
<1> SUFFICES ASSUME TypeInv, CompleteInv, [PageNext]_pageVars PROVE CompleteInv'
  OBVIOUS
<1>1. CASE UNCHANGED <<view, vpc, left, shown, result>>
  BY <1>1, IdleComplete
<1>2. ASSUME NEW r, Begin(r) PROVE CompleteInv'
  BY <1>2 DEF Begin, TypeInv, ViewInv, CompleteInv, ProgressInv, ViewComplete
<1>3. CASE FindSource
  BY <1>1, <1>3 DEF FindSource, End, CompleteInv, ProgressInv, ViewComplete
<1>4. CASE LoadLayout
  <2>1. CASE view.layout = NoLayout
    BY <1>4, <2>1 DEF LoadLayout, End, CompleteInv, ProgressInv, ViewComplete
  <2>2. CASE view.layout # NoLayout
    <3>1. Chosen(view) \in Seq(LayoutBlocks)
      BY <1>4, <2>2, ChosenBlocks DEF LoadLayout, TypeInv, ViewInv
    <3>2. /\ left' = Chosen(view) /\ view' = view /\ shown' = <<>> /\ result' = "none"
      BY <1>4, <2>2 DEF LoadLayout, TypeInv, ViewInv
    <3> QED
      BY <3>1, <3>2 DEF CompleteInv, ProgressInv, ViewComplete
  <2> QED
    BY <2>1, <2>2
<1>5. CASE Rendering /\ (Show("ok") \/ Show("missing"))
  BY <1>5, ShowComplete
<1>6. CASE End("failed")
  BY <1>6 DEF End, CompleteInv, ProgressInv, ViewComplete
<1>7. CASE Rendered
  <2>1. /\ shown \in Seq(Shows) /\ Chosen(view) \in Seq(LayoutBlocks) /\ Len(shown) = Len(Chosen(view))
        /\ \A i \in 1..Len(shown) : shown[i].block = Chosen(view)[i]
    BY <1>7 DEF Rendered, CompleteInv, ProgressInv, TypeInv, ViewInv
  <2>2. [i \in DOMAIN shown |-> shown[i].block] = Chosen(view)
    BY <2>1
  <2> QED
    BY <1>7, <2>2 DEF Rendered, End, CompleteInv, ProgressInv, ViewComplete
<1>8. CASE Return
  BY <1>8 DEF Return, CompleteInv, ProgressInv, ViewComplete
<1> QED
  BY <1>1, <1>2, <1>3, <1>4, <1>5, <1>6, <1>7, <1>8
  DEF PageNext, Render, Query, RenderLayout, RenderPageBlock, RenderSelf, RenderConnection, ShowAnswer,
      FailToFind, FailToMap, FailToConvert, MappingFails, ConversionEnds, Meanwhile, SyncMeanwhile,
      pageVars, viewVars

\* A view that is returned has every block that was asked for, in the order of
\* the layout, for every layout and whatever fails or changes on the way.
THEOREM ViewsComplete == PageSpec => []ViewComplete
<1>1. PageInit => CompleteInv
  BY DEF PageInit, CompleteInv, ProgressInv, ViewComplete
<1> QED
  BY <1>1, StepComplete, AlwaysTypes, PTL DEF PageSpec, CompleteInv

-----------------------------------------------------------------------------
(***************************************************************************)
(* Creations.  While a block is rendered, what is created beyond the REST  *)
(* blocks shown depends on how far the block's query is.                   *)
(***************************************************************************)

Extra == created - Cardinality(RestShown)

\* The most that a rendering that goes on, or has failed, may have created.
Pending == IF left # <<>> /\ IsRest(Head(left)) THEN {0, 1} ELSE {0}

CreationInv ==
  /\ IsFiniteSet(RestShown)
  /\ vpc \in {"source", "load"} => Extra = 0
  /\ vpc = "render" /\ qpc \notin {"done"} => Extra = 0
  /\ vpc = "render" /\ qpc = "done" /\ reply = "ok" => Extra = IF IsRest(Head(left)) THEN 1 ELSE 0
  /\ vpc = "render" => Extra \in Pending
  /\ vpc = "done" => Extra \in (IF result = "ok" THEN {0} ELSE Pending)

LEMMA CreationsFollow == TypeInv /\ CreationInv => CreationsAccounted
<1> SUFFICES ASSUME TypeInv, CreationInv, vpc # "idle"
             PROVE  /\ Extra \in {0, 1}
                    /\ Extra = 1 => left # <<>> /\ IsRest(Head(left)) /\ result # "ok"
  BY DEF CreationsAccounted, Extra
<1>1. CASE vpc \in {"source", "load"}
  BY <1>1 DEF CreationInv
<1>2. CASE vpc = "render"
  <2>1. Extra \in Pending /\ result = "none"
    BY <1>2 DEF CreationInv, TypeInv, ViewInv
  <2> QED
    BY <2>1 DEF Pending
<1>3. CASE vpc = "done"
  <2>1. Extra \in (IF result = "ok" THEN {0} ELSE Pending)
    BY <1>3 DEF CreationInv
  <2> QED
    BY <2>1 DEF Pending
<1> QED
  BY <1>1, <1>2, <1>3 DEF TypeInv, ViewInv

\* A block that is shown counts if it is a REST block and not missing.
LEMMA ShowCounts ==
  ASSUME TypeInv, CreationInv, Rendering, NEW how \in {"ok", "missing"}, Show(how)
  PROVE  /\ IsFiniteSet(RestShown')
         /\ Cardinality(RestShown') =
              Cardinality(RestShown) + (IF how = "ok" /\ IsRest(Head(left)) THEN 1 ELSE 0)
         /\ Cardinality(RestShown) \in Nat
<1> DEFINE e == [block |-> Head(left), result |-> how]
           n == Len(shown) + 1
<1>1. shown \in Seq(Shows) /\ e \in Shows /\ shown' = Append(shown, e)
  BY HeadTypes DEF Show, TypeInv, ViewInv, Shows
<1>2. e.block = Head(left) /\ e.result = how
  OBVIOUS
<1> HIDE DEF e
<1>3. /\ Len(shown) \in Nat /\ DOMAIN shown = 1..Len(shown) /\ DOMAIN shown' = 1..n
      /\ \A i \in 1..Len(shown) : shown'[i] = shown[i]
      /\ shown'[n] = e
  <2>1. Len(shown) \in Nat /\ shown' \in Seq(Shows) /\ Len(shown') = n
    BY <1>1, AppendProperties
  <2> QED
    BY <1>1, <2>1, AppendProperties
<1>4. n \notin RestShown /\ n \in 1..n
  BY <1>3 DEF RestShown
<1>5. RestShown' = RestShown \cup (IF how = "ok" /\ IsRest(Head(left)) THEN {n} ELSE {})
  <2>1. \A i \in 1..n : i = n \/ i \in 1..Len(shown)
    BY <1>3
  <2>2. RestShown' = {i \in 1..n : shown'[i].result = "ok" /\ IsRest(shown'[i].block)}
    BY <1>3 DEF RestShown
  <2>3. RestShown = {i \in 1..Len(shown) : shown[i].result = "ok" /\ IsRest(shown[i].block)}
    BY <1>3 DEF RestShown
  <2>4. \A i \in 1..Len(shown) : i \in 1..n /\ i # n
    BY <1>3
  <2> HIDE DEF n
  <2> QED
    BY <1>2, <1>3, <1>4, <2>1, <2>2, <2>3, <2>4
<1>6. IsFiniteSet(RestShown) /\ Cardinality(RestShown) \in Nat
  BY FS_CardinalityType DEF CreationInv
<1>7. CASE how = "ok" /\ IsRest(Head(left))
  <2>1. IsFiniteSet(RestShown \cup {n}) /\ Cardinality(RestShown \cup {n}) = Cardinality(RestShown) + 1
    BY <1>4, <1>6, FS_AddElement
  <2> QED
    BY <1>5, <1>6, <1>7, <2>1
<1>8. CASE ~(how = "ok" /\ IsRest(Head(left)))
  <2>1. RestShown' = RestShown
    BY <1>5, <1>8
  <2> QED
    BY <1>6, <1>8, <2>1
<1> QED
  BY <1>7, <1>8

\* Nothing is shown and nothing created.
LEMMA NothingShown ==
  /\ shown = <<>> => RestShown = {} /\ IsFiniteSet(RestShown) /\ Cardinality(RestShown) = 0
  /\ shown' = <<>> => RestShown' = {} /\ IsFiniteSet(RestShown') /\ Cardinality(RestShown') = 0
<1>1. shown = <<>> => RestShown = {}
  BY DEF RestShown
<1>2. shown' = <<>> => RestShown' = {}
  BY DEF RestShown
<1>3. IsFiniteSet({}) /\ Cardinality({}) = 0
  BY FS_EmptySet
<1> QED
  BY <1>1, <1>2, <1>3, Zenon

\* What is the same as before, if what counts is.
LEMMA SameCount ==
  ASSUME UNCHANGED <<created, left, shown>>
  PROVE  RestShown' = RestShown /\ Extra' = Extra /\ Pending' = Pending
BY DEF RestShown, Extra, Pending, IsRest

LEMMA ShowCreations ==
  ASSUME TypeInv, CreationInv, Rendering, UNCHANGED created, qpc' = "idle",
         NEW how \in {"ok", "missing"}, Show(how),
         Extra = IF how = "ok" /\ IsRest(Head(left)) THEN 1 ELSE 0
  PROVE  CreationInv'
<1>1. /\ IsFiniteSet(RestShown') /\ Cardinality(RestShown) \in Nat
      /\ Cardinality(RestShown') =
           Cardinality(RestShown) + (IF how = "ok" /\ IsRest(Head(left)) THEN 1 ELSE 0)
  BY ShowCounts
<1>2. created \in Nat
  BY DEF TypeInv, WorldInv
<1>3. Extra' = 0
  BY <1>1, <1>2 DEF Extra
<1>4. vpc' = "render"
  BY DEF Show, Rendering
<1> QED
  BY <1>1, <1>3, <1>4 DEF CreationInv, Pending

\* A step of a query creates an object only if it is the query of a REST block.
LEMMA QueryStepCreations ==
  ASSUME TypeInv, CreationInv, Execute \/ RequestFails, UNCHANGED viewVars PROVE CreationInv'
<1>1. UNCHANGED <<left, shown, vpc, result>> /\ RestShown' = RestShown /\ Pending' = Pending
  BY DEF viewVars, RestShown, Pending, IsRest
<1>2. qpc # "idle" /\ qpc # "done" /\ UNCHANGED query
  BY DEF Execute, Resolve, Resolved, MapTarget, Expand, Expanded, MapSource, ReadSource, CreateAnswer,
         RequestFails, Done
<1>3. vpc \in {"idle", "render"}
  BY <1>2 DEF TypeInv, ViewInv
<1>4. CASE vpc = "idle"
  BY <1>1, <1>4 DEF CreationInv
<1>5. CASE vpc = "render"
  <2>1. /\ Extra = 0 /\ created \in Nat /\ IsFiniteSet(RestShown) /\ left # <<>>
        /\ IsRest(Head(left)) <=> query.type = "rest"
    BY <1>2, <1>5 DEF CreationInv, TypeInv, WorldInv, ViewInv, IsRest
  <2>2. Cardinality(RestShown) \in Nat
    BY <2>1, FS_CardinalityType
  <2>3. CASE created' = created /\ (qpc' = "done" /\ reply' = "ok" => query.type = "graphql")
    <3>1. Extra' = 0
      BY <1>1, <2>1, <2>3 DEF Extra
    <3>2. query.type = "graphql" => ~IsRest(Head(left))
      BY <2>1
    <3> QED
      BY <1>1, <1>5, <2>1, <2>3, <3>1, <3>2 DEF CreationInv, Pending, IsRest
  <2>4. CASE created' = created + 1 /\ qpc = "create" /\ qpc' = "done"
    <3>1. IsRest(Head(left))
      BY <2>1, <2>4 DEF TypeInv, QueryInv
    <3>2. Extra' = 1
      BY <1>1, <2>1, <2>2, <2>4 DEF Extra
    <3> QED
      BY <1>1, <1>5, <2>1, <2>4, <3>1, <3>2 DEF CreationInv, Pending, IsRest
  <2>5. ASSUME NEW p \in todo, Resolve(p) PROVE created' = created /\ query.type = "graphql"
    BY <2>5 DEF Resolve, TypeInv, QueryInv
  <2>6. CASE Resolved \/ MapTarget \/ Expanded \/ (\E ref \in unread : Expand(ref))
    <3>1. created' = created /\ query.type = "graphql"
      BY <2>6 DEF Resolved, MapTarget, Expanded, Expand, TypeInv, QueryInv
    <3> QED
      BY <2>3, <3>1
  <2>7. CASE CreateAnswer
    BY <2>3, <2>4, <2>7 DEF CreateAnswer, Done
  <2>9. CASE MapSource \/ ReadSource
    BY <2>3, <2>9 DEF MapSource, ReadSource, Done
  <2>8. CASE RequestFails
    BY <2>3, <2>4, <2>8 DEF RequestFails, Done
  <2> QED
    BY <2>3, <2>5, <2>6, <2>7, <2>8, <2>9 DEF Execute
<1> QED
  BY <1>3, <1>4, <1>5

LEMMA StepCreations == TypeInv /\ CreationInv /\ [PageNext]_pageVars => CreationInv'
<1> SUFFICES ASSUME TypeInv, CreationInv, [PageNext]_pageVars PROVE CreationInv'
  OBVIOUS
<1>1. CASE UNCHANGED <<created, vpc, left, shown, result, qpc, reply>>
  <2>1. RestShown' = RestShown /\ Extra' = Extra /\ Pending' = Pending
    BY <1>1, SameCount
  <2> QED
    BY <1>1, <2>1 DEF CreationInv, IsRest
<1>2. CASE vpc \in {"idle", "source", "load"} /\ qpc = "idle" /\ UNCHANGED <<created, qpc, shown>>
  <2>1. shown' = <<>> /\ created' = 0
    BY <1>2 DEF TypeInv, ViewInv
  <2>2. IsFiniteSet(RestShown') /\ Extra' = 0 /\ Extra' \in Pending' /\ Extra' \in {0}
    BY <2>1, NothingShown DEF Extra, Pending
  <2> QED
    BY <1>2, <2>2 DEF CreationInv
<1>3. CASE vpc = "render" /\ End("failed") /\ UNCHANGED created
  <2>1. RestShown' = RestShown /\ Extra' = Extra /\ Pending' = Pending
    BY <1>3, SameCount DEF End
  <2> QED
    BY <1>3, <2>1 DEF CreationInv, End
<1>4. CASE RenderSelf
  <2>1. /\ Rendering /\ ~IsRest(Head(left)) /\ qpc = "idle" /\ qpc' = "idle" /\ UNCHANGED created
        /\ Show("ok") \/ End("failed")
    BY <1>4 DEF RenderSelf, IsRest, queryVars, answerVars, TypeInv, ViewInv, Rendering
  <2>2. Extra = 0 /\ vpc = "render"
    BY <2>1 DEF CreationInv, Rendering
  <2> QED
    BY <1>3, <2>1, <2>2, ShowCreations
<1>5. CASE RenderConnection
  <2>1. Rendering /\ qpc = "idle" /\ UNCHANGED created /\ vpc = "render"
    BY <1>5 DEF RenderConnection, Rendering
  <2>2. Extra = 0
    BY <2>1 DEF CreationInv
  <2>3. CASE Show("missing") /\ NoQuery
    BY <2>1, <2>2, <2>3, ShowCreations DEF NoQuery, answerVars
  <2>4. CASE qpc' \in {"resolve", "create", "template"} /\ UNCHANGED viewVars
    <3>1. RestShown' = RestShown /\ Extra' = Extra /\ Pending' = Pending
      BY <2>1, <2>4, SameCount DEF viewVars
    <3> QED
      BY <2>1, <2>2, <2>4, <3>1 DEF CreationInv, viewVars
  <2> QED
    BY <1>5, <2>3, <2>4 DEF RenderConnection, Starts
<1>6. CASE ShowAnswer
  <2>1. Rendering /\ qpc = "done" /\ qpc' = "idle" /\ UNCHANGED created /\ vpc = "render"
    BY <1>6 DEF ShowAnswer, Rendering, Forget
  <2>2. CASE reply = "ok"
    <3>1. Extra = IF IsRest(Head(left)) THEN 1 ELSE 0
      BY <2>1, <2>2 DEF CreationInv
    <3> QED
      BY <1>6, <2>1, <2>2, <3>1, ShowCreations DEF ShowAnswer
  <2>3. CASE reply # "ok"
    BY <1>3, <1>6, <2>1, <2>3 DEF ShowAnswer
  <2> QED
    BY <2>2, <2>3
<1>7. CASE Rendered
  <2>1. UNCHANGED <<created, left, shown>> /\ left = <<>> /\ vpc = "render"
    BY <1>7 DEF Rendered, End, queryVars
  <2>2. RestShown' = RestShown /\ Extra' = Extra /\ Extra = 0
    BY <2>1, SameCount DEF CreationInv, Pending
  <2> QED
    BY <1>7, <2>2 DEF CreationInv, Rendered, End
<1>8. CASE Return
  BY <1>8, NothingShown DEF Return, CreationInv
<1>9. CASE (Execute \/ RequestFails) /\ UNCHANGED viewVars
  BY <1>9, QueryStepCreations
<1>10. CASE \E r \in Queries : Query(r)
  <2>1. vpc = "idle" /\ vpc' = "idle" /\ shown' = shown
    BY <1>10 DEF Query, viewVars
  <2>2. RestShown' = RestShown
    BY <2>1 DEF RestShown
  <2> QED
    BY <2>1, <2>2 DEF CreationInv
<1>11. CASE \/ \E r \in Views : RenderLayout(r)
            \/ \E r \in Blocks : RenderPageBlock(r)
            \/ FindSource \/ LoadLayout \/ FailToFind
  <2>1. vpc \in {"idle", "source", "load"} /\ qpc = "idle" /\ UNCHANGED <<created, qpc, shown>>
    BY <1>11 DEF RenderLayout, RenderPageBlock, Begin, FindSource, LoadLayout, FailToFind, NoQuery, End,
                 queryVars, answerVars, TypeInv, ViewInv
  <2> QED
    BY <1>2, <2>1
<1>12. CASE FailToMap \/ FailToConvert
  BY <1>3, <1>12 DEF FailToMap, FailToConvert, MappingFails, ConversionEnds, Rendering
<1>13. CASE Meanwhile \/ SyncMeanwhile
  BY <1>1, <1>13, AroundSteps DEF answerVars, viewVars
<1>14. CASE UNCHANGED pageVars
  BY <1>1, <1>14 DEF pageVars, queryVars, answerVars, viewVars
<1> QED
  BY <1>4, <1>5, <1>6, <1>7, <1>8, <1>9, <1>10, <1>11, <1>12, <1>13, <1>14 DEF PageNext, Render

\* Creations are neither repeated nor made for blocks that are not to be seen:
\* for each REST block shown one, and one at most beyond these.
THEOREM NoStrayCreations == PageSpec => []CreationsAccounted
<1>1. PageInit => CreationInv
  <2> SUFFICES ASSUME PageInit PROVE CreationInv
    OBVIOUS
  <2>1. vpc = "idle" /\ shown = <<>>
    BY DEF PageInit
  <2> QED
    BY <2>1, NothingShown DEF CreationInv
<1> QED
  BY <1>1, StepCreations, AlwaysTypes, CreationsFollow, PTL DEF PageSpec

-----------------------------------------------------------------------------
(***************************************************************************)
(* What is missing.                                                        *)
(***************************************************************************)

LEMMA StepMissing == TypeInv /\ MissingWasMissing /\ [PageNext]_pageVars => MissingWasMissing'
<1> SUFFICES ASSUME TypeInv, MissingWasMissing, [PageNext]_pageVars PROVE MissingWasMissing'
  OBVIOUS
\* The mapper may be loaded anew, and what it lacked is remembered.
<1>1. Return \/ lacked \subseteq lacked'
  <2>1. CASE Meanwhile \/ SyncMeanwhile
    <3>1. Around
      BY <2>1, AroundSteps
    <3> QED
      BY <3>1 DEF Around, World, UpdateGraph, CreateOrDelete, Serve, LookupElsewhere, Catch, Sync,
                  Change, InstallOrRemove, Deliver, SyncInformer, Reload, mapperVars
  <2>2. CASE ~Meanwhile /\ ~SyncMeanwhile
    BY <2>2, WorldTypes DEF Lookup, Reload, mapperVars
  <2> QED
    BY <2>1, <2>2
<1>2. CASE shown' = <<>>
  BY <1>2 DEF MissingWasMissing
<1>3. CASE UNCHANGED shown /\ ~Return
  BY <1>1, <1>3 DEF MissingWasMissing
<1>4. ASSUME Rendering, NEW how \in {"ok", "missing"}, Show(how), lacked \subseteq lacked',
             how = "missing" => Head(left).query.target \in lacked
      PROVE  MissingWasMissing'
  <2> DEFINE e == [block |-> Head(left), result |-> how]
  <2>1. shown \in Seq(Shows) /\ e \in Shows /\ shown' = Append(shown, e)
    BY <1>4, HeadTypes DEF Show, TypeInv, ViewInv, Shows
  <2>2. ASSUME NEW i \in DOMAIN shown', shown'[i].result = "missing"
        PROVE  shown'[i].block.query.target \in lacked'
    <3>1. CASE i \in 1..Len(shown)
      BY <1>4, <2>1, <2>2, <3>1 DEF MissingWasMissing
    <3>2. CASE i = Len(shown) + 1
      <4>1. shown'[i] = e
        BY <2>1, <3>2
      <4> QED
        BY <1>4, <2>2, <4>1
    <3>3. i \in 1..(Len(shown) + 1) /\ Len(shown) \in Nat
      <4> HIDE DEF e
      <4> QED
        BY <2>1, AppendProperties
    <3> QED
      BY <3>1, <3>2, <3>3
  <2> QED
    BY <2>2 DEF MissingWasMissing
<1>5. CASE RenderConnection
  <2> DEFINE b == Head(left)
  <2>1. Rendering /\ b.query \in BlockQueries /\ view.src \in OID
    BY <1>5, HeadTypes DEF RenderConnection, TypeInv
  <2>2. BlockQuery(b).target = b.query.target /\ b.query.target \in Kind
    BY <2>1, BlockQueryTypes
  <2>3. ~Return
    BY <2>1, <1>5 DEF Return, Rendering, RenderConnection
  <2> HIDE DEF b
  <2>4. CASE Lacks(BlockQuery(b).target) /\ Show("missing")
    <3>1. b.query.target \in lacked
      BY <2>2, <2>4 DEF Lacks, TypeInv, WorldInv
    <3> QED
      BY <1>1, <1>4, <2>1, <2>3, <2>4, <3>1 DEF b
  <2>5. CASE UNCHANGED viewVars
    BY <1>3, <2>3, <2>5 DEF viewVars
  <2> QED
    BY <1>5, <2>4, <2>5 DEF RenderConnection, b
<1>6. CASE Return
  BY <1>2, <1>6 DEF Return
<1>7. CASE (RenderSelf \/ ShowAnswer) /\ ~Return
  <2>1. Rendering /\ (Show("ok") \/ End("failed"))
    BY <1>7 DEF RenderSelf, ShowAnswer
  <2>2. CASE Show("ok")
    BY <1>1, <1>4, <1>7, <2>1, <2>2
  <2> QED
    BY <1>3, <1>7, <2>1, <2>2 DEF End
<1>8. CASE UNCHANGED shown \/ Return
  BY <1>3, <1>6, <1>8
<1> QED
  BY <1>5, <1>7, <1>6, <1>8
  DEF PageNext, Render, Query, RenderLayout, RenderPageBlock, Begin, FindSource, LoadLayout, Rendered,
      FailToFind, FailToMap, FailToConvert, MappingFails, ConversionEnds, End, Meanwhile, SyncMeanwhile,
      pageVars, viewVars

\* A block is shown as missing only if the mapper did not know its kind at some
\* time during the rendering, however it is loaded and whatever it loses.
THEOREM NothingMissingByMistake == PageSpec => []MissingWasMissing
<1>1. PageInit => MissingWasMissing
  BY DEF PageInit, MissingWasMissing
<1> QED
  BY <1>1, StepMissing, AlwaysTypes, PTL DEF PageSpec

-----------------------------------------------------------------------------
(***************************************************************************)
(* What a query of several hops finds, while the graph changes.            *)
(***************************************************************************)

\* What any step means for a query: it is left alone, the world changes, it
\* begins, goes on, fails or is put away.
Quiet == UNCHANGED <<worldVars, answerVars, historyVars>>

Begins(r) ==
  /\ qpc = "idle" /\ IsQuery(r)
  /\ \E at \in IF r.type = "graphql" THEN {"resolve"} ELSE {"template", "create"} : Starts(r, at)
  /\ StartHistory
  /\ UNCHANGED worldVars

Fails == qpc' = "done" /\ reply' = "failed" /\ UNCHANGED worldVars

LEMMA QuerySteps ==
  ASSUME TypeInv, [PageNext]_pageVars
  PROVE  \/ Quiet \/ Fails \/ qpc' = "idle"
         \/ Around /\ UNCHANGED answerVars
         \/ \E r : Begins(r)
         \/ Execute
<1>1. CASE \E r \in Queries : Query(r)
  <2>1. PICK r \in Queries : Query(r)
    BY <1>1
  <2>2. IsQuery(r)
    BY PageAssumption
  <2>3. Fails \/ Begins(r)
    BY <2>1, <2>2 DEF Query, ExecQuery, Fails, Begins, IsQuery
  <2> QED
    BY <2>3
<1>2. CASE RenderConnection
  <2> DEFINE b == Head(left)
             q == BlockQuery(b)
  <2>1. b.query \in BlockQueries /\ view.src \in OID /\ qpc = "idle"
    BY <1>2, HeadTypes DEF RenderConnection, TypeInv
  <2>2. IsQuery(q)
    BY <2>1, BlockQueryTypes
  <2> HIDE DEF b
  <2>3. \/ NoQuery /\ UNCHANGED worldVars
        \/ Begins(q)
    BY <1>2, <2>1, <2>2 DEF RenderConnection, Begins, b, IsQuery
  <2>4. NoQuery /\ UNCHANGED worldVars => Quiet
    BY DEF NoQuery, Quiet
  <2> QED
    BY <2>3, <2>4
<1>3. CASE ShowAnswer \/ FailToConvert \/ Return
  BY <1>3 DEF ShowAnswer, FailToConvert, Return, Forget
<1>4. CASE RequestFails
  BY <1>4 DEF RequestFails, Done, Fails
<1>5. CASE \/ \E r \in Views : RenderLayout(r)
           \/ \E r \in Blocks : RenderPageBlock(r)
           \/ FindSource \/ LoadLayout \/ RenderSelf \/ Rendered \/ FailToFind \/ FailToMap
           \/ UNCHANGED pageVars
  <2>1. UNCHANGED <<worldVars, answerVars, historyVars>>
    BY <1>5 DEF RenderLayout, RenderPageBlock, Begin, FindSource, LoadLayout, RenderSelf, Rendered,
                FailToFind, FailToMap, NoQuery, pageVars, queryVars
  <2> QED
    BY <2>1 DEF Quiet
<1>6. CASE Meanwhile \/ SyncMeanwhile
  BY <1>6, AroundSteps
<1> QED
  BY <1>1, <1>2, <1>3, <1>4, <1>5, <1>6 DEF PageNext, Render

\* What is linked depends on the edges alone, and what the hops mean on the query.
LEMMA SameLinks == ASSUME UNCHANGED edges PROVE LinkedNow' = LinkedNow
BY DEF LinkedNow, Links, Reach

LEMMA SameSight == ASSUME UNCHANGED worldVars PROVE InSight' = InSight
BY DEF InSight, Sight, worldVars, informerVars

LEMMA SameHops ==
  ASSUME UNCHANGED query
  PROVE  /\ \A rel : Levels(rel)' = Levels(rel)
         /\ \A i, rel, S : Step(i, rel, S)' = Step(i, rel, S)
BY DEF Levels, Step, Wanted

\* The history is what it is meant to be: what is linked now was linked at some
\* time, what always was is, and so for the objects in sight.
HistoryInv ==
  Running => /\ always \subseteq LinkedNow /\ LinkedNow \subseteq ever
             /\ present \subseteq InSight /\ gone \cap InSight = {}

LEMMA AroundHistory ==
  ASSUME Around
  PROVE  /\ ever \subseteq ever' /\ always' \subseteq always
         /\ present' \subseteq present /\ gone' \subseteq gone
<1>1. RememberLinks \/ RememberSight \/ UNCHANGED historyVars
  BY DEF Around, World, UpdateGraph, CreateOrDelete, Serve, LookupElsewhere, Catch, Sync
<1> QED
  BY <1>1 DEF RememberLinks, RememberSight, historyVars

LEMMA StepHistory == TypeInv /\ HistoryInv /\ [PageNext]_pageVars => HistoryInv'
<1> SUFFICES ASSUME TypeInv, HistoryInv, [PageNext]_pageVars PROVE HistoryInv'
  OBVIOUS
<1>1. CASE UNCHANGED <<worldVars, historyVars>> /\ (Running' => Running)
  <2>1. LinkedNow' = LinkedNow /\ InSight' = InSight
    BY <1>1, SameLinks, SameSight DEF worldVars, graphVars
  <2> QED
    BY <1>1, <2>1 DEF HistoryInv, historyVars
<1>2. CASE Quiet
  BY <1>1, <1>2 DEF Quiet, answerVars, Running
<1>3. CASE Fails \/ qpc' = "idle"
  BY <1>3 DEF HistoryInv, Fails, Running
<1>4. CASE Around /\ UNCHANGED answerVars
  <2>1. Running' = Running
    BY <1>4 DEF answerVars, Running
  <2>2. CASE RememberSight /\ UNCHANGED graphVars
    <3>1. LinkedNow' = LinkedNow
      BY <2>2, SameLinks DEF graphVars
    <3> QED
      BY <2>1, <2>2, <3>1 DEF RememberSight, HistoryInv
  <2>3. CASE RememberLinks /\ UNCHANGED <<cluster, served, informerVars>>
    <3>1. InSight' = InSight
      BY <2>3 DEF InSight, Sight, informerVars
    <3> QED
      BY <2>1, <2>3, <3>1 DEF RememberLinks, HistoryInv
  <2>4. CASE UNCHANGED <<worldVars, historyVars>>
    BY <1>1, <2>1, <2>4
  <2> QED
    BY <1>4, <2>2, <2>3, <2>4
    DEF Around, World, UpdateGraph, CreateOrDelete, Serve, LookupElsewhere, Catch, Sync
<1>5. CASE \E r : Begins(r)
  <2>1. UNCHANGED worldVars /\ StartHistory
    BY <1>5 DEF Begins
  <2>2. LinkedNow' = LinkedNow /\ InSight' = InSight
    BY <2>1, SameLinks, SameSight DEF worldVars, graphVars
  <2> QED
    BY <2>1, <2>2 DEF StartHistory, HistoryInv
<1>6. CASE Execute
  BY <1>1, <1>6 DEF Execute, Resolve, Resolved, MapTarget, Expand, Expanded, MapSource, ReadSource,
                    CreateAnswer, Done, Running
<1> QED
  BY <1>2, <1>3, <1>4, <1>5, <1>6, QuerySteps

\* One set of objects for each hop, and one to begin with.  Such sets are closed
\* if the hops lead from each into the next; and cover what is to be resolved if
\* each branch ends in the set that it has come to.
Keys(S) == {KeyOf[x] : x \in S}

LevelSets == [0..Len(query.hops) -> SUBSET OID]

IsClosed(S, rel) == \A i \in 1..Len(query.hops) : Step(i, rel, S[i - 1]) \subseteq S[i]

Covers(S) == \A p \in todo : p[Len(p)] \in S[Len(p) - 1]

\* Nothing is found, or still to be resolved, but what can be come to; and what
\* can be come to is found or can still be.
NoneBeyond ==
  \A S \in LevelSets :
    IsClosed(S, ever) /\ query.src \in S[0] => Covers(S) /\ refs \subseteq Keys(S[Len(query.hops)])

NoneMissed ==
  \A rel \in SUBSET always : \A S \in LevelSets :
    IsClosed(S, rel) /\ Covers(S) => Keys(Ends(rel)) \subseteq refs \cup Keys(S[Len(query.hops)])

Asking == qpc # "idle" /\ reply # "failed" /\ query.type = "graphql"

ReachedInv ==
  Asking => /\ NoneBeyond /\ NoneMissed
            /\ qpc # "resolve" => todo = {}

\* Where the hops lead are the least sets that are closed and have the source.
LEMMA LevelsClosed ==
  ASSUME query.src \in OID, Len(query.hops) \in Nat, NEW rel
  PROVE  Levels(rel) \in LevelSets /\ IsClosed(Levels(rel), rel) /\ query.src \in Levels(rel)[0]
BY LevelsSteps DEF LevelSets, IsClosed

LEMMA LevelsLeast ==
  ASSUME query.src \in OID, Len(query.hops) \in Nat, NEW rel,
         NEW S \in LevelSets, IsClosed(S, rel), query.src \in S[0]
  PROVE  Ends(rel) \subseteq S[Len(query.hops)]
<1> DEFINE N == Len(query.hops)
           T == {i \in 0..N : Levels(rel)[i] \subseteq S[i]}
<1>1. /\ Levels(rel)[0] = {query.src}
      /\ \A i \in 1..N : Levels(rel)[i] = Step(i, rel, Levels(rel)[i - 1])
  BY LevelsSteps
<1>2. 0 \in T
  BY <1>1
<1>3. ASSUME NEW i \in 1..N, i - 1 \in T PROVE i \in T
  <2>1. Step(i, rel, Levels(rel)[i - 1]) \subseteq Step(i, rel, S[i - 1])
    BY <1>3 DEF Step
  <2>2. Step(i, rel, S[i - 1]) \subseteq S[i]
    BY DEF IsClosed
  <2> QED
    BY <1>1, <2>1, <2>2
<1>4. T \in SUBSET (0..N)
  OBVIOUS
<1>5. T = 0..N
  <2> HIDE DEF T
  <2> QED
    BY <1>2, <1>3, <1>4, IntervalInduction
<1>6. N \in T
  BY <1>5
<1> QED
  BY <1>6 DEF Ends

\* What the resolver of a branch finds.
FoundAt(p) ==
  {y \in Links(p[Len(p)], query.hops[Len(p)].label) : Wanted(query.hops[Len(p)], y)}

\* A branch finds what the hop leads to now: nothing to which it did not lead at
\* some time, and everything to which it always did.
LEMMA FoundBetween ==
  ASSUME TypeInv, HistoryInv, qpc = "resolve", NEW p \in todo
  PROVE  /\ FoundAt(p) \subseteq Step(Len(p), ever, {p[Len(p)]})
         /\ Step(Len(p), always, {p[Len(p)]}) \subseteq FoundAt(p)
<1> DEFINE x == p[Len(p)]
           label == query.hops[Len(p)].label
<1>1. x \in OID /\ label \in EdgeLabel /\ Links(x, label) \subseteq OID
  BY FoundTypes DEF TypeInv
<1>2. always \subseteq LinkedNow /\ LinkedNow \subseteq ever
  BY DEF HistoryInv, Running
<1>3. \A y : <<<<label, x>>, y>> \in LinkedNow <=> y \in Links(x, label)
  <2> HIDE DEF x, label
  <2> QED
    BY <1>1 DEF LinkedNow
<1> QED
  BY <1>1, <1>2, <1>3 DEF FoundAt, Step

\* A branch is resolved: the objects found are the ends of new branches, or
\* their keys references.
Resolves(p) ==
  /\ todo' = (todo \ {p}) \cup (IF IsLast(p) THEN {} ELSE {Append(p, y) : y \in FoundAt(p)})
  /\ refs' = refs \cup (IF IsLast(p) THEN Keys(FoundAt(p)) ELSE {})
  /\ UNCHANGED <<query, qpc, historyVars>>

LEMMA ResolveBeyond ==
  ASSUME TypeInv, HistoryInv, NoneBeyond, qpc = "resolve", NEW p \in todo, Resolves(p)
  PROVE  NoneBeyond'
<1>1. UNCHANGED <<query, ever>>
  BY DEF Resolves, historyVars
<1>2. SUFFICES ASSUME NEW S \in LevelSets, IsClosed(S, ever), query.src \in S[0]
               PROVE  Covers(S)' /\ refs' \subseteq Keys(S[Len(query.hops)])
  <2>1. LevelSets' = LevelSets /\ \A S : IsClosed(S, ever)' = IsClosed(S, ever)
    BY <1>1, SameHops DEF LevelSets, IsClosed
  <2> QED
    BY <1>1, <2>1 DEF NoneBeyond, Keys
<1>3. Covers(S) /\ refs \subseteq Keys(S[Len(query.hops)])
  BY <1>2 DEF NoneBeyond
<1>4. Len(p) \in 1..Len(query.hops) /\ p \in Seq(OID)
  BY FoundTypes DEF TypeInv
<1>5. FoundAt(p) \subseteq S[Len(p)]
  <2>1. Step(Len(p), ever, {p[Len(p)]}) \subseteq Step(Len(p), ever, S[Len(p) - 1])
    BY <1>3 DEF Covers, Step
  <2>2. Step(Len(p), ever, S[Len(p) - 1]) \subseteq S[Len(p)]
    BY <1>2, <1>4 DEF IsClosed
  <2> QED
    BY <2>1, <2>2, FoundBetween
<1>6. ASSUME NEW y \in FoundAt(p), NEW q, q = Append(p, y) PROVE q[Len(q)] \in S[Len(q) - 1]
  <2>1. Len(q) = Len(p) + 1 /\ q[Len(p) + 1] = y
    BY <1>4, <1>6
  <2> QED
    BY <1>4, <1>5, <1>6, <2>1
<1>7. Covers(S)'
  BY <1>3, <1>6 DEF Covers, Resolves
<1>8. refs' \subseteq Keys(S[Len(query.hops)])
  BY <1>3, <1>5 DEF Resolves, Keys, IsLast
<1> QED
  BY <1>7, <1>8

LEMMA ResolveMissed ==
  ASSUME TypeInv, HistoryInv, NoneMissed, qpc = "resolve", NEW p \in todo, Resolves(p)
  PROVE  NoneMissed'
<1> DEFINE k == Len(p)
           x == p[Len(p)]
           N == Len(query.hops)
<1>1. UNCHANGED <<query, always>>
  BY DEF Resolves, historyVars
<1>2. SUFFICES ASSUME NEW rel \in SUBSET always, NEW S \in LevelSets, IsClosed(S, rel), Covers(S)'
               PROVE  Keys(Ends(rel)) \subseteq refs' \cup Keys(S[N])
  <2>1. LevelSets' = LevelSets /\ \A rel, S : IsClosed(S, rel)' = IsClosed(S, rel)
    BY <1>1, SameHops DEF LevelSets, IsClosed
  <2>2. \A rel : Keys(Ends(rel))' = Keys(Ends(rel))
    BY <1>1, SameHops DEF Ends, Keys
  <2> QED
    BY <1>1, <2>1, <2>2 DEF NoneMissed, Keys
<1>3. k \in 1..N /\ N \in Nat /\ p \in Seq(OID) /\ x \in OID /\ FoundAt(p) \subseteq OID
  BY FoundTypes, HopTypes DEF TypeInv, FoundAt
<1>4. Step(k, rel, {x}) \subseteq FoundAt(p)
  <2>1. Step(k, rel, {x}) \subseteq Step(k, always, {x})
    BY <1>2 DEF Step
  <2> QED
    BY <2>1, FoundBetween
\* With the branch, and with what it finds if it is at the last hop, S covers
\* what was to be resolved before.
<1> DEFINE More == [i \in 0..N |-> IF i = k - 1 THEN S[i] \cup {x}
                                   ELSE IF i = N /\ IsLast(p) THEN S[i] \cup FoundAt(p) ELSE S[i]]
<1>5. More \in LevelSets
  BY <1>2, <1>3 DEF LevelSets
<1>6. /\ \A i \in 0..N : S[i] \subseteq More[i]
      /\ More[k - 1] = S[k - 1] \cup {x}
      /\ More[N] = S[N] \cup (IF IsLast(p) THEN FoundAt(p) ELSE {})
      /\ \A i \in 1..N : i # k => More[i - 1] = S[i - 1]
  BY <1>3
<1>7. Covers(More)
  <2>1. ASSUME NEW q \in todo, q # p PROVE q[Len(q)] \in S[Len(q) - 1] /\ Len(q) - 1 \in 0..N
    <3>1. q \in todo'
      BY <2>1 DEF Resolves
    <3>2. Len(q) \in 1..N
      BY FoundTypes DEF TypeInv
    <3> QED
      BY <1>2, <1>3, <3>1, <3>2 DEF Covers
  <2> HIDE DEF More
  <2> QED
    BY <1>6, <2>1 DEF Covers
<1>8. FoundAt(p) \subseteq More[k]
  <2>1. CASE IsLast(p)
    <3> HIDE DEF More
    <3> QED
      BY <1>6, <2>1 DEF IsLast
  <2>2. CASE ~IsLast(p)
    <3>1. ASSUME NEW y \in FoundAt(p) PROVE y \in S[k]
      <4> DEFINE q == Append(p, y)
      <4>1. Len(q) = k + 1 /\ q[k + 1] = y
        BY <1>3
      <4>2. q \in todo'
        BY <2>2 DEF Resolves
      <4> HIDE DEF q
      <4> QED
        BY <1>2, <1>3, <4>1, <4>2 DEF Covers
    <3> HIDE DEF More
    <3> QED
      BY <1>3, <1>6, <3>1
  <2> QED
    BY <2>1, <2>2
<1> HIDE DEF More
<1>9. IsClosed(More, rel)
  <2>1. ASSUME NEW i \in 1..N, i # k PROVE Step(i, rel, More[i - 1]) \subseteq More[i]
    BY <1>2, <1>3, <1>6, <2>1 DEF IsClosed
  <2>2. Step(k, rel, More[k - 1]) \subseteq More[k]
    <3>1. Step(k, rel, More[k - 1]) \subseteq Step(k, rel, S[k - 1]) \cup Step(k, rel, {x})
      BY <1>6 DEF Step
    <3>2. Step(k, rel, S[k - 1]) \subseteq More[k]
      BY <1>2, <1>3, <1>6 DEF IsClosed
    <3> QED
      BY <1>4, <1>8, <3>1, <3>2
  <2> QED
    BY <2>1, <2>2 DEF IsClosed
<1>10. Keys(Ends(rel)) \subseteq refs \cup Keys(More[N])
  BY <1>2, <1>5, <1>7, <1>9 DEF NoneMissed
<1>11. refs \cup Keys(More[N]) \subseteq refs' \cup Keys(S[N])
  BY <1>6 DEF Resolves, Keys
<1> QED
  BY <1>10, <1>11

\* When a query begins, its only branch is its source.
LEMMA BeginsReached ==
  /\ QueryInv /\ Asking /\ todo = {<<query.src>>} /\ refs = {}
  => NoneBeyond /\ NoneMissed
<1> SUFFICES ASSUME QueryInv, Asking, todo = {<<query.src>>}, refs = {}
             PROVE  NoneBeyond /\ NoneMissed
  OBVIOUS
<1>1. query.src \in OID /\ Len(query.hops) \in Nat
  BY HopTypes DEF Asking
<1>2. \A S : Covers(S) <=> query.src \in S[0]
  BY DEF Covers
<1>3. NoneBeyond
  BY <1>2 DEF NoneBeyond
<1>4. NoneMissed
  BY <1>1, <1>2, LevelsLeast DEF NoneMissed, Keys
<1> QED
  BY <1>3, <1>4

LEMMA StepReached ==
  TypeInv /\ TypeInv' /\ HistoryInv /\ ReachedInv /\ [PageNext]_pageVars => ReachedInv'
<1> SUFFICES ASSUME TypeInv, TypeInv', HistoryInv, ReachedInv, [PageNext]_pageVars, Asking'
             PROVE  (NoneBeyond /\ NoneMissed /\ (qpc # "resolve" => todo = {}))'
  BY DEF ReachedInv
\* The history of a query that goes on only grows, and the query is the same.
<1>1. ASSUME Asking, UNCHANGED <<query, todo, refs>>, qpc' = qpc \/ todo = {},
             ever \subseteq ever', always' \subseteq always
      PROVE  (NoneBeyond /\ NoneMissed /\ (qpc # "resolve" => todo = {}))'
  <2>1. /\ LevelSets' = LevelSets
        /\ \A S : IsClosed(S, ever') => IsClosed(S, ever)
    BY <1>1 DEF LevelSets, IsClosed, Step
  <2>2. /\ \A S : IsClosed(S, ever)' = IsClosed(S, ever')
        /\ \A rel, S : IsClosed(S, rel)' = IsClosed(S, rel)
        /\ \A rel : Keys(Ends(rel))' = Keys(Ends(rel))
    BY <1>1, SameHops DEF IsClosed, Ends, Keys
  <2>3. \A S : Covers(S)' = Covers(S) /\ Keys(S)' = Keys(S)
    BY <1>1 DEF Covers, Keys
  <2>4. NoneBeyond'
    BY <1>1, <2>1, <2>2, <2>3 DEF NoneBeyond, ReachedInv
  <2>5. NoneMissed'
    BY <1>1, <2>1, <2>2, <2>3 DEF NoneMissed, ReachedInv
  <2> QED
    BY <1>1, <2>4, <2>5 DEF ReachedInv
<1>2. CASE Quiet
  BY <1>1, <1>2 DEF Quiet, Asking, answerVars, historyVars
<1>3. CASE Around /\ UNCHANGED answerVars
  <2>1. ever \subseteq ever' /\ always' \subseteq always
    BY <1>3, AroundHistory
  <2> QED
    BY <1>1, <1>3, <2>1 DEF Asking, answerVars
<1>4. CASE \E r : Begins(r)
  <2>1. PICK r : Begins(r)
    BY <1>4
  <2>2. r.type = "graphql" /\ query' = r /\ todo' = {<<r.src>>} /\ refs' = {} /\ qpc' = "resolve"
    BY <2>1 DEF Begins, Starts, Asking, TypeInv, QueryInv
  <2>3. (QueryInv /\ Asking /\ todo = {<<query.src>>} /\ refs = {})'
    BY <2>2 DEF TypeInv
  <2>4. (NoneBeyond /\ NoneMissed)'
    BY <2>3, BeginsReached, PTL
  <2> QED
    BY <2>2, <2>4
<1>5. CASE \E p \in todo : Resolve(p)
  <2>1. PICK p \in todo : Resolve(p)
    BY <1>5
  <2>2. Resolves(p) /\ qpc = "resolve" /\ Asking
    BY <2>1 DEF Resolve, Resolves, Done, Asking, FoundAt, Collect, Keys
  <2> QED
    BY <2>2, ResolveBeyond, ResolveMissed DEF ReachedInv, Resolves
<1>6. CASE Resolved \/ MapTarget \/ Expanded \/ (\E ref \in unread : Expand(ref))
  <2>1. Asking /\ UNCHANGED <<query, todo, refs, historyVars>> /\ (qpc = "resolve" => todo = {})
    BY <1>6 DEF Resolved, MapTarget, Expanded, Expand, Done, Asking, TypeInv, QueryInv
  <2> QED
    BY <1>1, <2>1 DEF historyVars, ReachedInv
<1>7. CASE MapSource \/ ReadSource \/ CreateAnswer
  BY <1>7 DEF MapSource, ReadSource, CreateAnswer, Done, Asking, TypeInv, QueryInv
<1>8. CASE Fails \/ qpc' = "idle"
  BY <1>8 DEF Fails, Asking
<1> QED
  BY <1>2, <1>3, <1>4, <1>5, <1>6, <1>7, <1>8, QuerySteps DEF Execute

\* When everything is resolved, the references are between what could be come to
\* all the time and what could be come to at all.
LEMMA ReachedRefs == TypeInv /\ ReachedInv => RefsBetween
<1> SUFFICES ASSUME TypeInv, ReachedInv, Answered
             PROVE  Keys(Ends(always)) \subseteq refs /\ refs \subseteq Keys(Ends(ever))
  BY DEF RefsBetween, Keys
<1>1. Asking /\ todo = {} /\ NoneBeyond /\ NoneMissed
  BY DEF Answered, Asking, ReachedInv
<1>2. query.src \in OID /\ Len(query.hops) \in Nat
  BY <1>1, HopTypes DEF TypeInv, Asking
<1>3. refs \subseteq Keys(Ends(ever))
  BY <1>1, <1>2, LevelsClosed DEF NoneBeyond, Ends
<1>4. Keys(Ends(always)) \subseteq refs
  <2> DEFINE None == [i \in 0..Len(query.hops) |-> {}]
  <2>1. None \in LevelSets /\ IsClosed(None, always) /\ Covers(None)
    BY <1>1, <1>2 DEF LevelSets, IsClosed, Covers, Step
  <2>2. Keys(None[Len(query.hops)]) = {}
    BY <1>2 DEF Keys
  <2> HIDE DEF None
  <2> QED
    BY <1>1, <2>1, <2>2 DEF NoneMissed
<1> QED
  BY <1>3, <1>4

\* A query of several hops, each object resolved at another moment, finds all to
\* which there was a way all the time, and nothing to which there was none.
THEOREM QueriesFindTheRefs == PageSpec => []RefsBetween
<1>1. PageInit => HistoryInv /\ ReachedInv
  BY DEF PageInit, QueryInit, HistoryInv, ReachedInv, Running, Asking
<1> QED
  BY <1>1, AlwaysTypes, StepHistory, StepReached, ReachedRefs, PTL DEF PageSpec

-----------------------------------------------------------------------------
(***************************************************************************)
(* What is read of the references.                                         *)
(***************************************************************************)

\* What has been read so far: of each reference nothing that was never in sight,
\* and the object if it was in sight all the time.
ReadInv ==
  Asking =>
    /\ qpc \in {"resolve", "map"} => objs = {}
    /\ query.expand /\ qpc \in {"expand", "done"} =>
         /\ \A x \in objs : KindOf[x] = query.target /\ KeyOf[x] \in refs
         /\ objs \cap gone = {}
         /\ \A ref \in refs \ unread : Named(ref) \cap present \subseteq objs
         /\ qpc = "done" => unread = {}

LEMMA StepRead == TypeInv /\ HistoryInv /\ ReadInv /\ [PageNext]_pageVars => ReadInv'
<1> SUFFICES ASSUME TypeInv, HistoryInv, ReadInv, [PageNext]_pageVars PROVE ReadInv'
  OBVIOUS
<1>1. ASSUME UNCHANGED answerVars, present' \subseteq present, gone' \subseteq gone PROVE ReadInv'
  BY <1>1 DEF answerVars, ReadInv, Asking, Named
<1>2. CASE Quiet
  BY <1>1, <1>2 DEF Quiet, historyVars
<1>3. CASE Around /\ UNCHANGED answerVars
  BY <1>1, <1>3, AroundHistory
<1>4. CASE \E r : Begins(r)
  BY <1>4 DEF Begins, Starts, ReadInv, TypeInv, QueryInv
<1>5. CASE \/ \E p \in todo : Resolve(p)
           \/ Resolved
  <2>1. Asking' => Asking /\ qpc = "resolve" /\ objs' = {}
                   /\ (qpc' = "resolve" \/ qpc' = "map" \/ ~query'.expand)
    BY <1>5 DEF Resolve, Resolved, Done, Asking, ReadInv, TypeInv, QueryInv
  <2> QED
    BY <2>1 DEF ReadInv
<1>6. CASE MapTarget
  BY <1>6 DEF MapTarget, Done, ReadInv, Asking
<1>7. ASSUME NEW ref \in unread, Expand(ref) PROVE ReadInv'
  <2>1. /\ UNCHANGED <<query, qpc, refs, reply, present, gone>> /\ qpc = "expand"
        /\ unread' = unread \ {ref} /\ objs' = objs \cup Read(ref)
    BY <1>7 DEF Expand, historyVars
  <2>2. present \subseteq InSight /\ gone \cap InSight = {} /\ unread \subseteq refs
    BY <2>1 DEF HistoryInv, Running, TypeInv, QueryInv
  <2>3. \A x \in Read(ref) : KindOf[x] = query.target /\ KeyOf[x] \in refs /\ x \notin gone
    BY <2>2 DEF Read, Named
  <2>4. Named(ref) \cap present \subseteq Read(ref)
    BY <2>2 DEF Read
  <2>5. \A r : Named(r)' = Named(r)
    BY <2>1 DEF Named
  <2> QED
    BY <2>1, <2>3, <2>4, <2>5 DEF ReadInv, Asking
<1>8. CASE Expanded
  <2>1. Asking' => Asking
    BY <1>8 DEF Expanded, Done, Asking, TypeInv, QueryInv
  <2>2. /\ UNCHANGED <<query, refs, unread, objs, present, gone>> /\ qpc = "expand" /\ qpc' = "done"
        /\ unread = {} /\ \A r : Named(r)' = Named(r)
    BY <1>8 DEF Expanded, Done, historyVars, Named
  <2> QED
    BY <2>1, <2>2 DEF ReadInv
<1>9. CASE MapSource \/ ReadSource \/ CreateAnswer
  BY <1>9 DEF MapSource, ReadSource, CreateAnswer, Done, ReadInv, Asking, TypeInv, QueryInv
<1>10. CASE Fails \/ qpc' = "idle"
  BY <1>10 DEF Fails, Asking, ReadInv
<1> QED
  BY <1>2, <1>3, <1>4, <1>5, <1>6, <1>7, <1>8, <1>9, <1>10, QuerySteps DEF Execute

\* A reference has no kind; if the last hop asks for the target kind it is of the
\* object found all the same, as no two objects of a kind have the same key.
LEMMA ReadObjects == TypeInv /\ RefsBetween /\ ReadInv => ObjectsAreAnswers
<1> SUFFICES ASSUME TypeInv, RefsBetween, ReadInv, Answered, qpc = "done", query.expand,
                    query.hops[Len(query.hops)].kind = query.target
             PROVE  Ends(always) \cap present \subseteq objs /\ objs \subseteq Ends(ever) \ gone
  BY DEF ObjectsAreAnswers
<1> DEFINE N == Len(query.hops)
<1>1. Asking /\ Keys(Ends(always)) \subseteq refs /\ refs \subseteq Keys(Ends(ever))
  BY DEF Answered, Asking, RefsBetween, Keys
<1>2. /\ query.src \in OID /\ query.target \in Kind /\ N \in Nat \ {0}
      /\ objs \subseteq OID
  BY <1>1, HopTypes DEF TypeInv, Asking, QueryInv
<1>3. \A rel : \A x \in Ends(rel) : x \in OID /\ KindOf[x] = query.target
  <2> SUFFICES ASSUME NEW rel, NEW x \in Ends(rel) PROVE x \in OID /\ KindOf[x] = query.target
    OBVIOUS
  <2>1. x \in Step(N, rel, Levels(rel)[N - 1])
    BY <1>2, LevelsSteps DEF Ends
  <2>2. x \in OID /\ query.target \in {AnyKind, KindOf[x]}
    BY <2>1 DEF Step, Wanted
  <2> QED
    BY <1>2, <2>2, QueryAssumption
<1>4. ASSUME NEW x \in Ends(always) \cap present PROVE x \in objs
  <2>1. KeyOf[x] \in refs \ unread /\ x \in Named(KeyOf[x])
    BY <1>1, <1>3 DEF Keys, Named, ReadInv
  <2> QED
    BY <1>1, <1>4, <2>1 DEF ReadInv
<1>5. ASSUME NEW x \in objs PROVE x \in Ends(ever) \ gone
  <2>1. KindOf[x] = query.target /\ KeyOf[x] \in refs /\ x \notin gone
    BY <1>1 DEF ReadInv
  <2>2. PICK y \in Ends(ever) : KeyOf[y] = KeyOf[x]
    BY <1>1, <2>1 DEF Keys
  <2>3. y = x
    BY <1>2, <1>3, <2>1, <2>2, QueryAssumption
  <2> QED
    BY <2>1, <2>3
<1> QED
  BY <1>4, <1>5

\* The same for the objects, however far the caches lag behind: all that always
\* could be come to and were in sight, and none that never could be or were.
THEOREM QueriesFindTheObjects == PageSpec => []ObjectsAreAnswers
<1>1. PageInit => HistoryInv /\ ReadInv
  BY DEF PageInit, QueryInit, HistoryInv, ReadInv, Running, Asking
<1> QED
  BY <1>1, AlwaysTypes, StepHistory, StepRead, QueriesFindTheRefs, ReadObjects, PTL DEF PageSpec

-----------------------------------------------------------------------------
(***************************************************************************)
(* What a query reads in one step, Links, is what the walks of a reader    *)
(* come to: as many steps as there are objects lead everywhere.            *)
(***************************************************************************)

Readers ==
  INSTANCE GraphReaders WITH Reader <- {}, NoUpdate <- {}, NoRequest <- {},
                             pending <- {}, pc <- <<>>, req <- <<>>, todo <- <<>>, processed <- <<>>

\* Steps only add; and until they add nothing more, each has added an object.
Widens(f, label, n) ==
  /\ n > 0 => f[n - 1] \subseteq f[n]
  /\ Readers!Closed(f[n], label) \/ Cardinality(f[n]) >= n

LEMMA WalkWidens ==
  ASSUME TypeOK, NEW S \in SUBSET OID, NEW label \in EdgeLabel,
         NEW f, IsWalk(f, S, label), NEW n \in 1..Cardinality(OID), Widens(f, label, n - 1)
  PROVE  Widens(f, label, n)
<1> DEFINE A == f[n - 1]
           B == f[n]
<1>1. Cardinality(OID) \in Nat /\ IsFiniteSet(OID)
  BY QueryAssumption, FS_CardinalityType
<1>2. A \in SUBSET OID /\ B \in SUBSET OID
  BY <1>1 DEF IsWalk
<1>3. B = S \cup UNION {edges[x][label] : x \in A}
  BY DEF IsWalk
<1>4. A \subseteq B
  <2>1. CASE n = 1
    BY <1>3, <2>1 DEF IsWalk
  <2>2. CASE n > 1
    <3>1. n - 1 \in 1..Cardinality(OID) /\ n - 1 > 0
      BY <1>1, <2>2
    <3>2. A = S \cup UNION {edges[x][label] : x \in f[(n - 1) - 1]}
      BY <3>1 DEF IsWalk
    <3>3. f[(n - 1) - 1] \subseteq A
      BY <3>1 DEF Widens
    <3> QED
      BY <1>3, <3>2, <3>3
  <2> QED
    BY <1>1, <2>1, <2>2
<1>5. CASE Readers!Closed(A, label)
  <2>1. B \subseteq A
    <3>1. S \subseteq A
      <4>1. CASE n = 1
        BY <4>1 DEF IsWalk
      <4>2. CASE n > 1
        <5>1. n - 1 \in 1..Cardinality(OID)
          BY <1>1, <4>2
        <5> QED
          BY <5>1 DEF IsWalk
      <4> QED
        BY <1>1, <4>1, <4>2
    <3> QED
      BY <1>3, <1>5, <3>1 DEF Readers!Closed
  <2>2. A = B
    BY <1>4, <2>1
  <2> QED
    BY <1>4, <1>5, <2>2 DEF Widens
<1>6. CASE ~Readers!Closed(A, label)
  <2>1. A # B
    BY <1>3, <1>6 DEF Readers!Closed
  <2>2. IsFiniteSet(B) /\ IsFiniteSet(A)
    BY <1>1, <1>2, FS_Subset
  <2>3. Cardinality(A) <= Cardinality(B) /\ Cardinality(A) # Cardinality(B)
    BY <1>4, <2>1, <2>2, FS_Subset
  <2>4. Cardinality(A) \in Nat /\ Cardinality(B) \in Nat
    BY <2>2, FS_CardinalityType
  <2>5. Cardinality(A) >= n - 1
    BY <1>6 DEF Widens
  <2>6. Cardinality(B) >= n
    BY <1>1, <2>3, <2>4, <2>5
  <2> QED
    BY <1>4, <2>6 DEF Widens
<1> QED
  BY <1>5, <1>6

LEMMA WalkArrives ==
  ASSUME TypeOK, NEW S \in SUBSET OID, NEW label \in EdgeLabel, NEW f, IsWalk(f, S, label)
  PROVE  Readers!Closed(f[Cardinality(OID)], label) /\ S \subseteq f[Cardinality(OID)]
<1> DEFINE N == Cardinality(OID)
           T == {n \in 0..N : Widens(f, label, n)}
<1>1. N \in Nat /\ IsFiniteSet(OID)
  BY QueryAssumption, FS_CardinalityType
<1>2. f[0] \in SUBSET OID /\ f[N] \in SUBSET OID
  BY <1>1 DEF IsWalk
<1>3. 0 \in T
  <2>1. IsFiniteSet(f[0])
    BY <1>1, <1>2, FS_Subset
  <2>2. Cardinality(f[0]) \in Nat
    BY <2>1, FS_CardinalityType
  <2> QED
    BY <1>1, <2>2 DEF Widens
<1>4. \A n \in 1..N : n - 1 \in T => n \in T
  <2> SUFFICES ASSUME NEW n \in 1..N, n - 1 \in T PROVE n \in T
    OBVIOUS
  <2>1. Widens(f, label, n)
    BY WalkWidens
  <2> QED
    BY <1>1, <2>1
<1>5. Widens(f, label, N)
  <2> HIDE DEF N
  <2>1. T \in SUBSET (0..N)
    OBVIOUS
  <2> HIDE DEF T
  <2>2. T = 0..N
    BY <1>1, <1>3, <1>4, <2>1, IntervalInduction
  <2> QED
    BY <1>1, <2>2 DEF T
<1>6. Readers!Closed(f[N], label)
  <2>1. CASE Cardinality(f[N]) >= N
    <3>1. Cardinality(f[N]) <= N /\ IsFiniteSet(f[N])
      BY <1>1, <1>2, FS_Subset
    <3>2. Cardinality(f[N]) \in Nat
      BY <3>1, FS_CardinalityType
    <3>3. f[N] = OID
      BY <1>1, <1>2, <2>1, <3>1, <3>2, FS_Subset
    <3> QED
      BY <3>3 DEF Readers!Closed, TypeOK, Conns
  <2> QED
    BY <1>5, <2>1 DEF Widens
<1>7. S \subseteq f[N]
  <2>1. CASE N = 0
    BY <2>1 DEF IsWalk
  <2>2. CASE N > 0
    <3>1. N \in 1..N
      BY <1>1, <2>2
    <3> QED
      BY <3>1 DEF IsWalk
  <2> QED
    BY <1>1, <2>1, <2>2
<1> QED
  BY <1>6, <1>7

\* What a walk comes to is in every closed set that has its seeds.
LEMMA WalkStays ==
  ASSUME TypeOK, NEW S \in SUBSET OID, NEW label \in EdgeLabel, NEW f, IsWalk(f, S, label),
         NEW C \in SUBSET OID, S \subseteq C, Readers!Closed(C, label)
  PROVE  f[Cardinality(OID)] \subseteq C
<1> DEFINE N == Cardinality(OID)
           T == {n \in 0..N : f[n] \subseteq C}
<1>1. N \in Nat
  BY QueryAssumption, FS_CardinalityType
<1>2. 0 \in T
  BY <1>1 DEF IsWalk
<1>3. \A n \in 1..N : n - 1 \in T => n \in T
  <2> SUFFICES ASSUME NEW n \in 1..N, f[n - 1] \subseteq C PROVE n \in T
    OBVIOUS
  <2>1. f[n] = S \cup UNION {edges[x][label] : x \in f[n - 1]}
    BY DEF IsWalk
  <2>2. f[n] \subseteq C
    BY <2>1 DEF Readers!Closed
  <2> QED
    BY <1>1, <2>2
<1> HIDE DEF N
<1>4. T \in SUBSET (0..N)
  OBVIOUS
<1>5. T = 0..N
  <2> HIDE DEF T
  <2> QED
    BY <1>1, <1>2, <1>3, <1>4, IntervalInduction
<1>6. f[N] \subseteq C
  BY <1>1, <1>5
<1> QED
  BY <1>6 DEF N

LEMMA ReachIsReach ==
  ASSUME TypeOK, NEW S \in SUBSET OID, NEW label \in EdgeLabel
  PROVE  Reach(S, label) = Readers!Reach(S, label) /\ Reach(S, label) \in SUBSET OID
<1>1. PICK f : IsWalk(f, S, label) /\ Reach(S, label) = f[Cardinality(OID)]
  BY ReachSteps
<1>2. Cardinality(OID) \in 0..Cardinality(OID)
  BY QueryAssumption, FS_CardinalityType
<1>3. Reach(S, label) \in SUBSET OID
  BY <1>1, <1>2 DEF IsWalk
<1>4. Reach(S, label) \subseteq Readers!Reach(S, label)
  BY <1>1, <1>3, WalkStays DEF Readers!Reach
<1>5. Readers!Reach(S, label) \subseteq Reach(S, label)
  BY <1>1, <1>3, WalkArrives DEF Readers!Reach
<1> QED
  BY <1>3, <1>4, <1>5

LEMMA LinksAreLinked ==
  ASSUME TypeOK, NEW x \in OID, NEW label \in EdgeLabel
  PROVE  Links(x, label) = Readers!Linked(x, label)
<1>1. Offshoot \in EdgeLabel
  BY QueryAssumption
<1>2. Reach({x}, Offshoot) = Readers!Reach({x}, Offshoot) /\ Reach({x}, Offshoot) \in SUBSET OID
  BY <1>1, ReachIsReach
<1>3. Reach({x}, label) = Readers!Reach({x}, label)
  BY ReachIsReach
<1>4. Reach(Reach({x}, Offshoot), label) = Readers!Reach(Readers!Reach({x}, Offshoot), label)
  BY <1>2, ReachIsReach
<1> QED
  BY <1>3, <1>4 DEF Links, Readers!Linked

\* What a resolver reads in one step is what LinksCorrect says that a call of
\* Links answers with, in whichever order its two walks go.
THEOREM ResolversReadLinks ==
  PageSpec => [](\A x \in OID, label \in EdgeLabel : Links(x, label) = Readers!Linked(x, label))
<1>1. TypeInv => \A x \in OID, label \in EdgeLabel : Links(x, label) = Readers!Linked(x, label)
  BY LinksAreLinked DEF TypeInv, WorldInv
<1> QED
  BY <1>1, AlwaysTypes, PTL

-----------------------------------------------------------------------------
(* The graph that pages are rendered from. *)

\* Of the graph, every step of a page or a query is an Update or none.
LEMMA StepGraph == TypeInv /\ [PageNext]_pageVars => [Next]_vars
<1> SUFFICES ASSUME TypeInv, [PageNext]_pageVars PROVE [Next]_vars
  OBVIOUS
<1>1. CASE Meanwhile \/ SyncMeanwhile
  <2>1. ASSUME NEW x \in OID, NEW conns \in MayDeclare(x), UpdateGraph(x, conns) PROVE Next
    BY <2>1 DEF MayDeclare, UpdateGraph, Next
  <2> QED
    BY <1>1, <2>1, AroundSteps
    DEF Around, World, CreateOrDelete, Serve, LookupElsewhere, Catch, Sync, worldVars, graphVars, vars
<1>2. CASE ~Meanwhile /\ ~SyncMeanwhile
  BY <1>2, WorldTypes DEF worldVars, graphVars, vars
<1> QED
  BY <1>1, <1>2

\* So the graph that is read has what is proved of graphs.
THEOREM QueriedGraph == PageSpec => [](Symmetric /\ EdgesDeclared) /\ LostOnlyIfWithdrawn
<1>1. PageInit => Symmetric /\ EdgesDeclared
  <2> SUFFICES ASSUME PageInit PROVE Symmetric /\ EdgesDeclared
    OBVIOUS
  <2>1. edges = [x \in OID |-> [l \in EdgeLabel |-> ids[x][l] \cup {y \in OID : x \in ids[y][l]}]]
    BY DEF PageInit, QueryInit
  <2>2. TypeOK
    BY InitTypes DEF TypeInv, WorldInv
  <2>3. \A x, y \in OID : \A l \in EdgeLabel : y \in edges[x][l] <=> y \in ids[x][l] \/ x \in ids[y][l]
    BY <2>1
  <2> QED
    BY <2>2, <2>3 DEF Symmetric, EdgesDeclared, Declared, TypeOK, Conns
<1>2. TypeInv => TypeOK
  BY DEF TypeInv, WorldInv
<1> QED
  BY <1>1, <1>2, AlwaysTypes, StepGraph, StepSymmetric, StepEdgesDeclared, StepKept, PTL
  DEF PageSpec, LostOnlyIfWithdrawn, Kept
=============================================================================
