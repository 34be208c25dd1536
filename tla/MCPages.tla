------------------------------- MODULE MCPages -------------------------------
(***************************************************************************)
(* A deployment, its replica set, its pod and a service of the same name   *)
(* as the pod; and a layout with blocks of every kind.                     *)
(***************************************************************************)
EXTENDS PageRenderer, TLC

CONSTANTS dep, rs, pod, svc, offshoot, exposed_by, anyKind, groupOnly, noLayout, noPage, allPages

Objects == {dep, rs, pod, svc}
Kinds == {"Deployment", "ReplicaSet", "Pod", "Service"}
KindsOf == [x \in Objects |->
  CASE x = dep -> "Deployment" [] x = rs -> "ReplicaSet" [] x = pod -> "Pod" [] x = svc -> "Service"]
KeysOf == [x \in Objects |-> IF x \in {pod, svc} THEN "a/web" ELSE "a/app"]

Labels == {offshoot, exposed_by}
MayFind == [x \in Objects |-> [l \in Labels |->
  CASE x = dep /\ l = offshoot -> {rs}
    [] x = rs /\ l = offshoot -> {pod}
    [] x = svc /\ l = exposed_by -> {pod}
    [] OTHER -> {}]]

Uncached == {"Pod"}
Core == {"Pod", "Service"}

\* All is well; or there is no pod, and no service except in the cache; or there
\* is no informer of replica sets, and the core group was lost.
Rested == [ids |-> MayFind, cluster |-> Objects, listed |-> Kinds \ Uncached, late |-> {}, mapped |-> Kinds]
AtFirst ==
  {Rested, [Rested EXCEPT !.cluster = {dep, rs}, !.late = {svc}],
   [Rested EXCEPT !.ids[rs] = [l \in Labels |-> {}], !.listed = {"Deployment", "Service"},
                  !.mapped = Kinds \ Core]}

Hop(l, k) == [label |-> l, kind |-> k]
Graphql(target, hops) == [type |-> "graphql", target |-> target, hops |-> hops]
Rest(target) == [type |-> "rest", target |-> target]

Pods == Graphql("Pod", <<Hop(offshoot, "Pod")>>)
ReplicaSets == Graphql("ReplicaSet", <<Hop(offshoot, "ReplicaSet")>>)
Services == Graphql("Service", <<Hop(offshoot, anyKind), Hop(exposed_by, "Service")>>)
Asked(x, q) == [src |-> x, expand |-> TRUE, templated |-> TRUE] @@ q

AllQueries ==
  {Asked(dep, Services), Asked(dep, ReplicaSets), Asked(svc, Rest("Pod")),
   [Asked(dep, Graphql("Pod", <<Hop(offshoot, anyKind), Hop(offshoot, anyKind)>>)) EXCEPT !.expand = FALSE],
   Asked(dep, Graphql("Service", <<Hop(offshoot, "Pod"), Hop(exposed_by, groupOnly)>>))}

Block(page, kind) == [page |-> page, kind |-> kind]
Connection(page, q) == [page |-> page, kind |-> "Connection", query |-> q]
Layout ==
  <<Block(noPage, "Self"), Connection("basic", Rest("Pod")), Connection("basic", Pods),
    Connection("more", Services), Connection("more", Rest("Service"))>>
Unknown == <<Connection(noPage, Rest("Pod")), Block("basic", "Table")>>

View(layout, page, kinds) == [src |-> dep, layout |-> layout, page |-> page, kinds |-> kinds]
AllViews ==
  {View(Layout, allPages, {}), View(Layout, "more", {"Connection"}),
   View(noLayout, allPages, {}), View(Unknown, allPages, {})}
AllBlocks == {[src |-> rs, block |-> Connection(noPage, Rest("Pod"))]}
BlocksOfLayouts == {Layout[i] : i \in DOMAIN Layout} \cup {Unknown[i] : i \in DOMAIN Unknown}
=============================================================================
