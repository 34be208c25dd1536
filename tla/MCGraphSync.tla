----------------------------- MODULE MCGraphSync -----------------------------
(***************************************************************************)
(* A Deployment, its ReplicaSet and a Pod, with the connections of the     *)
(* registry's descriptors: a Deployment finds ReplicaSets by its selector, *)
(* a ReplicaSet finds Pods by its selector and its Deployment by owner.    *)
(* Pods are read from the API server.                                      *)
(***************************************************************************)
EXTENDS GraphSync

CONSTANTS dep, rs, pod, Deployment, ReplicaSet, Pod, offshoot, v1, v2

Owned  == {dep, rs}
Scaled == {rs, pod}
Kinds   == {Deployment, ReplicaSet, Pod}
Labels  == {offshoot}
Values  == {v1, v2}
LivePod == {Pod}
\* Any kind can be taken out of the cache; a Deployment shows both ways of reading.
LiveDeployment == {Deployment}

Of == [x \in OID |-> CASE x = dep -> Deployment
                       [] x = rs  -> ReplicaSet
                       [] x = pod -> Pod]

Selects(k) == [to |-> k, labels |-> Labels, byName |-> FALSE]
Owners(k)  == [to |-> k, labels |-> Labels, byName |-> TRUE]

Descriptors ==
  [k \in Kind |-> CASE k = Deployment -> {Selects(ReplicaSet)}
                    [] k = ReplicaSet -> {Selects(Pod), Owners(Deployment)}
                    [] k = Pod        -> {}]

DescribedTargets ==
  [x \in OID |-> [l \in EdgeLabel |->
     {y \in OID : \E c \in Connections[KindOf[x]] : c.to = KindOf[y] /\ l \in c.labels}]]

\* What looks like v1 is owned by the Deployment.
OwnedByDep == {<<v1, y>> : y \in {x \in OID : x = dep}}

SameValue == {<<v, v>> : v \in Value}
=============================================================================
