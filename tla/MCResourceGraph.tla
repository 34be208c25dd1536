--------------------------- MODULE MCResourceGraph ---------------------------
(***************************************************************************)
(* A ReplicaSet that may own two Pods, a Service that may select them, an  *)
(* Ingress in front of it, and the Node that they run on.  When the        *)
(* ReplicaSet owns only one of the Pods, the other is somebody else's.     *)
(***************************************************************************)
EXTENDS ResourceGraph, Integers

CONSTANTS rs, pod1, pod2, svc, ing, node, ReplicaSet, Pod, Service, Ingress, Node,
          offshoot, exposed_by, located_on

Shared == {rs, pod1, pod2, svc, ing, node}
Labels == {offshoot, exposed_by, located_on}
Kinds  == {ReplicaSet, Pod, Service, Ingress, Node}

Of == [x \in OID |-> CASE x = rs             -> ReplicaSet
                       [] x \in {pod1, pod2} -> Pod
                       [] x = svc            -> Service
                       [] x = ing            -> Ingress
                       [] x = node           -> Node]

\* OIDs start with the group.
Rank  == [x \in OID |-> CASE x = pod1 -> 1 [] x = pod2 -> 2 [] x = svc -> 3
                          [] x = rs -> 4 [] x = ing -> 5 [] x = node -> 0]
Order == {p \in OID \X OID : Rank[p[1]] < Rank[p[2]]}

NoTargets == [l \in Labels |-> {}]
SharedTargets ==
  [x \in OID |-> CASE x = rs  -> [NoTargets EXCEPT ![offshoot] = {pod1, pod2}]
                   [] x = svc -> [NoTargets EXCEPT ![exposed_by] = {pod1, pod2}]
                   [] x = ing -> [NoTargets EXCEPT ![exposed_by] = {svc}]
                   [] x \in {pod1, pod2} -> [NoTargets EXCEPT ![located_on] = {node}]
                   [] OTHER   -> NoTargets]
=============================================================================
