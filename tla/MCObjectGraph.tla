---------------------------- MODULE MCObjectGraph ----------------------------
(***************************************************************************)
(* Small clusters for ObjectGraph.  Cluster is a Deployment in the middle  *)
(* of a rolling update, behind a Service, with the connections that the    *)
(* descriptors of the registry give these kinds: a Deployment finds its    *)
(* ReplicaSets by selector, a ReplicaSet finds its Deployment by owner and *)
(* its Pods by selector (all offshoot, so the first two are mutual), and a *)
(* Service finds Pods by selector (exposed_by).                            *)
(***************************************************************************)
EXTENDS ObjectGraph

CONSTANTS dep, rs1, rs2, pod1, pod2, svc, offshoot, exposed_by

Cluster == {dep, rs1, rs2, pod1, pod2, svc}
Labels  == {offshoot, exposed_by}

NoTargets == [l \in Labels |-> {}]

\* The ReplicaSets' owner lookup left out, nothing is mutual ...
OneWayTargets ==
  [x \in Cluster |->
     CASE x = dep          -> [NoTargets EXCEPT ![offshoot] = {rs1, rs2}]
       [] x \in {rs1, rs2} -> [NoTargets EXCEPT ![offshoot] = {pod1, pod2}]
       [] x = svc          -> [NoTargets EXCEPT ![exposed_by] = {pod1, pod2}]
       [] OTHER            -> NoTargets]

\* ... and here is the lookup, for the two objects it concerns.
Owned == {dep, rs1}
OwnedTargets ==
  [x \in Owned |-> [NoTargets EXCEPT ![offshoot] = Owned \ {x}]]

ASSUME OneWayHolds == Targets = OneWayTargets => OneWay

\* Three objects under one label, declaring each other, and themselves, in
\* every way.
Triple == {dep, rs1, pod1}
OneLabel == {offshoot}
TripleTargets == [x \in Triple |-> [l \in OneLabel |-> Triple]]
=============================================================================
