----------------------------- MODULE MCDiscovery -----------------------------
(***************************************************************************)
(* An API server with a kind of two versions and a kind of one, and a      *)
(* channel that holds a single type.                                       *)
(***************************************************************************)
EXTENDS Discovery

CONSTANTS ingressV1, ingressV1beta1, pod, Ingress, Pod

Versions   == {ingressV1, ingressV1beta1}
WatchTypes == Versions \cup {pod}

Kinds == [t \in Type |-> IF t = pod THEN Pod ELSE Ingress]
PreferredTypes == Type \ {ingressV1beta1}
=============================================================================
