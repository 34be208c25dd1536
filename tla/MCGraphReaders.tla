--------------------------- MODULE MCGraphReaders ---------------------------
(***************************************************************************)
(* A small cluster for GraphReaders.                                       *)
(***************************************************************************)
EXTENDS GraphReaders

CONSTANTS dep, rs, pod, offshoot, exposed_by, r1, r2

Labels == {offshoot, exposed_by}
Direct == {offshoot}
TwoReaders == {r1, r2}

NoTargets == [l \in Labels |-> {}]

\* Three objects that may be linked in a circle along offshoot, so that the
\* walks meet objects that are queued already.  Links(pod, exposed_by) finds
\* rs only through the offshoots of pod.
Ring == {dep, rs, pod}
RingTargets ==
  [x \in Ring |->
     CASE x = dep -> [l \in Labels |-> {rs}]
       [] x = rs  -> [NoTargets EXCEPT ![offshoot] = {pod}]
       [] x = pod -> [NoTargets EXCEPT ![offshoot] = {dep}]]
=============================================================================
