---------------------------- MODULE CachedClient ----------------------------
(***************************************************************************)
(* What the client of the manager answers: the client that main.go sets up *)
(* and that graph/setup.go and graph/renderer.go ask.                      *)
(*                                                                         *)
(* Kinds are looked up in a mapper that remembers.  It keeps a kind that   *)
(* is not served any more, and is loaded anew only when it does not know a *)
(* kind and if it was not loaded too often of late; an API group whose     *)
(* discovery fails is then left out, even if it was known.                 *)
(*                                                                         *)
(* Objects are read from informers, one per kind and form of the objects.  *)
(* The first read of a kind opens its informer, and waits, without a       *)
(* deadline, until it has listed the kind; after that it lags behind.      *)
(* Live kinds are read from the API server.                                *)
(***************************************************************************)
EXTENDS Integers

CONSTANTS
  OID,
  Kind,   \* the kinds of the objects
  KindOf, \* KindOf[x]: the kind of x
  Live,   \* the kinds that are not cached
  Groups  \* the kinds by API group

VARIABLES
  cluster, \* the objects that exist
  served,  \* the kinds that the API server serves
  mapped,  \* the kinds that the mapper knows
  lacked,  \* history: the kinds that it did not know at some time since
  synced,  \* the informers that have listed their kind: <<kind, form>>
  cached,  \* cached[form]: the objects in the informers of a form
  behind   \* behind[form][x]: the changes of x that its informer has not seen

\* Objects as they are (unstructured), or their metadata.
Form == {"object", "metadata"}

Toggle(S, x) == IF x \in S THEN S \ {x} ELSE S \cup {x}

-----------------------------------------------------------------------------
(* RESTMapping *)

\* What the mapper may know when it is loaded.
Reloads == {served \ UNION lost : lost \in SUBSET Groups}

Reload ==
  /\ mapped' \in Reloads
  /\ lacked' = lacked \cup (Kind \ mapped')

\* The lookup of a kind succeeds,
Maps(k) ==
  \/ k \in mapped /\ UNCHANGED <<mapped, lacked>>
  \/ k \notin mapped /\ Reload /\ k \in mapped'

\* or there is no match: the mapper must not be loaded again yet, or that does
\* not help.
Lacks(k) ==
  /\ k \notin mapped
  /\ UNCHANGED <<mapped, lacked>> \/ (Reload /\ k \notin mapped')

-----------------------------------------------------------------------------
(* Get *)

\* A read of the kind need not wait.
Ready(k, form) == k \in Live \/ <<k, form>> \in synced

\* What a read finds.  An object of a kind that is not served is not found,
\* but an informer that had listed it keeps it.
Sight(form) ==
  {x \in OID : IF <<KindOf[x], form>> \in synced
               THEN x \in cached[form]
               ELSE x \in cluster /\ KindOf[x] \in served}

SyncInformer(k, form) ==
  /\ k \in served \ Live /\ <<k, form>> \notin synced
  /\ synced' = synced \cup {<<k, form>>}
  /\ cached' = [cached EXCEPT ![form] = @ \cup {x \in cluster : KindOf[x] = k}]
  /\ UNCHANGED <<cluster, served, behind, mapped, lacked>>

\* An informer sees the next change of an object, or lists the kind again and
\* sees only what has come of several.
Deliver(x, form) ==
  /\ \E n \in 1..behind[form][x] :
       /\ behind' = [behind EXCEPT ![form][x] = @ - n]
       /\ cached' = [cached EXCEPT ![form] = IF n % 2 = 1 THEN Toggle(@, x) ELSE @]
  /\ UNCHANGED <<cluster, served, synced, mapped, lacked>>

-----------------------------------------------------------------------------
(* What happens in the cluster *)

\* x is created or deleted.
Change(x) ==
  /\ KindOf[x] \in served
  /\ cluster' = Toggle(cluster, x)
  /\ behind' = [f \in Form |->
       [behind[f] EXCEPT ![x] = IF <<KindOf[x], f>> \in synced THEN @ + 1 ELSE @]]
  /\ UNCHANGED <<served, synced, cached, mapped, lacked>>

\* A kind is installed or removed.
InstallOrRemove(k) ==
  /\ served' = Toggle(served, k)
  /\ UNCHANGED <<cluster, synced, cached, behind, mapped, lacked>>

ClientTypeOK ==
  /\ cluster \subseteq OID /\ served \subseteq Kind
  /\ mapped \subseteq Kind /\ lacked \subseteq Kind
  /\ synced \subseteq (Kind \ Live) \X Form
  /\ cached \in [Form -> SUBSET OID]
  /\ behind \in [Form -> [OID -> Nat]]
=============================================================================
