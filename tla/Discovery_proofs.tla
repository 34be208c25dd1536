-------------------------- MODULE Discovery_proofs --------------------------
(***************************************************************************)
(* Every recorded type is in one place, for every set of types and every   *)
(* capacity of the channel.                                                *)
(***************************************************************************)
EXTENDS Discovery, TLAPS

(***************************************************************************)
(* The channel: a queue without duplicates.                                *)
(***************************************************************************)

\* Appending what a sequence does not hold keeps it without repetitions.
LEMMA AppendFresh ==
  ASSUME NEW s \in Seq(Type), IsInjective(s), NEW t \in Type, t \notin ToSet(s)
  PROVE  /\ Append(s, t) \in Seq(Type)
         /\ ToSet(Append(s, t)) = ToSet(s) \cup {t}
         /\ IsInjective(Append(s, t))
<1> DEFINE n == Len(s)
           u == Append(s, t)
<1>1. u \in Seq(Type) /\ n \in Nat /\ DOMAIN u = 1..(n + 1) /\ DOMAIN s = 1..n
  OBVIOUS
<1>2. u[n + 1] = t /\ \A i \in 1..n : u[i] = s[i]
  OBVIOUS
<1> HIDE DEF u, n
<1>3. ToSet(u) = ToSet(s) \cup {t}
  <2>1. \A i \in 1..(n + 1) : i \in 1..n \/ i = n + 1
    BY <1>1
  <2>2. 1..n \subseteq 1..(n + 1) /\ n + 1 \in 1..(n + 1)
    BY <1>1
  <2> QED
    BY <1>1, <1>2, <2>1, <2>2 DEF ToSet
<1>4. IsInjective(u)
  <2> SUFFICES ASSUME NEW i \in 1..(n + 1), NEW j \in 1..(n + 1), u[i] = u[j] PROVE i = j
    BY <1>1 DEF IsInjective
  <2>1. (i \in 1..n \/ i = n + 1) /\ (j \in 1..n \/ j = n + 1)
    BY <1>1
  <2>2. \A k \in 1..n : s[k] # t
    BY <1>1 DEF ToSet
  <2> QED
    BY <1>1, <1>2, <2>1, <2>2 DEF IsInjective
<1> QED
  BY <1>1, <1>3, <1>4 DEF u

\* The head of a sequence without repetitions is not in its tail.
LEMMA TakeHead ==
  ASSUME NEW s \in Seq(Type), IsInjective(s), s # <<>>
  PROVE  /\ Head(s) \in Type /\ Tail(s) \in Seq(Type)
         /\ ToSet(s) = ToSet(Tail(s)) \cup {Head(s)}
         /\ Head(s) \notin ToSet(Tail(s))
         /\ IsInjective(Tail(s))
         /\ Len(Tail(s)) <= Len(s)
<1> DEFINE n == Len(s)
           u == Tail(s)
<1>1. /\ n \in Nat \ {0} /\ Head(s) \in Type /\ u \in Seq(Type)
      /\ DOMAIN s = 1..n /\ DOMAIN u = 1..(n - 1) /\ Len(u) <= n
  OBVIOUS
<1>2. Head(s) = s[1] /\ \A i \in 1..(n - 1) : u[i] = s[i + 1]
  OBVIOUS
<1> HIDE DEF u, n
<1>3. \A i \in 1..(n - 1) : i + 1 \in 1..n /\ i + 1 # 1
  BY <1>1
<1>4. \A i \in 1..n : i # 1 => i - 1 \in 1..(n - 1) /\ u[i - 1] = s[i]
  <2> SUFFICES ASSUME NEW i \in 1..n, i # 1 PROVE i - 1 \in 1..(n - 1) /\ u[i - 1] = s[i]
    OBVIOUS
  <2>1. i - 1 \in 1..(n - 1) /\ (i - 1) + 1 = i
    BY <1>1
  <2> QED
    BY <1>2, <2>1
<1>5. 1 \in 1..n
  BY <1>1
<1>6. ToSet(s) = ToSet(u) \cup {Head(s)}
  <2>1. ASSUME NEW i \in 1..n PROVE s[i] \in ToSet(u) \cup {Head(s)}
    <3>1. CASE i = 1
      BY <1>2, <3>1
    <3>2. CASE i # 1
      BY <1>1, <1>4, <3>2 DEF ToSet
    <3> QED
      BY <3>1, <3>2
  <2>2. ASSUME NEW i \in 1..(n - 1) PROVE u[i] \in ToSet(s)
    BY <1>1, <1>2, <1>3 DEF ToSet
  <2>3. Head(s) \in ToSet(s)
    BY <1>1, <1>2, <1>5 DEF ToSet
  <2> QED
    BY <1>1, <2>1, <2>2, <2>3 DEF ToSet
<1>7. Head(s) \notin ToSet(u)
  <2> SUFFICES ASSUME NEW i \in 1..(n - 1), u[i] = Head(s) PROVE FALSE
    BY <1>1 DEF ToSet
  <2>1. s[i + 1] = s[1] /\ i + 1 \in 1..n /\ i + 1 # 1
    BY <1>2, <1>3
  <2> QED
    BY <1>1, <1>5, <2>1 DEF IsInjective
<1>8. IsInjective(u)
  <2> SUFFICES ASSUME NEW i \in 1..(n - 1), NEW j \in 1..(n - 1), u[i] = u[j] PROVE i = j
    BY <1>1 DEF IsInjective
  <2>1. i + 1 = j + 1
    BY <1>1, <1>2, <1>3 DEF IsInjective
  <2> QED
    BY <2>1
<1> QED
  BY <1>1, <1>6, <1>7, <1>8 DEF u, n

-----------------------------------------------------------------------------
(***************************************************************************)
(* The inductive invariant.  EachTypeInOnePlace alone is not inductive: it *)
(* takes that what is held is one type, and that its holder's program      *)
(* counter says so, to know that a type which moves on leaves nothing of   *)
(* itself behind.                                                          *)
(***************************************************************************)

Held ==
  /\ poller = "sending" <=> unsent # {}
  /\ \A s, t \in unsent : s = t
  /\ configurator # "receiving" <=> received # {}
  /\ \A s, t \in received : s = t
  /\ \A t \in received : controller[t] = "none" <=> configurator # "watching"

Inv == TypeOK /\ EachTypeInOnePlace /\ Held

\* Nothing has been discovered yet.
LEMMA InvInit == Init => Inv
<1> SUFFICES ASSUME Init PROVE Inv
  OBVIOUS
<1>1. ToSet(resourceChannel) = {} /\ IsInjective(resourceChannel) /\ resourceChannel \in Seq(Type)
      /\ Len(resourceChannel) = 0
  BY DEF Init, ToSet, IsInjective
<1>2. HasController = {}
  BY DEF Init, HasController
<1>3. 0 <= Cap
  BY DiscoveryAssumption
<1> QED
  BY <1>1, <1>2, <1>3 DEF Init, Inv, TypeOK, EachTypeInOnePlace, Held

\* A type is recorded and held by the poller in one step.
LEMMA ScanInv ==
  ASSUME Inv, NEW t \in Type, Scan(t) PROVE Inv'
<1>1. CASE t \in Ignored \cup resourceTracker
  BY <1>1 DEF Scan, Inv, TypeOK, EachTypeInOnePlace, Held, HasController, setupVars
<1>2. CASE t \notin Ignored \cup resourceTracker
  <2>1. /\ resourceTracker' = resourceTracker \cup {t} /\ unsent' = {t} /\ poller' = "sending"
        /\ found' = found \ {t} /\ UNCHANGED <<served, phase, resourceChannel, configurator, received, controller>>
    BY <1>2 DEF Scan, setupVars
  <2>2. unsent = {}
    BY DEF Scan, Inv, Held
  <2> QED
    BY <1>2, <2>1, <2>2 DEF Inv, TypeOK, EachTypeInOnePlace, Held, HasController
<1> QED
  BY <1>1, <1>2

\* The poller hands its type over to the channel.
LEMMA SendInv ==
  ASSUME Inv, NEW t \in Type, Send(t) PROVE Inv'
<1>1. /\ unsent = {t} /\ unsent' = {} /\ poller = "sending" /\ poller' = "scanning"
      /\ UNCHANGED <<served, phase, found, resourceTracker, configurator, received, controller>>
  BY DEF Send, Inv, Held, setupVars
<1>2. t \notin ToSet(resourceChannel)
  BY <1>1 DEF Inv, EachTypeInOnePlace
<1>3. /\ resourceChannel' \in Seq(Type) /\ IsInjective(resourceChannel')
      /\ ToSet(resourceChannel') = ToSet(resourceChannel) \cup {t}
  BY <1>2, AppendFresh DEF Send, Inv, TypeOK, EachTypeInOnePlace
<1>4. Len(resourceChannel') <= Cap
  BY DiscoveryAssumption DEF Send, Inv, TypeOK
<1> HIDE DEF ToSet, IsInjective
<1> QED
  BY <1>1, <1>2, <1>3, <1>4 DEF Inv, TypeOK, EachTypeInOnePlace, Held, HasController

\* The configurator takes the oldest type out of the channel.
LEMMA ReceiveInv ==
  ASSUME Inv, Receive PROVE Inv'
<1> DEFINE t == Head(resourceChannel)
<1>1. /\ received = {} /\ received' = {t} /\ configurator = "receiving" /\ configurator' = "adding"
      /\ resourceChannel' = Tail(resourceChannel)
      /\ UNCHANGED <<served, phase, poller, found, unsent, resourceTracker, controller>>
  BY DEF Receive, Inv, Held, pollerVars
<1>2. /\ t \in Type /\ resourceChannel' \in Seq(Type) /\ IsInjective(resourceChannel')
      /\ ToSet(resourceChannel) = ToSet(resourceChannel') \cup {t}
      /\ t \notin ToSet(resourceChannel')
      /\ Len(resourceChannel') <= Len(resourceChannel)
  BY <1>1, TakeHead DEF Receive, Inv, TypeOK, EachTypeInOnePlace
<1>3. Len(resourceChannel') <= Cap
  BY <1>2, DiscoveryAssumption DEF Inv, TypeOK
\* What comes out of the channel has no controller yet.
<1>4. controller[t] = "none"
  BY <1>1, <1>2 DEF Inv, EachTypeInOnePlace, HasController
<1> HIDE DEF t
<1> QED
  BY <1>1, <1>2, <1>3, <1>4 DEF Inv, TypeOK, EachTypeInOnePlace, Held, HasController

\* A type with a controller belongs to the configurator until it is watched.
LEMMA AddControllerInv ==
  ASSUME Inv, NEW t \in Type, AddController(t) PROVE Inv'
<1>1. /\ received = {t} /\ configurator = "adding" /\ configurator' = "watching"
      /\ controller' = [controller EXCEPT ![t] = "created"]
      /\ UNCHANGED <<served, phase, poller, found, unsent, resourceTracker, resourceChannel, received>>
  BY DEF AddController, Inv, Held, pollerVars
<1>2. controller' \in [Type -> {"none", "created", "watched", "bare", "syncing",
                                "attaching", "watching", "failed", "deaf", "ended"}]
  BY <1>1 DEF Inv, TypeOK
<1>3. HasController' = HasController \cup {t}
  BY <1>1 DEF Inv, TypeOK, HasController
<1> QED
  BY <1>1, <1>2, <1>3 DEF Inv, TypeOK, EachTypeInOnePlace, Held

\* The configurator lets go of a type that has its controller.
LEMMA WatchTypeInv ==
  ASSUME Inv, NEW t \in Type, WatchType(t) PROVE Inv'
<1>1. /\ received = {t} /\ received' = {} /\ configurator = "watching" /\ configurator' = "receiving"
      /\ UNCHANGED <<served, phase, poller, found, unsent, resourceTracker, resourceChannel>>
  BY DEF WatchType, Inv, Held, pollerVars
<1>2. controller[t] # "none"
  BY <1>1 DEF Inv, Held
<1>3. /\ controller' \in [Type -> {"none", "created", "watched", "bare", "syncing",
                                   "attaching", "watching", "failed", "deaf", "ended"}]
      /\ HasController' = HasController
  BY <1>2 DEF WatchType, Inv, TypeOK, HasController
<1> QED
  BY <1>1, <1>2, <1>3 DEF Inv, TypeOK, EachTypeInOnePlace, Held, HasController

\* A controller that goes from one state to another without the configurator.
LEMMA ControllerStepInv ==
  ASSUME Inv, NEW t \in Type, controller[t] # "none",
         NEW c \in {"bare", "syncing", "watching", "failed", "deaf", "ended"},
         controller' = [controller EXCEPT ![t] = c],
         phase' \in {"running", "cancelled", "stopping", "stopped"},
         UNCHANGED <<served, poller, found, unsent, resourceTracker, resourceChannel,
                     configurator, received>>
  PROVE  Inv'
<1>1. /\ controller' \in [Type -> {"none", "created", "watched", "bare", "syncing",
                                   "attaching", "watching", "failed", "deaf", "ended"}]
      /\ \A s \in Type : controller'[s] = "none" <=> controller[s] = "none"
      /\ HasController' = HasController
  BY DEF Inv, TypeOK, HasController
<1> QED
  BY <1>1 DEF Inv, TypeOK, EachTypeInOnePlace, Held

\* Every step preserves the inductive invariant.
LEMMA InvStep == Inv /\ [Next]_vars => Inv'
<1> SUFFICES ASSUME Inv, [Next]_vars PROVE Inv'
  OBVIOUS
<1> USE DEF pollerVars, setupVars
<1>1. ASSUME NEW t \in Type, Serve(t) PROVE Inv'
  BY <1>1 DEF Serve, Inv, TypeOK, EachTypeInOnePlace, Held, HasController
<1>2. ASSUME NEW failed \in SUBSET served, Poll(failed) PROVE Inv'
  BY <1>2 DEF Poll, Selections, Inv, TypeOK, EachTypeInOnePlace, Held, HasController
<1>3. CASE EndOfPoll
  BY <1>3 DEF EndOfPoll, Inv, TypeOK, EachTypeInOnePlace, Held, HasController
<1>4. CASE PollerStops
  BY <1>4 DEF PollerStops, Inv, TypeOK, EachTypeInOnePlace, Held, HasController
<1>5. ASSUME NEW t \in Type, StartController(t) PROVE Inv'
  BY <1>5, ControllerStepInv DEF StartController, Inv, TypeOK
<1>6. ASSUME NEW t \in Type, SyncCache(t) PROVE Inv'
  BY <1>6, ControllerStepInv DEF SyncCache, Inv, TypeOK
<1>7. ASSUME NEW t \in Type, SyncFails(t) PROVE Inv'
  BY <1>7, ControllerStepInv DEF SyncFails, Inv, TypeOK
<1>8. ASSUME NEW t \in Type, ControllerEnds(t) PROVE Inv'
  BY <1>8, ControllerStepInv DEF ControllerEnds, Inv, TypeOK
<1>9. CASE Signal \/ EngageStop \/ GracePeriodEnds
  BY <1>9 DEF Signal, EngageStop, GracePeriodEnds, Inv, TypeOK, EachTypeInOnePlace, Held, HasController
<1>10. CASE RefuseController
  BY <1>10 DEF RefuseController, Inv, TypeOK, EachTypeInOnePlace, Held, HasController
<1>11. ASSUME NEW t \in Type, AttachWatch(t) \/ LoseWatch(t) PROVE Inv'
  BY <1>11, ControllerStepInv DEF AttachWatch, LoseWatch, Inv, TypeOK
<1>12. CASE UNCHANGED vars
  BY <1>12 DEF vars, Inv, TypeOK, EachTypeInOnePlace, Held, HasController
<1> QED
  BY <1>1, <1>2, <1>3, <1>4, <1>5, <1>6, <1>7, <1>8, <1>9, <1>10, <1>11, <1>12,
     ScanInv, SendInv, ReceiveInv, AddControllerInv, WatchTypeInv DEF Next

-----------------------------------------------------------------------------
\* Type correctness, the bound on the channel included.
THEOREM DiscoveryTypeCorrect == Spec => []TypeOK
<1>1. Inv => TypeOK
  BY DEF Inv
<1> QED
  BY <1>1, InvInit, InvStep, PTL DEF Spec

\* No type is lost between discovery and its controller, and none is set up
\* twice, whatever the polls find and wherever the shutdown strikes.
THEOREM NoTypeLostOrRepeated == Spec => []EachTypeInOnePlace
<1>1. Inv => EachTypeInOnePlace
  BY DEF Inv
<1> QED
  BY <1>1, InvInit, InvStep, PTL DEF Spec

\* A type's controller is created once in the life of the process.
THEOREM NoSecondController == Spec => ControllersStartOnce
<1> DEFINE Once ==
      \A t \in Type : controller[t] # "none" => controller'[t] \notin {"none", "created"}
                                               \/ controller'[t] = controller[t]
<1>1. Inv /\ [Next]_vars => [Once]_vars
  <2> SUFFICES ASSUME Inv, Next PROVE Once
    OBVIOUS
  <2> USE DEF setupVars
  <2>1. ASSUME NEW t \in Type, AddController(t) PROVE Once
    <3>1. controller[t] = "none"
      BY <2>1 DEF AddController, Inv, Held
    <3> QED
      BY <2>1, <3>1 DEF AddController, Inv, TypeOK
  <2>2. ASSUME NEW t \in Type,
               \/ WatchType(t) \/ StartController(t) \/ SyncCache(t) \/ SyncFails(t)
               \/ AttachWatch(t) \/ LoseWatch(t) \/ ControllerEnds(t)
        PROVE  Once
    BY <2>2 DEF WatchType, StartController, SyncCache, SyncFails,
                AttachWatch, LoseWatch, ControllerEnds, Inv, TypeOK
  <2>3. CASE UNCHANGED controller
    BY <2>3
  <2>4. (\E t \in Type : Serve(t) \/ Scan(t) \/ Send(t)) \/ (\E failed \in SUBSET served : Poll(failed))
        \/ EndOfPoll \/ PollerStops \/ Receive \/ RefuseController
        \/ Signal \/ EngageStop \/ GracePeriodEnds
        => UNCHANGED controller
    BY DEF Serve, Scan, Send, Poll, EndOfPoll, PollerStops, Receive, RefuseController, Signal,
           EngageStop, GracePeriodEnds
  <2> QED
    BY <2>1, <2>2, <2>3, <2>4 DEF Next
<1> QED
  BY <1>1, InvInit, InvStep, PTL DEF Spec, ControllersStartOnce
=============================================================================
