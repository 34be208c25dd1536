------------------------------ MODULE Discovery ------------------------------
(***************************************************************************)
(* How resource types get their controllers: PollNewResourceTypes and      *)
(* SetupGraphReconciler (graph/setup.go), two runnables of the manager     *)
(* joined by the bounded resourceChannel, SetupWithManager                 *)
(* (graph/reconciler.go), and of controller-runtime and the API server     *)
(* what these depend on.                                                   *)
(*                                                                         *)
(* A type is a group, version and kind.  The builder adds a controller to  *)
(* the manager, which starts it at once, before it gives the controller    *)
(* its watch; the two then race for the controller's mutex:                *)
(*                                                                         *)
(*   none -> created -> watched -> syncing ---> watching   Watch first     *)
(*                |                   `-------> failed                     *)
(*                `---> bare ---> attaching --> watching   Start first     *)
(*                                    `-------> deaf                       *)
(*                                                                         *)
(* Either way a goroutine of the watch asks the cache for the type's       *)
(* informer.  The cache looks the type up with the manager's mapper, whose *)
(* idea of what is served is its own: it does not have a type that was     *)
(* installed lately if its reloads are rationed or lack the type's group.  *)
(* Whether it has the type is left open.                                   *)
(***************************************************************************)
EXTENDS SequencesExt

CONSTANTS
  Type,      \* group-version-kinds
  KindOf,    \* KindOf[t]: the group-kind of t
  Preferred, \* the types at the preferred version of their group
  Ignored,   \* types of a kind of gkSet, or without list, get and watch
  Cap        \* the capacity of resourceChannel (100 in the code)

ASSUME DiscoveryAssumption ==
  /\ Preferred \subseteq Type
  /\ Ignored \subseteq Type
  /\ \A s, t \in Preferred : KindOf[s] = KindOf[t] => s = t
  /\ Cap \in Nat \ {0}

VARIABLES
  served,          \* the types that the API server serves
  phase,           \* the manager: running, cancelled, stopping, stopped
  poller,          \* sleeping, scanning, sending, stopped
  found,           \* the types of this poll the poller has yet to look at
  unsent,          \* the type it is sending, as a set
  resourceTracker, \* every type the poller has recorded
  resourceChannel, \* the types on their way to the configurator
  configurator,    \* receiving, adding, watching, stopped
  received,        \* the type it sets up, or could not set up, as a set
  controller       \* controller[t]: see above; also "ended"

pollerVars == <<poller, found, unsent, resourceTracker>>
setupVars  == <<configurator, received, controller>>
vars == <<served, phase, pollerVars, resourceChannel, setupVars>>

Init ==
  /\ served          \in SUBSET Type
  /\ phase           = "running"
  /\ poller          = "sleeping"
  /\ found           = {}
  /\ unsent          = {}
  /\ resourceTracker = {}
  /\ resourceChannel = <<>>
  /\ configurator    = "receiving"
  /\ received        = {}
  /\ controller      = [t \in Type |-> "none"]

\* Once the manager has stopped main returns.  Of what a goroutine may still do
\* in that moment only RefuseController is of interest.
Alive == phase # "stopped"

-----------------------------------------------------------------------------
(* The API server *)

\* A definition is installed or removed, a version is turned on or off.
Serve(t) ==
  /\ Alive
  /\ served' = IF t \in served THEN served \ {t} ELSE served \cup {t}
  /\ UNCHANGED <<phase, pollerVars, resourceChannel, setupVars>>

\* ServerPreferredResources: of every kind one version, the preferred one if
\* the list of that version could be had.
Selections(listed) ==
  {S \in SUBSET listed :
     \A t \in listed :
       \E s \in S : /\ KindOf[s] = KindOf[t]
                    /\ \A u \in S : KindOf[u] = KindOf[t] => u = s
                    /\ t \in Preferred => s = t}

-----------------------------------------------------------------------------
(* PollNewResourceTypes *)

\* Group versions whose discovery failed are missing from the lists.  (If the
\* whole call fails the poll does nothing.)  Cancellation does not keep a tick
\* from being served: the select between the two is random.
Poll(failed) ==
  /\ Alive
  /\ poller = "sleeping"
  /\ found' \in Selections(served \ failed)
  /\ poller' = "scanning"
  /\ UNCHANGED <<served, phase, unsent, resourceTracker, resourceChannel, setupVars>>

PollCompletely == Poll({})

\* Faulty: the tracker is not consulted.
ScanUntracked(t) ==
  /\ Alive
  /\ poller = "scanning"
  /\ t \in found
  /\ found' = found \ {t}
  /\ IF t \in Ignored
     THEN UNCHANGED <<poller, unsent, resourceTracker>>
     ELSE /\ resourceTracker' = resourceTracker \cup {t}
          /\ unsent' = {t}
          /\ poller' = "sending"
  /\ UNCHANGED <<served, phase, resourceChannel, setupVars>>

\* One resource of the lists, in an order that is a map's.
Scan(t) ==
  /\ Alive
  /\ poller = "scanning"
  /\ t \in found
  /\ found' = found \ {t}
  /\ IF t \in Ignored \cup resourceTracker
     THEN UNCHANGED <<poller, unsent, resourceTracker>>
     ELSE /\ resourceTracker' = resourceTracker \cup {t}
          /\ unsent' = {t}
          /\ poller' = "sending"
  /\ UNCHANGED <<served, phase, resourceChannel, setupVars>>

\* Faulty: a select with a default, so that the poller need not wait.
SendOrDrop(t) ==
  /\ Alive
  /\ poller = "sending"
  /\ t \in unsent
  /\ resourceChannel' =
       IF Len(resourceChannel) < Cap THEN Append(resourceChannel, t) ELSE resourceChannel
  /\ unsent' = {}
  /\ poller' = "scanning"
  /\ UNCHANGED <<served, phase, found, resourceTracker, setupVars>>

\* Faulty: a slice in the place of the channel.
SendUnbounded(t) ==
  /\ Alive
  /\ poller = "sending"
  /\ t \in unsent
  /\ resourceChannel' = Append(resourceChannel, t)
  /\ unsent' = {}
  /\ poller' = "scanning"
  /\ UNCHANGED <<served, phase, found, resourceTracker, setupVars>>

Send(t) ==
  /\ Alive
  /\ poller = "sending"
  /\ t \in unsent
  /\ Len(resourceChannel) < Cap
  /\ resourceChannel' = Append(resourceChannel, t)
  /\ unsent' = {}
  /\ poller' = "scanning"
  /\ UNCHANGED <<served, phase, found, resourceTracker, setupVars>>

\* Faulty: the tracker belongs to the poll.
EndOfPollForget ==
  /\ Alive
  /\ poller = "scanning"
  /\ found = {}
  /\ poller' = "sleeping"
  /\ resourceTracker' = {}
  /\ UNCHANGED <<served, phase, found, unsent, resourceChannel, setupVars>>

EndOfPoll ==
  /\ Alive
  /\ poller = "scanning"
  /\ found = {}
  /\ poller' = "sleeping"
  /\ UNCHANGED <<served, phase, found, unsent, resourceTracker, resourceChannel, setupVars>>

\* The condition function never reports success, so the loop ends only with
\* ErrWaitTimeout and the channel is not closed.
PollerStops ==
  /\ phase \in {"cancelled", "stopping"}
  /\ poller = "sleeping"
  /\ poller' = "stopped"
  /\ UNCHANGED <<served, phase, found, unsent, resourceTracker, resourceChannel, setupVars>>

-----------------------------------------------------------------------------
(* SetupGraphReconciler *)

Receive ==
  /\ Alive
  /\ configurator = "receiving"
  /\ resourceChannel # <<>>
  /\ received' = {Head(resourceChannel)}
  /\ resourceChannel' = Tail(resourceChannel)
  /\ configurator' = "adding"
  /\ UNCHANGED <<served, phase, pollerVars, controller>>

\* Manager.Add, which starts the controller.  The manager's mutex is held by
\* the stop procedure while that waits.
AddController(t) ==
  /\ phase \in {"running", "cancelled"}
  /\ configurator = "adding"
  /\ t \in received
  /\ controller' = [controller EXCEPT ![t] = "created"]
  /\ configurator' = "watching"
  /\ UNCHANGED <<served, phase, pollerVars, resourceChannel, received>>

\* After that the manager takes no runnable.  This is the only error that
\* SetupWithManager can have, and with it the configurator returns.
RefuseController ==
  /\ phase = "stopped"
  /\ configurator = "adding"
  /\ configurator' = "stopped"
  /\ UNCHANGED <<served, phase, pollerVars, resourceChannel, received, controller>>

\* Controller.Watch: noted for Start, or, after it, a goroutine started that
\* is to attach the controller to its informer.
WatchType(t) ==
  /\ Alive
  /\ configurator = "watching"
  /\ t \in received
  /\ controller' = [controller EXCEPT ![t] =
       CASE @ = "created" -> "watched"
         [] @ = "bare"    -> "attaching"
         [] OTHER         -> @]
  /\ received' = {}
  /\ configurator' = "receiving"
  /\ UNCHANGED <<served, phase, pollerVars, resourceChannel>>

-----------------------------------------------------------------------------
(* Controllers *)

StartController(t) ==
  /\ Alive
  /\ controller[t] \in {"created", "watched"}
  /\ controller' = [controller EXCEPT ![t] = IF @ = "created" THEN "bare" ELSE "syncing"]
  /\ UNCHANGED <<served, phase, pollerVars, resourceChannel, configurator, received>>

\* The type's objects have been listed, and those of every other informer of
\* the cache; the workers start.
SyncCache(t) ==
  /\ Alive
  /\ controller[t] = "syncing"
  /\ t \in served
  /\ controller' = [controller EXCEPT ![t] = "watching"]
  /\ UNCHANGED <<served, phase, pollerVars, resourceChannel, configurator, received>>

\* There is no informer for the type, or they have not been listed within
\* CacheSyncTimeout, two minutes.  The controller's error is the manager's.
SyncFails(t) ==
  /\ Alive
  /\ controller[t] = "syncing"
  /\ controller' = [controller EXCEPT ![t] = "failed"]
  /\ phase' = IF phase = "running" THEN "cancelled" ELSE phase
  /\ UNCHANGED <<served, pollerVars, resourceChannel, configurator, received>>

\* The handler is added to the informer when that has listed the type; the
\* workers are running already.
AttachWatch(t) ==
  /\ Alive
  /\ controller[t] = "attaching"
  /\ t \in served
  /\ controller' = [controller EXCEPT ![t] = "watching"]
  /\ UNCHANGED <<served, phase, pollerVars, resourceChannel, configurator, received>>

\* There is no informer for the type: the goroutine offers its error on a
\* channel that nobody reads, Start being past it.  The controller runs and
\* will never hear of an object.
LoseWatch(t) ==
  /\ Alive
  /\ controller[t] = "attaching"
  /\ controller' = [controller EXCEPT ![t] = "deaf"]
  /\ UNCHANGED <<served, phase, pollerVars, resourceChannel, configurator, received>>

ControllerEnds(t) ==
  /\ phase \in {"cancelled", "stopping"}
  /\ controller[t] \notin {"none", "failed", "ended"}
  /\ controller' = [controller EXCEPT ![t] = "ended"]
  /\ UNCHANGED <<served, phase, pollerVars, resourceChannel, configurator, received>>

-----------------------------------------------------------------------------
(* The manager *)

Signal ==
  /\ phase = "running"
  /\ phase' = "cancelled"
  /\ UNCHANGED <<served, pollerVars, resourceChannel, setupVars>>

\* engageStopProcedure takes the mutex ...
EngageStop ==
  /\ phase = "cancelled"
  /\ phase' = "stopping"
  /\ UNCHANGED <<served, pollerVars, resourceChannel, setupVars>>

\* ... and waits for the runnables.  The configurator is one of them and does
\* not return before, so what ends the wait is always the grace period.
GracePeriodEnds ==
  /\ phase = "stopping"
  /\ phase' = "stopped"
  /\ UNCHANGED <<served, pollerVars, resourceChannel, setupVars>>

-----------------------------------------------------------------------------
Next ==
  \/ \E t \in Type : Serve(t)
  \/ \E failed \in SUBSET served : Poll(failed)
  \/ \E t \in Type : Scan(t)
  \/ \E t \in Type : Send(t)
  \/ EndOfPoll
  \/ PollerStops
  \/ Receive
  \/ \E t \in Type : AddController(t)
  \/ RefuseController
  \/ \E t \in Type : WatchType(t)
  \/ \E t \in Type : StartController(t)
  \/ \E t \in Type : SyncCache(t)
  \/ \E t \in Type : SyncFails(t)
  \/ \E t \in Type : AttachWatch(t)
  \/ \E t \in Type : LoseWatch(t)
  \/ \E t \in Type : ControllerEnds(t)
  \/ Signal
  \/ EngageStop
  \/ GracePeriodEnds

Spec == Init /\ [][Next]_vars

\* Every goroutine that can run does, the random select between a tick and
\* the cancellation is not won by the tick for ever, and now and then all of
\* discovery succeeds.  An informer lists a type that stays served; a Start
\* that waits for more than that has its timeout.
Fairness ==
  /\ SF_vars(PollCompletely)
  /\ SF_vars(PollerStops)
  /\ WF_vars(EndOfPoll)
  /\ WF_vars(Receive)
  /\ WF_vars(EngageStop)
  /\ \A t \in Type : /\ WF_vars(Scan(t))
                     /\ WF_vars(Send(t))
                     /\ WF_vars(AddController(t))
                     /\ WF_vars(WatchType(t))
                     /\ WF_vars(StartController(t))
                     /\ WF_vars(SyncCache(t) \/ SyncFails(t))
                     /\ WF_vars(AttachWatch(t))
                     /\ WF_vars(ControllerEnds(t))

FairSpec == Spec /\ Fairness

\* A manager that gives its runnables all the time they want.
PatientSpec == Init /\ [][Next /\ phase' # "stopped"]_vars /\ Fairness

-----------------------------------------------------------------------------
(* Properties *)

TypeOK ==
  /\ served          \subseteq Type
  /\ phase           \in {"running", "cancelled", "stopping", "stopped"}
  /\ poller          \in {"sleeping", "scanning", "sending", "stopped"}
  /\ found           \subseteq Type
  /\ unsent          \subseteq Type
  /\ resourceTracker \subseteq Type
  /\ resourceChannel \in Seq(Type)
  /\ Len(resourceChannel) <= Cap
  /\ configurator    \in {"receiving", "adding", "watching", "stopped"}
  /\ received        \subseteq Type
  /\ controller      \in [Type -> {"none", "created", "watched", "bare", "syncing",
                                   "attaching", "watching", "failed", "deaf", "ended"}]

HasController == {t \in Type : controller[t] # "none"}

\* Nothing is lost and nothing is set up twice between the poller and the
\* configurator: a recorded type is in exactly one place, with the poller,
\* once in the channel, with the configurator, or with its controller.  (The
\* tracker remembers a type before it is sent and for ever; were it dropped on
\* the way no later poll would bring it back, and a second controller for it
\* would reconcile its objects concurrently with the first.)
EachTypeInOnePlace ==
  LET inChannel == ToSet(resourceChannel)
      setUp     == HasController \ received
  IN  /\ resourceTracker = unsent \cup inChannel \cup received \cup setUp
      /\ unsent \cap (inChannel \cup received \cup setUp) = {}
      /\ inChannel \cap (received \cup setUp) = {}
      /\ IsInjective(resourceChannel)

\* A controller is created once: it never goes back to where it has been.
ControllersStartOnce ==
  [][\A t \in Type : controller[t] # "none" => controller'[t] \notin {"none", "created"}
                                               \/ controller'[t] = controller[t]]_vars

\* A type that stays served gets its controller and comes to be watched, unless
\* the manager stops or there was no informer for it, the once that it was asked
\* for: whatever else is installed and removed, however small the channel, and
\* however often part of the discovery fails.  (The exception is the code's: a
\* controller that became deaf stays so, and since the tracker has the type no
\* later poll makes up for it.)
ServedTypesWatched ==
  \A t \in Preferred \ Ignored :
    <>[](t \in served /\ phase = "running") => <>(controller[t] \in {"watching", "deaf"})

\* The poller returns when it is told to, given the time.  Not what the code
\* does: it does not give up a send when its context is done, and the
\* configurator, who would have to empty the channel, waits for a mutex that
\* the stop procedure holds, so that neither of them returns.
PollerReturns == phase = "stopping" ~> poller = "stopped"
=============================================================================
