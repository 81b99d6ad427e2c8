--------------------------- MODULE UpstreamManager ---------------------------
(***************************************************************************)
(* UpstreamManager::reconcile call by call.  The packet library adds a     *)
(* subscription, joins it, leaves it and removes it; adding, joining and   *)
(* leaving may fail, and every call takes effect on the network at once.   *)
(*                                                                         *)
(* The code goes through subscriptions in the order of their keys and      *)
(* takes additions back in reverse; here the order is arbitrary.           *)
(***************************************************************************)
CONSTANT Subscription

VARIABLES pc,       \* where reconcile is: idle, adding, joining, undoing, removing
          active,   \* UpstreamManager.active
          added,    \* the library's subscriptions
          joined,   \* those of them that are joined
          desired,  \* the subscriptions asked for
          stale,    \* those still to be left
          fresh,    \* new_subscriptions
          left,     \* those already left
          current   \* the one just added to the library, a set of at most one

managerVars == <<pc, active, added, joined, desired, stale, fresh, left, current>>

ManagerTypeOK ==
  /\ pc \in {"idle", "adding", "joining", "undoing", "removing"}
  /\ active \in SUBSET Subscription /\ added \in SUBSET Subscription
  /\ joined \in SUBSET Subscription /\ desired \in SUBSET Subscription
  /\ stale \in SUBSET Subscription /\ fresh \in SUBSET Subscription
  /\ left \in SUBSET Subscription /\ current \in SUBSET Subscription

ManagerInit ==
  /\ pc = "idle"
  /\ active = {} /\ added = {} /\ joined = {} /\ desired = {} /\ stale = {}
  /\ fresh = {} /\ left = {} /\ current = {}
-----------------------------------------------------------------------------
Start(subscriptions) ==
  /\ pc = "idle"
  /\ pc' = "adding"
  /\ desired' = subscriptions
  /\ stale' = active \ subscriptions
  /\ fresh' = {} /\ left' = {}
  /\ UNCHANGED <<active, added, joined, current>>

AddSubscription(s) ==
  /\ pc = "adding" /\ s \in desired \ active
  /\ pc' = "joining"
  /\ added' = added \cup {s}
  /\ current' = {s}
  /\ UNCHANGED <<active, joined, desired, stale, fresh, left>>

AddFails ==
  /\ pc = "adding" /\ desired \ active # {}
  /\ pc' = "undoing"
  /\ UNCHANGED <<active, added, joined, desired, stale, fresh, left, current>>

JoinSubscription(s) ==
  /\ pc = "joining" /\ s \in current
  /\ pc' = "adding"
  /\ joined' = joined \cup {s}
  /\ active' = active \cup {s}
  /\ fresh' = fresh \cup {s}
  /\ current' = {}
  /\ UNCHANGED <<added, desired, stale, left>>

JoinFails(s) ==
  /\ pc = "joining" /\ s \in current
  /\ pc' = "undoing"
  /\ added' = added \ {s}
  /\ current' = {}
  /\ UNCHANGED <<active, joined, desired, stale, fresh, left>>

(* rollback_additions, one addition: that its leave failed is ignored, and   *)
(* removing it from the library ends its membership too.                     *)
Undo(s) ==
  /\ pc = "undoing" /\ s \in fresh
  /\ active' = active \ {s} /\ added' = added \ {s} /\ joined' = joined \ {s}
  /\ fresh' = fresh \ {s}
  /\ UNCHANGED <<pc, desired, stale, left, current>>

ReturnError ==
  /\ pc = "undoing" /\ fresh = {}
  /\ pc' = "idle"
  /\ UNCHANGED <<active, added, joined, desired, stale, fresh, left, current>>

(* Mutant: stale subscriptions are left while others are still to be added. *)
AllAddedEarly ==
  /\ pc = "adding"
  /\ pc' = "removing"
  /\ UNCHANGED <<active, added, joined, desired, stale, fresh, left, current>>

AllAdded ==
  /\ pc = "adding" /\ desired \subseteq active
  /\ pc' = "removing"
  /\ UNCHANGED <<active, added, joined, desired, stale, fresh, left, current>>

LeaveSubscription(s) ==
  /\ pc = "removing" /\ s \in stale
  /\ active' = active \ {s} /\ added' = added \ {s} /\ joined' = joined \ {s}
  /\ stale' = stale \ {s}
  /\ left' = left \cup {s}
  /\ UNCHANGED <<pc, desired, fresh, current>>

LeaveFails(s) ==
  /\ pc = "removing" /\ s \in stale
  /\ stale' = stale \ {s}
  /\ UNCHANGED <<pc, active, added, joined, desired, fresh, left, current>>

Return ==
  /\ pc = "removing" /\ stale = {}
  /\ pc' = "idle"
  /\ fresh' = {} /\ left' = {}
  /\ UNCHANGED <<active, added, joined, desired, stale, current>>

ManagerNext ==
  \/ \E subscriptions \in SUBSET Subscription : Start(subscriptions)
  \/ \E s \in Subscription :
       \/ AddSubscription(s) \/ JoinSubscription(s) \/ JoinFails(s) \/ Undo(s)
       \/ LeaveSubscription(s) \/ LeaveFails(s)
  \/ AddFails \/ ReturnError \/ AllAdded \/ Return

ManagerSpec == ManagerInit /\ [][ManagerNext]_managerVars
-----------------------------------------------------------------------------
(* What the manager calls active is joined, and between reconciles the        *)
(* library has nothing else: neither a failed join nor a rollback leaves a    *)
(* subscription behind that nobody would ever remove (reconcile,              *)
(* rollback_additions).                                                       *)
LibraryMatches ==
  /\ active = joined
  /\ added = active \cup current
  /\ pc = "idle" => added = active

(* A subscription that was active before a reconcile and is still desired is  *)
(* joined all along: its packets keep arriving, whatever fails.               *)
Before == (active \ fresh) \cup left
Uninterrupted == Before \cap desired \subseteq joined

(* To its caller a reconcile is one step that either has all it was asked     *)
(* for or changes nothing; Relay takes that step.                             *)
Visible == IF pc = "idle" THEN active ELSE Before
Abstract == INSTANCE Subscriptions WITH wanted <- desired, subscribed <- Visible
ReconcileAtomic == Abstract!SubscriptionsSpec

(* A reconcile is one step to its caller although it is many calls of the     *)
(* library, any of which may fail, and loses nothing on the way               *)
(* (UpstreamManager::reconcile).                                              *)
ReconcileSound == [](LibraryMatches /\ Uninterrupted) /\ ReconcileAtomic
=============================================================================
