---------------------------- MODULE Subscriptions ----------------------------
(***************************************************************************)
(* The native subscriptions as the relay sees them: a reconcile either     *)
(* changes nothing, or all that was asked for is active and what else      *)
(* stays was active before.                                                *)
(***************************************************************************)
CONSTANT Subscription
VARIABLES wanted,      \* the subscriptions last asked for
          subscribed   \* those that are active

SubscriptionsInit == wanted = {} /\ subscribed = {}

Ask(desired) == wanted' = desired /\ UNCHANGED subscribed

Succeed ==
  /\ \E stuck \in SUBSET (subscribed \ wanted) : subscribed' = wanted \cup stuck
  /\ UNCHANGED wanted

SubscriptionsNext == Succeed \/ \E desired \in SUBSET Subscription : Ask(desired)

SubscriptionsSpec == SubscriptionsInit /\ [][SubscriptionsNext]_<<wanted, subscribed>>
=============================================================================
