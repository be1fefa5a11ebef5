----------------------- MODULE MCDeliveryCoordinator -----------------------
(* Instances of DeliveryCoordinator for TLC. *)
EXTENDS DeliveryCoordinator, TLC

SubscriptionSymmetry == Permutations(Subscriptions)
=============================================================================
