----------------------------- MODULE MCDelivery -----------------------------
(* Build nodes, their runners and the sweep, with no part at rest. *)
EXTENDS Delivery

Spec == DeliveryInit /\ [][DeliveryNext]_deliveryVars
=============================================================================
