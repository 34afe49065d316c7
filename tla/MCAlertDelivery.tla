---------------------------- MODULE MCAlertDelivery ----------------------------
(* Two alerts, two overlapping runs of batches of one. *)
EXTENDS AlertDelivery, TLC

CONSTANTS w1, w2
===============================================================================
