----------------------------- MODULE MCDelivery -----------------------------
(* Delivery as it is: the cfg gives its sets.                              *)
EXTENDS Delivery
=============================================================================
