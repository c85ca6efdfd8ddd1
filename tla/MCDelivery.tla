----------------------------- MODULE MCDelivery -----------------------------
(* Delivery with one user commit: two Target heads, hence two Attempts.    *)
EXTENDS Delivery

=============================================================================
