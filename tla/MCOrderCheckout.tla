--------------------------- MODULE MCOrderCheckout ---------------------------
(* Small instances of OrderCheckout.                                        *)
EXTENDS OrderCheckout
=============================================================================
