------------------------- MODULE MCServerLifecycle -------------------------
(* The servers of the PF resource and of one of its topology tiers, which  *)
(* share the devices.                                                      *)
EXTENDS ServerLifecycle
=============================================================================
