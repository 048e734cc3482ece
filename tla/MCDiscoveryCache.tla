---------------------------- MODULE MCDiscoveryCache ----------------------------
(* Constants for model checking the discovery cache over the slot. *)
EXTENDS DiscoveryCache
=============================================================================
