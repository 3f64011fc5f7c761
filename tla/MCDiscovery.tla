---------------------------- MODULE MCDiscovery ----------------------------
(***************************************************************************)
(* Instances of Discovery for TLC: a key is unset or has one name, and one *)
(* device comes and goes.  In discovery mDNS may refuse; in                *)
(* discovery_board it never does.                                          *)
(***************************************************************************)
EXTENDS Discovery
=============================================================================
