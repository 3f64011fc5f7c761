-------------------------- MODULE MCDeviceRegistry --------------------------
(***************************************************************************)
(* DeviceRegistry for TLC: two devices with two interfaces each at two     *)
(* addresses, over queues of two, so that an address is used again while a *)
(* detach is queued, events are dropped, and claims and releases fail in   *)
(* part; one slot, so that the table fills up.  The theorems of            *)
(* DeviceRegistryProofs and DeviceBusProofs are for any number of slots.   *)
(***************************************************************************)
EXTENDS DeviceRegistry
=============================================================================
