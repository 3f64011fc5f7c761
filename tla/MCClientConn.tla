---------------------------- MODULE MCClientConn ----------------------------
(***************************************************************************)
(* ClientConn for TLC: two clients and the HTTP server over two            *)
(* descriptors, two devices that take turns at two addresses in one slot,  *)
(* and a virtual device with a buffer of a byte.  One client asks for      *)
(* whatever is listed at one address, or for the virtual device; the other *)
(* for the virtual device.                                                 *)
(***************************************************************************)
EXTENDS ClientConn, TLC

CONSTANTS c1, c2, a1, a2, v

TheAsks == c1 :> {a1, v} @@ c2 :> {v}
=============================================================================
