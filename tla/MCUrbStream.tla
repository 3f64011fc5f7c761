---------------------------- MODULE MCUrbStream ----------------------------
(***************************************************************************)
(* Instances of UrbStream for TLC.  Sequence numbers are ordered and the   *)
(* slots are scanned in order, so there is no symmetry to use.             *)
(***************************************************************************)
EXTENDS UrbStream

\* Every way in which validation may end, the two that leave a payload unread
\* included.
AllVerdicts == {"ok", "einval", "emsgsize", "enodev", "enomem", "iso", "ep0dir"}
=============================================================================
