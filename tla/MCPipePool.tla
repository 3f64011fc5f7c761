---------------------------- MODULE MCPipePool ----------------------------
(***************************************************************************)
(* Instances of PipePool for TLC.                                          *)
(***************************************************************************)
EXTENDS PipePool, TLC

\* Callers and transfer objects are interchangeable: nothing in PipePool
\* names one of them.  Used for safety only.
Symmetry == Permutations(Callers) \cup Permutations(Transfers)
=============================================================================
