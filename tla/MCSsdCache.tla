----------------------------- MODULE MCSsdCache -----------------------------
(***************************************************************************)
(* Instances of SsdCache for TLC.                                          *)
(***************************************************************************)
EXTENDS SsdCache, TLC

\* Blocks may be exchanged for one another: nothing orders them.
BlockSymmetry == Permutations(Blocks)
=============================================================================
