------------------------------- MODULE MCSync -------------------------------
(***************************************************************************)
(* Instances of SyncSystem for TLC.  Workers and mirrors are interchange-  *)
(* able: no action and no safety property singles one out.                 *)
(***************************************************************************)
EXTENDS SyncSystem, TLC

Symmetry == Permutations(Mirrors) \cup Permutations(Workers)
=============================================================================
