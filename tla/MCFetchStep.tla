---------------------------- MODULE MCFetchStep ----------------------------
(* FetchStep for TLC. *)
EXTENDS FetchStep, TLC

(* Versions are only compared. *)
Symmetric == Permutations(Versions)
=============================================================================
