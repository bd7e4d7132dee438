----------------------------- MODULE MCTilepack -----------------------------
(* Tilepack for TLC. *)
EXTENDS Tilepack, TLC

Symmetric == Permutations(Clients)
=============================================================================
