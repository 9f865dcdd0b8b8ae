----------------------------- MODULE MCRegistry -----------------------------
(* Small instances of Registry. *)
EXTENDS Registry, TLC

(* Connections are alike. *)
Symmetry == Permutations(Connections)
=============================================================================
