--------------------------- MODULE MCContactStore ---------------------------
(* Symmetry of the constants of ContactStore. *)
EXTENDS ContactStore, TLC

Symmetry == Permutations(Apps) \cup Permutations(Uids) \cup Permutations(Vals)
=============================================================================
