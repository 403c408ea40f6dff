----------------------------- MODULE MCChangeLog -----------------------------
(* Symmetry of the constants of ChangeLog. *)
EXTENDS ChangeLog, TLC

Symmetry ==
  Permutations(Peers) \cup Permutations(Uids) \cup Permutations(Apps \ {Sync})
=============================================================================
