--------------------------- MODULE MCCommittedPaths ---------------------------
(* Instances of CommittedPaths for TLC; the constants are in the .cfg files. *)
EXTENDS CommittedPaths, TLC

Alike == Permutations(Monitors) \cup Permutations(Modes)
=============================================================================
