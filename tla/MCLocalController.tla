------------------------- MODULE MCLocalController -------------------------
(* Instances of LocalController for TLC. *)
EXTENDS LocalController, TLC

MCSymmetry == Permutations(Projects) \cup Permutations(Children)
=============================================================================
