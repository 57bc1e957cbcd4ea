--------------------------- MODULE MCAccountPool ---------------------------
(* Instance of AccountPool for TLC.                                        *)
EXTENDS AccountPoolRefinement, TLC

MCSymmetry == Permutations(Uid)
=============================================================================
