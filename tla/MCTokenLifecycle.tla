-------------------------- MODULE MCTokenLifecycle --------------------------
(* Instances of TokenLifecycle for TLC.                                    *)
EXTENDS TokenLifecycle, TLC

MCSymmetry == Permutations(Saver) \cup Permutations(Obj)
=============================================================================
