----------------------------- MODULE MCLoginFlow -----------------------------
(* Instances of LoginFlow for TLC; every login is named after its kind.    *)
EXTENDS LoginFlow

MCKindOf == [f \in Flow |-> f]
=============================================================================
