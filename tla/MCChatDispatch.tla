--------------------------- MODULE MCChatDispatch ---------------------------
(* Instances of ChatDispatch for TLC.                                      *)
EXTENDS ChatDispatch, TLC

MCModelOf == [r \in Req |-> CHOOSE m \in Model : TRUE]
MCSymmetry == Permutations(Uid) \cup Permutations(Req)
=============================================================================
