-------------------------------- MODULE MCTurn --------------------------------
(***************************************************************************)
(* The turns of one or two conversations, for model checking.              *)
(***************************************************************************)
EXTENDS Turn, TLC

ConvSymmetry == Permutations(Convs)
QuestionSymmetry == Permutations(Questions)
===============================================================================
