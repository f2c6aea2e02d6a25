------------------------------- MODULE MCRecords -------------------------------
(***************************************************************************)
(* Two buyers, whose rows are interchangeable, and two keys.               *)
(***************************************************************************)
EXTENDS Records, TLC

BuyerSymmetry == Permutations(Buyers)
===============================================================================
