------------------------------ MODULE MCDebounce ------------------------------
(***************************************************************************)
(* The debounce for model checking: requests and ids are interchangeable.  *)
(***************************************************************************)
EXTENDS DebounceRefinement, TLC

RequestSymmetry == Permutations(Requests)
IdSymmetry == Permutations(WaIds)
Symmetry == RequestSymmetry \cup IdSymmetry
===============================================================================
