------------------------------ MODULE MCMemoEditor ------------------------------
(***************************************************************************)
(* Instances of MemoEditor for TLC: texts and ids are interchangeable.     *)
(***************************************************************************)
EXTENDS MemoEditor, TLC

Symmetry == Permutations(Texts) \cup Permutations(RequestIds)
================================================================================
