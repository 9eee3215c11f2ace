-------------------------- MODULE MCPromLinkedList --------------------------
(***************************************************************************)
(* Model-checking instance of PromLinkedList.  Items are model values:     *)
(* the list only stores and compares them, so they are interchangeable.    *)
(***************************************************************************)
EXTENDS PromLinkedList, TLC

ItemSymmetry == Permutations(Items)
=============================================================================
