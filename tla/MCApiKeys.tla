----------------------------- MODULE MCApiKeys ------------------------------
(* Model-checking instance of ApiKeys. *)
EXTENDS ApiKeys, TLC

\* The requests are interchangeable.
SlotSymmetry == Permutations(Slots)
=============================================================================
