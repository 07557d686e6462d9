----------------------------- MODULE MCOrdering -----------------------------
(* Small instances of Ordering for TLC. *)
EXTENDS Ordering, TLC

Symmetry == Permutations(Content) \cup Permutations(Editor)
=============================================================================
