----------------------------- MODULE MCWikiTree ------------------------------
(* Small instances of WikiTree for TLC. *)
EXTENDS WikiTree, TLC

Symmetry == Permutations(Node) \cup Permutations(Editor)

(* Nothing is promised after requests crossed: do not go on from there. *)
Promising == ~ crossed
=============================================================================
