------------------------------ MODULE MCSurvey -------------------------------
(* Small instances of Survey for TLC. *)
EXTENDS Survey, TLC

Symmetry ==
    Permutations(Post) \cup Permutations(Editor) \cup Permutations(List)
      \cup Permutations(Place) \cup Permutations(Title)
=============================================================================
