------------------------- MODULE MCTranslationSync --------------------------
(* Small instances of TranslationSync for TLC. *)
EXTENDS TranslationSync, TLC

Symmetry == Permutations(Content) \cup Permutations(Text) \cup Permutations(Editor)
=============================================================================
