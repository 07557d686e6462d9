--------------------------- MODULE MCAttachments ----------------------------
(* Small instances of Attachments for TLC. *)
EXTENDS Attachments, TLC

Symmetry == Permutations(Content) \cup Permutations(File) \cup Permutations(Editor)
=============================================================================
