--------------------------- MODULE MCAnnouncement ---------------------------
(* Small instances of Announcement for TLC. *)
EXTENDS Announcement, TLC

Symmetry == Permutations(Dept) \cup Permutations(Editor)
=============================================================================
