------------------------- MODULE MCPermissionAudit --------------------------
(* Small instances of PermissionAudit for TLC. *)
EXTENDS PermissionAudit, TLC

Symmetry == Permutations(Dept) \cup Permutations(Item) \cup Permutations(Run)
              \cup Permutations(LogId)
=============================================================================
