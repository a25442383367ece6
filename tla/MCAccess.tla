------------------------------ MODULE MCAccess ------------------------------
(* Small instances of Access for TLC. *)
EXTENDS Access, TLC

Symmetry == Permutations(Request) \cup Permutations(User) \cup Permutations(Project)
=============================================================================
