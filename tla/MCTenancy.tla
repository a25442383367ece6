------------------------------ MODULE MCTenancy ------------------------------
(* Small instances of Tenancy for TLC. *)
EXTENDS Tenancy, TLC

Symmetry == Permutations(Organization) \cup Permutations(Tab) \cup Permutations(Connection)
=============================================================================
