---------------------------- MODULE MCMembership ----------------------------
(* Small instances of Membership for TLC. *)
EXTENDS Membership, TLC

\* Only the founder is named.
Symmetry == Permutations(Request) \cup Permutations(User \ {Founder})
=============================================================================
