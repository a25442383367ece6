---------------------------- MODULE MCTestDesign ----------------------------
(* Small instances of TestDesign for TLC. *)
EXTENDS TestDesign, TLC

Symmetry == Permutations(Request) \cup Permutations(Section) \cup Permutations(Case)
=============================================================================
