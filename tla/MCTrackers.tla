----------------------------- MODULE MCTrackers -----------------------------
(* Small instances of Trackers for TLC. *)
EXTENDS Trackers, TLC

Symmetry == Permutations(Request) \cup Permutations(Text) \cup Permutations(Item)
=============================================================================
