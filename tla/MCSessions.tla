----------------------------- MODULE MCSessions -----------------------------
(* Small instances of Sessions for TLC. *)
EXTENDS Sessions, TLC

\* Requests and users are interchangeable: no action orders or names them.
Symmetry == Permutations(Request) \cup Permutations(User)
=============================================================================
