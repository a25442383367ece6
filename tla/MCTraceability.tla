--------------------------- MODULE MCTraceability ---------------------------
(* Small instances of Traceability for TLC. *)
EXTENDS Traceability, TLC

Symmetry == Permutations(Request) \cup Permutations(Requirement)
            \cup Permutations(Case) \cup Permutations(Defect)
=============================================================================
