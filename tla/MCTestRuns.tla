----------------------------- MODULE MCTestRuns -----------------------------
(* Small instances of TestRuns for TLC. *)
EXTENDS TestRuns, TLC

\* No action orders or names the members of these sets.
Symmetry ==
    Permutations(Request) \cup Permutations(Run) \cup Permutations(TestCase)
=============================================================================
