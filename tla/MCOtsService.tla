----------------------------- MODULE MCOtsService -----------------------------
(* Symmetry for TLC: requests, and commitments, are interchangeable. *)
EXTENDS OtsService, TLC

Symmetry == Permutations(Requests) \cup Permutations(Commitments)
=============================================================================
