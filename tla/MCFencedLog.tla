----------------------------- MODULE MCFencedLog -----------------------------
(* Model-checking instance of FencedLog: sessions, proposals and requests   *)
(* are interchangeable.                                                     *)
EXTENDS FencedLog, TLC

Symmetry ==
    Permutations(Writer) \cup Permutations(Proposal) \cup Permutations(Request)
=============================================================================
