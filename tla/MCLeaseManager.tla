--------------------------- MODULE MCLeaseManager ---------------------------
(* Model-checking instance of LeaseManager.  The sessions differ only by    *)
(* their clocks, which Init chooses freely, so they are interchangeable.    *)
EXTENDS LeaseManager, TLC

Symmetry == Permutations(Session)
=============================================================================
