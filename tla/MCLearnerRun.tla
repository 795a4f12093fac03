--------------------------- MODULE MCLearnerRun ---------------------------
(* Model-checking instance of LearnerRun: its configurations. *)
EXTENDS LearnerRun

Open == [limit |-> 0, adopt |-> TRUE, skips |-> FALSE, keep |-> 0,
         updates |-> Unset, faults |-> {"crash", "takeover"}]

MCOpen == {Open}

(* The open-ended run with crashes; with retention; with a local limit,     *)
(* skipped uploads and crashes; with a local limit and without adoption.    *)
MCModes ==
    {Open,
     [Open EXCEPT !.keep = 1, !.updates = 1, !.faults = {}],
     [Open EXCEPT !.limit = 2, !.skips = TRUE, !.keep = 1, !.faults = {"crash"}],
     [Open EXCEPT !.limit = 2, !.adopt = FALSE, !.faults = {"takeover"}]}
=============================================================================
