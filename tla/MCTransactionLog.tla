-------------------------- MODULE MCTransactionLog --------------------------
(* Model-checking instance of TransactionLog.                               *)
EXTENDS TransactionLog, TLC

Symmetry == Permutations(Process) \cup Permutations(RunSpec)

Trained(l, seq, base, version) ==
    [learner |-> l, session |-> 1, seq |-> seq, fragment |-> 0, base |-> base,
     version |-> version]

(* Two learners at the genesis, and one of them again, from the genesis.    *)
MCOffered ==
    {Trained("l1", 1, 0, 0), Trained("l2", 1, 0, 0), Trained("l1", 2, 0, 0)}
=============================================================================
