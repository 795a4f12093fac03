---------------------------- MODULE MCPosixStorage ----------------------------
(* Model-checking instance of PosixStorage: calls, payloads and requests    *)
(* are interchangeable.                                                     *)
EXTENDS PosixStorage, FiniteSets, TLC

Symmetry == Permutations(Call) \cup Permutations(Data) \cup Permutations(Request)

Begun == {c \in Call : pc[c] # "new"}

(* Bound: a fourth call begins only on a path that is durable, and when at  *)
(* most one of the calls creates the object and at most one removes it.     *)
FourthCall ==
    Cardinality(Begun) = 4 =>
        /\ \A i \in 1..Depth : parts[i] = "durable"
        /\ \A k \in {"put", "delete"} : Cardinality({c \in Begun : args[c].kind = k}) <= 1
=============================================================================
