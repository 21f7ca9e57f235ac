----------------------------- MODULE MCStmCore -----------------------------
(* Small instances of StmCore for the model checker.                       *)
EXTENDS StmCore, TLC

\* Threads, objects and values are interchangeable.
Symmetry == Permutations(Threads) \cup Permutations(Objects)
              \cup Permutations(Values)
=============================================================================
