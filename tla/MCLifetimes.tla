---------------------------- MODULE MCLifetimes ----------------------------
EXTENDS Lifetimes, TLC

Symmetry == Permutations(Objects)

\* A third object is for one thread that works alone.
Used == {o \in Objects : heap.place[o] # "unborn"}
Bound == Cardinality(Used) = 3 =>
           /\ \A s \in Segs \ {1} : pc[s] = "none" /\ roots[s] = {}
           /\ \A o \in Objects : heap.kind[o] \in {"plain", "final"}
============================================================================
