--------------------------- MODULE MCC8CommitLog ---------------------------
(* Small instances of C8CommitLog for the model checker.                   *)
EXTENDS C8CommitLog, TLC

\* Objects and values are interchangeable, segments are not (segment 0).
Symmetry == Permutations(Objects) \cup Permutations(Values)
=============================================================================
