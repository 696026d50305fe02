----------------------------- MODULE MCLoopEvents -----------------------------
(***************************************************************************)
(* Instances of LoopEvents for TLC.                                        *)
(***************************************************************************)
EXTENDS LoopEvents, TLC

CONSTANTS f1, f2, c1, c2

\* Files and channels are interchangeable.
Symmetry == Permutations({f1, f2}) \cup Permutations({c1, c2})
===============================================================================
