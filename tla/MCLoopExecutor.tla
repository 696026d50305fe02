---------------------------- MODULE MCLoopExecutor ----------------------------
(***************************************************************************)
(* Instances of LoopExecutor for TLC: `main` controls the loop (it calls   *)
(* start(), stop() and ~Loop()), `producer` is a thread that only posts.   *)
(***************************************************************************)
EXTENDS LoopExecutor, TLC

CONSTANTS main, producer, i1, i2, h1, h2

MainAndIo    == {main, Io}
MainAndHeavy == {main, Heavy}
OnlyIo       == {Io}

\* Which task is posted first is a matter of names.
Symmetry == Permutations(IoTasks) \cup Permutations(HeavyTasks)
===============================================================================
