----------------------------- MODULE FifoExecutor -----------------------------
(***************************************************************************)
(* What one executor of the Loop promises to its users: the tasks handed   *)
(* to it run one at a time, each exactly once, in the order in which they  *)
(* were posted.  Nothing is said about when: a stopped loop runs nothing.  *)
(***************************************************************************)
EXTENDS Naturals, Sequences

CONSTANT Tasks

VARIABLES posted,   \* the tasks in the order of their posts
          ran       \* the tasks in the order of their executions

fifoVars == <<posted, ran>>

FifoInit == posted = <<>> /\ ran = <<>>

Post(task) == posted' = Append(posted, task) /\ UNCHANGED ran

Run ==
  /\ Len(ran) < Len(posted)
  /\ ran' = Append(ran, posted[Len(ran) + 1])
  /\ UNCHANGED posted

FifoNext == Run \/ \E task \in Tasks : Post(task)

FifoSpec == FifoInit /\ [][FifoNext]_fifoVars
===============================================================================
