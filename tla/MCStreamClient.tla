---------------------------- MODULE MCStreamClient ----------------------------
(***************************************************************************)
(* Instances of StreamClient for TLC.                                      *)
(***************************************************************************)
EXTENDS StreamClient, TLC

CONSTANTS m1, m2

\* Messages are interchangeable.
Symmetry == Permutations({m1, m2})

Posted == {m \in Messages : \/ \E i \in DOMAIN taken : taken[i] = m
                            \/ \E i \in DOMAIN queue : queue[i] = Send(m)
                            \/ \E i \in DOMAIN exe : exe[i] = Send(m)}

\* Two instances in one: one message, and input; or two messages only.
Instances == Cardinality(Posted) = 2 => peer = 0
===============================================================================
