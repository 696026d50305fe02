---------------------------- MODULE MCStreamServer ----------------------------
(***************************************************************************)
(* Instances of StreamServer for TLC.                                      *)
(***************************************************************************)
EXTENDS StreamServer, TLC

CONSTANTS c1, c2, f1, m1, m2, t1

\* Connections, descriptor numbers and messages are interchangeable.
Symmetry == Permutations(Conns) \cup Permutations(Fds)
              \cup Permutations(Messages) \cup Permutations(Callers)

Posted == {m \in Messages :
             \/ \E c \in Conns : \E i \in DOMAIN data[c].taken :
                  data[c].taken[i] = m
             \/ \E i \in DOMAIN queue : queue[i].op = "send" /\ queue[i].msg = m}
Made == {c \in Conns : sock[c].sk # "none"}

\* Two instances in one: little data, on both connections and with all that the
\* application may do; or all the data, on one connection that it only uses.
Instances ==
  \/ /\ Cardinality(Posted) <= 1 /\ Cardinality(Posted) + calls <= 2
     /\ \A c \in Conns : data[c].peer <= 2
  \/ Cardinality(Made) = 1 /\ calls = 0 /\ server = "owned"
===============================================================================
