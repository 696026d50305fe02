----------------------------- MODULE MCUdpSocket ------------------------------
(***************************************************************************)
(* Instances of UdpSocket for TLC.                                         *)
(***************************************************************************)
EXTENDS UdpSocket, TLC

CONSTANTS p1, p2, g1, t1, t2

\* Peers are interchangeable.
Symmetry == Permutations(Peers)
===============================================================================
