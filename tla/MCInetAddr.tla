------------------------------ MODULE MCInetAddr ------------------------------
(***************************************************************************)
(* The module that TLC checks InetAddr with; the constants are in the cfg. *)
(***************************************************************************)
EXTENDS InetAddr
===============================================================================
