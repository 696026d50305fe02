-------------------------------- MODULE MCTimer --------------------------------
(***************************************************************************)
(* The module that TLC checks Timer with; the constants are in the cfg.    *)
(***************************************************************************)
EXTENDS Timer
================================================================================
