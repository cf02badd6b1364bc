------------------------------ MODULE PlugIotMC ------------------------------
(***************************************************************************)
(* The IOT mode for TLC: the constants are numbers, given in PlugIot.cfg.  *)
(***************************************************************************)
EXTENDS PlugIot
=============================================================================
