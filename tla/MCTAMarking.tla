---------------------------- MODULE MCTAMarking ----------------------------
(* Instances of TAMarking for TLC; the constants are set in the cfgs.      *)
EXTENDS TAMarking
=============================================================================
