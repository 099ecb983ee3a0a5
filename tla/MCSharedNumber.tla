-------------------------- MODULE MCSharedNumber --------------------------
(* An instance of SharedNumber for TLC: all the numbers of the program.    *)
EXTENDS SharedNumber

AllNumbers == 0 .. 10
=============================================================================
