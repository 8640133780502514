----------------------------- MODULE MCMainLoop -----------------------------
(***************************************************************************)
(* Instances of the main loop for TLC.                                     *)
(***************************************************************************)
EXTENDS MainLoop

CONSTANTS t1, t2
=============================================================================
