------------------------------ MODULE MCFrames ------------------------------
(***************************************************************************)
(* Instances of the frames for TLC.                                        *)
(***************************************************************************)
EXTENDS Frames

CONSTANTS t1, t2, t3, a1, a2
=============================================================================
