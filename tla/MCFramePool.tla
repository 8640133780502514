---------------------------- MODULE MCFramePool -----------------------------
(***************************************************************************)
(* Instances of the frame pool for TLC.                                    *)
(***************************************************************************)
EXTENDS FramePool
=============================================================================
