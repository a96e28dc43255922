----------------------------- MODULE MCFrameSync -----------------------------
(* Instances of FrameSync for TLC.                                         *)
EXTENDS FrameSync

=============================================================================
