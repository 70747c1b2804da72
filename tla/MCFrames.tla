------------------------------ MODULE MCFrames ------------------------------
(***************************************************************************)
(* The instance of Frames for TLC: buffers in which some frames of each     *)
(* length class fit and some do not.                                       *)
(***************************************************************************)
EXTENDS Frames

RecvBuffers == [wsd |-> 18, wscat |-> 14, pp2 |-> 52]
SendBuffers == [wsd |-> 29, wscat |-> 25, pp2 |-> 61]
=============================================================================
