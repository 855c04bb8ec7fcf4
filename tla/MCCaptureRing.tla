---------------------------- MODULE MCCaptureRing ----------------------------
(* Instances of CaptureRing for TLC. *)
EXTENDS CaptureRing

=============================================================================
