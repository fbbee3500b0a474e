---------------------------- MODULE MCFrameRing ----------------------------
(* Model-checking instances of FrameRing.  The bounds are constants of the
   specification itself, so the configurations give them values directly. *)
EXTENDS FrameRing
=============================================================================
