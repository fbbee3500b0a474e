------------------------- MODULE MCCaptureController -------------------------
(* Model-checking instances of CaptureController.  Backoffs are counted in
   units of a second: 1, 2 and a cap of 3 that a doubling oversteps. *)
EXTENDS CaptureController
=============================================================================
