---------------------------- MODULE MCControlPlane ----------------------------
(* Model-checking instances of ControlPlane. *)
EXTENDS ControlPlane
=============================================================================
