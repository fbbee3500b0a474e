---------------------------- MODULE MCModeUpdates ----------------------------
(* Instances of ModeUpdates for TLC.                                       *)
EXTENDS ModeUpdates, TLC

CONSTANTS x, y

OneOrTwo == {<<x, y>>, <<x>>}
=============================================================================
