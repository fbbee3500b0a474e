------------------------------ MODULE MCTdrDuck ------------------------------
(* Instances of TdrDuck for TLC.                                           *)
EXTENDS TdrDuck, TLC

CONSTANTS s1, s2, g1, g2

OneGpu == s1 :> g1 @@ s2 :> g1
TwoGpus == s1 :> g1 @@ s2 :> g2
OneOrTwoGpus == {OneGpu, TwoGpus}
=============================================================================
