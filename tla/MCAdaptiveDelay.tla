-------------------------- MODULE MCAdaptiveDelay --------------------------
(* AdaptiveDelay needs constants only.                                     *)
EXTENDS AdaptiveDelay, TLC
=============================================================================
