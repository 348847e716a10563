-------------------------- MODULE MCNodeRedCampaign --------------------------
(* A plan of two read blocks on two units for TLC. *)
EXTENDS NodeRedCampaign, TLC

CONSTANTS b1, b2

TwoBlocks == <<b1, b2>>
TwoUnits == (b1 :> 1) @@ (b2 :> 2)
=============================================================================
