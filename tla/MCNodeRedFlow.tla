--------------------------- MODULE MCNodeRedFlow ---------------------------
(* A plan of three read blocks for TLC. *)
EXTENDS NodeRedFlow

CONSTANTS b1, b2, b3

ThreeBlocks == <<b1, b2, b3>>

====
