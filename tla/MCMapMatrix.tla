---------------------------- MODULE MCMapMatrix ----------------------------
(* Three maps for TLC. *)
EXTENDS MapMatrixProgram

ThreeMaps == 1 .. 3

====
