---------------------------- MODULE MCVinPipeline ----------------------------
(* VinPipeline with small constants for TLC.                                 *)
EXTENDS VinPipeline, TLC

VideoSymmetry == Permutations(Videos)

(* The two nodes of the board: one sensor, MIPI and CSI, two ISPs.            *)
OneCamera == {"SENSOR", "MIPI", "CSI"}

(* Two nodes with a camera each.                                             *)
TwoCameras == {}
=============================================================================
