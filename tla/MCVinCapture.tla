----------------------------- MODULE MCVinCapture -----------------------------
(***************************************************************************)
(* VinCapture with small constants for TLC.  The buffers are model values,   *)
(* which safety runs may permute.                                            *)
(***************************************************************************)
EXTENDS VinCapture, TLC

BufferSymmetry == Permutations(Buffers)
=============================================================================
