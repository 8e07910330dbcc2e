--------------------------- MODULE MCVinFrameOrder ---------------------------
(* VinFrameOrder with small constants for TLC.                               *)
EXTENDS VinFrameOrder, TLC

BufferSymmetry == Permutations(Buffers)
=============================================================================
