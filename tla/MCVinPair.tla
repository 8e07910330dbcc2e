------------------------------- MODULE MCVinPair -------------------------------
(* VinPair with small constants for TLC.                                     *)
EXTENDS VinPair

Ask(v, s, m) == [video |-> v, size |-> s, merge |-> m]

(* AWISP asks for a merge on /dev/video0 as well; the pair is asked for on     *)
(* /dev/video1 and only for the full frame.                                  *)
CarefulRequests ==
  {Ask(Bind, "small", TRUE), Ask(Bind, "small", FALSE), Ask(Bind, "full", FALSE),
   Ask(Main, "small", FALSE), Ask(Main, "full", FALSE), Ask(Main, "full", TRUE)}

(* README.md:20: 1920x1080 on /dev/video0, 4056x3040 on /dev/video1.           *)
BoardRequests == {Ask(Bind, "small", FALSE), Ask(Main, "full", TRUE)}
=============================================================================
