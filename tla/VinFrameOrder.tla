---------------------------- MODULE VinFrameOrder ----------------------------
(***************************************************************************)
(* VinCapture with a history of the order in which frames were captured.      *)
(***************************************************************************)
EXTENDS VinFrameQueue

VARIABLE before  (* pairs of fresh: the frame of the first ended before that   *)
                 (* of the second                                           *)

orderVars == <<vars, before>>

OrderInit == Init /\ before = {}

(* A buffer leaves the history when its frame is overwritten, dropped or taken. *)
RecordFrame ==
  LET kept == fresh \cap fresh'
  IN  before' = (before \cap (kept \X kept)) \cup (kept \X (fresh' \ fresh))

OrderSpec == OrderInit /\ [][Next /\ RecordFrame]_orderVars

(* Frames come out in the order they were captured, and none is left behind   *)
(* or delivered twice: whatever vb2 has to offer is what was captured first,  *)
(* although vin_isr recycles dropped buffers to the tail of vidq_active and    *)
(* keeps the head back when only two are left.                               *)
FramesInOrder ==
  /\ \A i, j \in DOMAIN done : i < j => <<done[i], done[j]>> \in before
  /\ \A a \in Buffers, j \in DOMAIN done : <<a, done[j]>> \in before => a \in Elements(done)

=============================================================================
