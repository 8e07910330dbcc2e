---------------------------- MODULE VinFrameQueue ----------------------------
(***************************************************************************)
(* VinCapture seen as a FrameQueue: the vb2 state of a buffer says who owns   *)
(* it, and the DMA writes where its address registers point.                 *)
(***************************************************************************)
EXTENDS VinCapture

OwnerIn ==
  [none |-> "none", dequeued |-> "app", queued |-> "waiting", active |-> "driver",
   done |-> "ready", error |-> "returned"]

Owner == [b \in Buffers |-> OwnerIn[vb[b]]]

FrameQueue == INSTANCE FrameQueue WITH
  owner <- Owner, writing <- DmaTargets, ready <- done

(* The ioctls, vin_isr and the DMA together keep the promise of FrameQueue:   *)
(* each of their steps is one of its steps or changes nothing it sees, so a   *)
(* buffer is finished only behind the DMA, and freed only with the DMA off.   *)
ImplementsFrameQueue == FrameQueue!Spec
=============================================================================
