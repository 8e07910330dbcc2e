------------------------- MODULE VinFrameQueueProofs -------------------------
(***************************************************************************)
(* The capture path implements FrameQueue, for any number of buffers.         *)
(***************************************************************************)
EXTENDS VinFrameQueue, VinCaptureProofs

(* Owner tells the states of vb2 apart.                                      *)
LEMMA OwnerStates ==
  ASSUME TypeOK
  PROVE  /\ FrameQueue!Owned("none") = {b \in Buffers : vb[b] = "none"}
         /\ FrameQueue!Owned("driver") = {b \in Buffers : vb[b] = "active"}
  BY DEF TypeOK, VbStates, FrameQueue!Owned, Owner, OwnerIn

(* When a single buffer changes its state, so does one owner.                *)
LEMMA OwnerOfOne ==
  ASSUME TypeOK, NEW b \in Buffers, NEW state \in VbStates, vb' = [vb EXCEPT ![b] = state]
  PROVE  Owner' = [Owner EXCEPT ![b] = OwnerIn[state]]
  BY DEF TypeOK, Owner

(* Without a stream the DMA has no target.                                   *)
LEMMA NoTargets ==
  ASSUME StreamInv, ~StreamOpen
  PROVE  DmaTargets = {}
  BY DEF StreamInv, DmaTargets

(* A step that moves no buffer may aim the DMA at buffers of the driver.       *)
LEMMA AimStep ==
  ASSUME TypeOK, TypeOK', DmaTargetsActive', UNCHANGED <<vb, done>>
  PROVE  FrameQueue!Aim
<1>1. \A b \in DmaTargets' : vb'[b] = "active" /\ b \in Buffers
  BY DEF DmaTargetsActive, DmaTargets, TypeOK
<1> QED
  BY <1>1, OwnerStates DEF FrameQueue!Aim, Owner

-----------------------------------------------------------------------------
(* Each ioctl of the application is a step of FrameQueue.                     *)
LEMMA AppRefines ==
  ASSUME TypeOK, ListsInv, StreamInv, App, TypeOK', DmaTargetsActive'
  PROVE  FrameQueue!Next
<1> USE DEF driverVars, isrVars, hwVars, dmaVars, FrameQueue!Next
<1>1. ASSUME UNCHANGED hwVars PROVE DmaTargets' = DmaTargets
  BY <1>1 DEF DmaTargets
<1>2. CASE Reqbufs
  <2>1. FrameQueue!Owned("none") = Buffers
    BY <1>2, OwnerStates DEF Reqbufs
  <2>2. Owner' = [b \in Buffers |-> "app"]
    BY <1>2 DEF Reqbufs, Owner, OwnerIn
  <2> QED
    BY <1>1, <1>2, <2>1, <2>2 DEF Reqbufs, FrameQueue!Allocate
<1>3. ASSUME NEW b \in Buffers, QbufEarly(b) PROVE FrameQueue!Next
  <2>1. Owner[b] = "app"
    BY <1>3 DEF QbufEarly, Owner, OwnerIn
  <2>2. Owner' = [Owner EXCEPT ![b] = "waiting"]
    BY <1>3, OwnerOfOne DEF QbufEarly, OwnerIn, VbStates
  <2> QED
    BY <1>1, <1>3, <2>1, <2>2 DEF QbufEarly, FrameQueue!Give
<1>4. ASSUME NEW b \in Buffers, Qbuf(b) PROVE FrameQueue!Next
  <2>1. Owner[b] = "app"
    BY <1>4 DEF Qbuf, Owner, OwnerIn
  <2>2. Owner' = [Owner EXCEPT ![b] = "driver"]
    BY <1>4, OwnerOfOne DEF Qbuf, OwnerIn, VbStates
  <2> QED
    BY <1>1, <1>4, <2>1, <2>2 DEF Qbuf, FrameQueue!Give
<1>5. CASE Dqbuf
  <2>1. Head(done) \in Buffers
    BY <1>5 DEF Dqbuf, TypeOK
  <2>2. Owner' = [Owner EXCEPT ![Head(done)] = "app"]
    BY <1>5, <2>1, OwnerOfOne DEF Dqbuf, OwnerIn, VbStates
  <2> QED
    BY <1>1, <1>5, <2>2 DEF Dqbuf, FrameQueue!Take
<1>6. CASE Streamon
  <2>1. Owner' = [b \in Buffers |-> IF Owner[b] = "waiting" THEN "driver" ELSE Owner[b]]
    BY <1>6 DEF Streamon, Owner, OwnerIn, ListsInv, TypeOK, VbStates
  <2> QED
    BY <1>1, <1>6, <2>1 DEF Streamon, FrameQueue!Start
<1>7. CASE Close
  <2>1. DmaTargets = {} /\ DmaTargets' = {}
    BY <1>1, <1>7, NoTargets DEF Close, StreamOpen
  <2>2. FrameQueue!Owned("driver") = {}
    BY <1>7, OwnerStates, EmptyElements DEF Close, StreamInv, StreamOpen, ListsInv
  <2>3. Owner' = [b \in Buffers |-> "none"]
    BY <1>7 DEF Close, FreeBuffers, Owner, OwnerIn
  <2> QED
    BY <1>7, <2>1, <2>2, <2>3 DEF Close, FreeBuffers, FrameQueue!Free
<1>8. CASE Streamoff
  BY <1>8, AimStep DEF Streamoff, appVars
<1> QED
  BY <1>2, <1>3, <1>4, <1>5, <1>6, <1>7, <1>8 DEF App

(* The rest of the ioctls: only the end of VIDIOC_STREAMOFF moves buffers.     *)
LEMMA IoctlRefines ==
  ASSUME ~TwoBuffer, TypeOK, ListsInv, StreamInv, IoctlProgress, TypeOK', DmaTargetsActive'
  PROVE  FrameQueue!Next
<1> USE DEF driverVars, isrVars, hwVars, dmaVars, FrameQueue!Next
<1>1. ASSUME UNCHANGED hwVars PROVE DmaTargets' = DmaTargets
  BY <1>1 DEF DmaTargets
<1>2. CASE StopStreaming
  <2>1. DmaTargets = {} /\ DmaTargets' = {}
    BY <1>1, <1>2, NoTargets DEF StopStreaming, StreamOpen
  <2>2. Owner' = [b \in Buffers |-> IF Owner[b] = "driver" THEN "returned" ELSE Owner[b]]
    BY <1>2 DEF StopStreaming, Owner, OwnerIn, ListsInv, TypeOK, VbStates
  <2> QED
    BY <1>2, <2>1, <2>2 DEF StopStreaming, FrameQueue!Return
<1>3. CASE QueueFree
  <2>1. DmaTargets = {} /\ DmaTargets' = {}
    BY <1>1, <1>3, NoTargets DEF QueueFree, StreamOpen
  <2>2. FrameQueue!Owned("driver") = {}
    BY <1>3, OwnerStates, EmptyElements DEF QueueFree, StreamInv, StreamOpen, ListsInv
  <2>3. Owner' = [b \in Buffers |-> "none"]
    BY <1>3 DEF QueueFree, FreeBuffers, Owner, OwnerIn
  <2> QED
    BY <1>3, <2>1, <2>2, <2>3 DEF QueueFree, FreeBuffers, FrameQueue!Free
<1>4. CASE ~(StopStreaming \/ QueueFree)
  <2>1. UNCHANGED <<vb, done>>
    BY <1>4 DEF IoctlProgress, SetStreamOn, SetStreamOnFails, SetStreamBit, SetStreamOff,
                SetStreamOffFails
  <2> QED
    BY <2>1, AimStep
<1> QED
  BY <1>2, <1>3, <1>4

(* vin_isr and the DMA: the only buffer that moves is the head of vidq_active, *)
(* behind the DMA.                                                          *)
LEMMA IsrHwRefines ==
  ASSUME TypeOK, ListsInv, Isr \/ Hw, TypeOK', DmaTargetsActive'
  PROVE  FrameQueue!Next
<1> USE DEF driverVars, isrVars, hwVars, dmaVars
<1>1. ASSUME vidq_active # <<>>, BufferDone(Head(vidq_active)),
             UNCHANGED <<dmaOn, capturing, reg, cur>>
      PROVE  FrameQueue!Next
  <2> DEFINE b == Head(vidq_active)
  <2>1. b \in Buffers /\ vb[b] = "active"
    BY <1>1, TailElements DEF ListsInv, TypeOK
  <2>2. vb' = [vb EXCEPT ![b] = "done"] /\ done' = Append(done, b)
    BY <1>1 DEF BufferDone
  <2>3. DmaTargets' = DmaTargets
    BY <1>1 DEF DmaTargets
  <2>4. b \notin DmaTargets
    BY <2>1, <2>2, <2>3 DEF DmaTargetsActive, TypeOK
  <2>5. Owner[b] = "driver"
    BY <2>1 DEF Owner, OwnerIn
  <2>6. Owner' = [Owner EXCEPT ![b] = "ready"]
    BY <2>1, <2>2, OwnerOfOne DEF OwnerIn, VbStates
  <2> QED
    BY <2>1, <2>2, <2>3, <2>4, <2>5, <2>6 DEF FrameQueue!Next, FrameQueue!Finish
<1>2. CASE VsyncDeliversHead
  BY <1>1, <1>2 DEF VsyncDeliversHead
<1>3. CASE IsrCaptureDone /\ DeliversImage
  BY <1>1, <1>3 DEF IsrCaptureDone
<1>4. CASE ~VsyncDeliversHead /\ ~(IsrCaptureDone /\ DeliversImage)
  <2>1. UNCHANGED <<vb, done>>
    BY <1>4 DEF Isr, Hw, IsrIgnores, IsrEnters, IsrOverflow, IsrResets, IsrErrors,
         VsyncKeepsHead, VsyncRecyclesHead, VsyncSkipsHead, VsyncProgramsNext, IsrCaptureDone,
         HwVsync, HwFrameEnd, HwMiss, HwOverflow, FrameEnds, appVars
  <2> QED
    BY <2>1, AimStep DEF FrameQueue!Next
<1> QED
  BY <1>2, <1>3, <1>4

-----------------------------------------------------------------------------
(* What the steps above rest on: an ordinary video node from its ring, a node   *)
(* with one buffer from its head.                                            *)
QueueInv == TypeOK /\ ListsInv /\ StreamInv /\ DmaTargetsActive

LEMMA QueueInvAlways ==
  ASSUME RingMode \/ SingleMode
  PROVE  Spec => []QueueInv
<1>1. CASE RingMode
  <2>1. IInv => QueueInv
    BY <1>1, DmaTargetsOwned DEF IInv, QueueInv
  <2> QED
    BY <1>1, <2>1, IInvInductive, PTL DEF Spec
<1>2. CASE SingleMode
  <2>1. SInv => QueueInv
    BY <1>2, SingleLists, SingleTargetsOwned DEF SInv, LInv, OwnersInv, ListsInv, QueueInv
  <2> QED
    BY <1>2, <2>1, SInvInductive, PTL DEF Spec
<1> QED
  BY <1>1, <1>2

(* The capture path keeps the promise of FrameQueue: with a handler that        *)
(* programs the next address in time, or with one buffer and any handler.      *)
THEOREM CaptureImplementsFrameQueue ==
  ASSUME RingMode \/ SingleMode
  PROVE  Spec => ImplementsFrameQueue
<1>1. Init => FrameQueue!Init
  BY DEF Init, FrameQueue!Init, Owner, OwnerIn, DmaTargets
<1>2. ASSUME QueueInv, QueueInv', [Next]_vars PROVE [FrameQueue!Next]_(FrameQueue!vars)
  <2> USE DEF QueueInv
  <2>1. CASE App \/ IoctlProgress \/ Isr \/ Hw
    <3>1. ~TwoBuffer
      BY DEF RingMode, SingleMode, ListsMode, TwoBuffer
    <3> QED
      BY <1>2, <2>1, <3>1, AppRefines, IoctlRefines, IsrHwRefines
  <2>2. ASSUME NEW d \in Delays, DelayFrames(d) PROVE UNCHANGED FrameQueue!vars
    BY <2>2 DEF DelayFrames, FrameQueue!vars, Owner, DmaTargets, appVars, hwVars, dmaVars
  <2>3. CASE UNCHANGED vars
    BY <2>3 DEF vars, FrameQueue!vars, Owner, DmaTargets, appVars, hwVars, dmaVars
  <2> QED
    BY <1>2, <2>1, <2>2, <2>3 DEF Next
<1> QED
  BY <1>1, <1>2, QueueInvAlways, PTL DEF Spec, ImplementsFrameQueue, FrameQueue!Spec
=============================================================================
