------------------------------ MODULE VinCapture ------------------------------
(***************************************************************************)
(* The capture ring of one VIN video node (vin-video/vin_video.c and       *)
(* vin-video/vin_core.c): the V4L2 ioctls of the application, the DMA       *)
(* interrupt handler vin_isr and the capture DMA itself, which share the    *)
(* list vidq_active, the DMA address register and the bit VIN_STREAM.       *)
(*                                                                         *)
(* The build modelled is that of the A733 (CSIC_DMA_VER_140_000, without    *)
(* BUF_AUTO_UPDATE, DISPPLAY_SYNC and SUPPORT_PTN), for a node that uses    *)
(* the videobuf2 interface with large_image = 0 and dma_merge_mode = 0.     *)
(***************************************************************************)
EXTENDS Naturals, Sequences, FiniteSets

CONSTANTS
  Buffers,      (* the buffers VIDIOC_REQBUFS allocates                      *)
  NoBuf,        (* an address that belongs to no buffer                      *)
  RawOutput,    (* the output format is a Bayer one, SBGGR8 to SRGGB16       *)
  CaptureMode,  (* cap->capture_mode: "VIDEO" or V4L2_MODE_IMAGE, "IMAGE"    *)
  DmaBufNum,    (* ve_online_cfg.dma_buf_num: "NORMAL", "TWO" or "ONE"       *)
  IsrLatency,   (* how late vin_isr may run: "late" or "any"                 *)
  Unready,      (* at a vsync without a new address: subset of {"reuse", "drop"} *)
  Faults,       (* which of "miss", "served_miss", "overflow", "on", "off"    *)
                (* happen                                                  *)
  Delays,       (* how many frames the ISP and the flip ask to drop at a time *)
  MinQueued,    (* buffers an application queues before VIDIOC_STREAMON      *)
  MaxDelay      (* bound on frame_delay_cnt                                  *)

ASSUME NoBufAssumption == NoBuf \notin Buffers
ASSUME ModeAssumption ==
  /\ RawOutput \in BOOLEAN /\ CaptureMode \in {"VIDEO", "IMAGE"}
  /\ DmaBufNum \in {"NORMAL", "TWO", "ONE"}
  /\ IsrLatency \in {"late", "any"}
  /\ Unready \in (SUBSET {"reuse", "drop"}) \ {{}}
  /\ Faults \subseteq {"miss", "served_miss", "overflow", "on", "off"}
ASSUME BoundAssumption == MinQueued \in Nat /\ MaxDelay \in Nat /\ Delays \subseteq 1..3

(* queue_setup: one buffer for a still image, two or one for the online       *)
(* encoder modes, and never fewer than three otherwise.                      *)
ASSUME BufferCountAssumption ==
  /\ IsFiniteSet(Buffers)
  /\ CaptureMode = "IMAGE" => Cardinality(Buffers) = 1
  /\ CaptureMode = "VIDEO" =>
       CASE DmaBufNum = "TWO" -> Cardinality(Buffers) = 2
         [] DmaBufNum = "ONE" -> Cardinality(Buffers) = 1
         [] OTHER             -> Cardinality(Buffers) >= 3

VARIABLES
  vb,           (* state of each vb2 buffer                                  *)
  queued,       (* buffers queued before STREAMON, in order                  *)
  vidq_active,  (* the driver's list of buffers to fill                      *)
  done,         (* vb2's list of buffers to dequeue                          *)
  first_qbuf,   (* two-buffer mode: buffers that have entered vidq_active    *)
  qbufed,       (* two-buffer mode: buffers handed back by the application   *)
  ioctl,        (* the step the ioctl that holds cap->lock has reached       *)
  streaming,    (* VIN_STREAM                                                *)
  stream_count, (* sd->entity.stream_count of the CAPTURE subdevice          *)
  first_flag, frame_delay_cnt,
  isr,          (* the step vin_isr has reached                              *)
  status,       (* the interrupt status vin_isr has read                     *)
  irq,          (* the interrupt status register of the DMA                  *)
  dmaOn,        (* the DMA channel is enabled                                *)
  reg,          (* CSI_BUF_0_A: where the next frame goes                    *)
  armed,        (* reg was written since the DMA last latched it             *)
  cur,          (* where the current frame goes                              *)
  busy,         (* a frame is being written                                  *)
  capturing,    (* the parser delivers frames (one only in IMAGE mode)       *)
  fresh         (* history: buffers with a whole frame still to be dequeued  *)

appVars == <<vb, queued, done, first_qbuf, qbufed, ioctl>>
isrVars == <<isr, status>>
dmaVars == <<dmaOn, cur, busy, capturing>>
driverVars == <<vidq_active, streaming, stream_count, first_flag, frame_delay_cnt>>
hwVars == <<irq, dmaVars, reg, armed>>
vars == <<appVars, driverVars, isrVars, hwVars, fresh>>

VbStates == {"none", "dequeued", "queued", "active", "done", "error"}
IoctlSteps == {"idle", "set_stream_on", "set_bit", "set_stream_off", "stop", "release"}
IsrSteps == {"idle", "lock", "reset", "errors", "vsync", "program", "capture_done"}
StatusBits == {"VSYNC", "PIXEL_MISS", "LINE_MISS", "OVERFLOW", "CAPTURE_DONE"}

TypeOK ==
  /\ vb \in [Buffers -> VbStates]
  /\ queued \in Seq(Buffers) /\ vidq_active \in Seq(Buffers) /\ done \in Seq(Buffers)
  /\ first_qbuf \subseteq Buffers /\ qbufed \subseteq Buffers
  /\ ioctl \in IoctlSteps /\ isr \in IsrSteps
  /\ streaming \in BOOLEAN /\ dmaOn \in BOOLEAN /\ armed \in BOOLEAN
  /\ busy \in BOOLEAN /\ capturing \in BOOLEAN
  /\ stream_count \in Nat /\ first_flag \in {0, 1} /\ frame_delay_cnt \in Nat
  /\ status \subseteq StatusBits /\ irq \subseteq StatusBits
  /\ reg \in Buffers \cup {NoBuf} /\ cur \in Buffers \cup {NoBuf}
  /\ fresh \subseteq Buffers

Init ==
  /\ vb = [b \in Buffers |-> "none"]
  /\ queued = <<>> /\ vidq_active = <<>> /\ done = <<>>
  /\ first_qbuf = {} /\ qbufed = {}
  /\ ioctl = "idle" /\ isr = "idle"
  /\ streaming = FALSE /\ dmaOn = FALSE /\ armed = FALSE /\ busy = FALSE /\ capturing = FALSE
  /\ stream_count = 0 /\ first_flag = 0 /\ frame_delay_cnt = 0
  /\ status = {} /\ irq = {} /\ reg = NoBuf /\ cur = NoBuf /\ fresh = {}

TwoBuffer == DmaBufNum = "TWO"

Elements(s) == {s[i] : i \in DOMAIN s}
Distinct(s) == \A i, j \in DOMAIN s : s[i] = s[j] => i = j

(* cap->slock is held by vin_isr between these two steps.                    *)
SlockFree == isr \in {"idle", "lock"}

(***************************************************************************)
(* The application.  Every ioctl holds cap->lock (vdev->lock, q->lock), so   *)
(* two of them never overlap; vin_isr and the DMA run between their steps.   *)
(***************************************************************************)

(* VIDIOC_REQBUFS.  queue_setup forces the number of buffers that the mode   *)
(* needs; a handler left over from the last stream has long returned.        *)
Reqbufs ==
  /\ ioctl = "idle" /\ isr = "idle" /\ ~streaming
  /\ \A b \in Buffers : vb[b] = "none"
  /\ vb' = [b \in Buffers |-> "dequeued"]
  /\ first_qbuf' = {} /\ qbufed' = {}
  /\ UNCHANGED <<queued, done, ioctl, driverVars, isrVars, hwVars, fresh>>

(* VIDIOC_QBUF before STREAMON: the buffer waits in vb2.                     *)
QbufEarly(b) ==
  /\ ioctl = "idle" /\ vb[b] = "dequeued" /\ ~streaming
  /\ vb' = [vb EXCEPT ![b] = "queued"]
  /\ queued' = Append(queued, b)
  /\ fresh' = fresh \ {b}
  /\ UNCHANGED <<done, first_qbuf, qbufed, ioctl, driverVars, isrVars, hwVars>>

(* VIDIOC_QBUF while streaming: vb2 calls buffer_queue at once.              *)
Qbuf(b) ==
  /\ ioctl = "idle" /\ vb[b] = "dequeued" /\ streaming /\ SlockFree
  /\ vb' = [vb EXCEPT ![b] = "active"]
  /\ vidq_active' = IF TwoBuffer /\ b \in first_qbuf THEN vidq_active
                    ELSE Append(vidq_active, b)
  /\ first_qbuf' = IF TwoBuffer THEN first_qbuf \cup {b} ELSE first_qbuf
  /\ qbufed' = IF TwoBuffer THEN qbufed \cup {b} ELSE qbufed
  /\ fresh' = fresh \ {b}
  /\ UNCHANGED <<queued, done, ioctl, streaming, stream_count, first_flag, frame_delay_cnt,
                 isrVars, hwVars>>

(* VIDIOC_DQBUF takes the oldest finished buffer.                            *)
Dqbuf ==
  /\ ioctl = "idle" /\ done # <<>>
  /\ vb' = [vb EXCEPT ![Head(done)] = "dequeued"]
  /\ done' = Tail(done)
  /\ fresh' = fresh \ {Head(done)}
  /\ UNCHANGED <<queued, first_qbuf, qbufed, ioctl, driverVars, isrVars, hwVars>>

(* VIDIOC_STREAMON.  vb2_ioctl_streamon hands every queued buffer to the      *)
(* driver; then set_stream starts the pipeline and VIN_STREAM is set,         *)
(* whatever set_stream returned.                                             *)
Streamon ==
  /\ ioctl = "idle" /\ ~streaming
  /\ \E b \in Buffers : vb[b] # "none"
  /\ Len(queued) >= MinQueued
  /\ vidq_active' = vidq_active \o queued
  /\ vb' = [b \in Buffers |-> IF b \in Elements(queued) THEN "active" ELSE vb[b]]
  /\ first_qbuf' = IF TwoBuffer THEN first_qbuf \cup Elements(queued) ELSE first_qbuf
  /\ qbufed' = IF TwoBuffer THEN qbufed \cup Elements(queued) ELSE qbufed
  /\ queued' = <<>>
  /\ ioctl' = "set_stream_on"
  /\ UNCHANGED <<done, streaming, stream_count, first_flag, frame_delay_cnt, isrVars,
                 hwVars, fresh>>

(* vin_set_next_buf_addr takes whatever vidq_active.next points at, the list *)
(* head itself when the list is empty.                                       *)
SetNextBufAddr ==
  /\ reg' = IF vidq_active = <<>> THEN NoBuf ELSE Head(vidq_active)
  /\ armed' = TRUE
  /\ first_flag' = 0

(* vin_subdev_s_stream(1) and (0) on the CAPTURE subdevice; with it the parser *)
(* and the sensor start and stop.                                            *)
StartDma ==
  /\ SetNextBufAddr
  /\ irq' = {}
  /\ dmaOn' = TRUE /\ capturing' = TRUE /\ cur' = NoBuf /\ busy' = FALSE

StopDma ==
  /\ irq' = {}
  /\ dmaOn' = FALSE /\ capturing' = FALSE /\ cur' = NoBuf /\ busy' = FALSE

(* set_stream counts its users in every subdevice: only the first one starts  *)
(* it and only the last one stops it.                                        *)
SetStreamOn ==
  /\ ioctl = "set_stream_on"
  /\ ioctl' = "set_bit" /\ stream_count' = stream_count + 1
  /\ IF stream_count = 0 THEN StartDma ELSE UNCHANGED <<hwVars, first_flag>>
  /\ UNCHANGED <<vb, queued, done, first_qbuf, qbufed, vidq_active, streaming,
                 frame_delay_cnt, isrVars, fresh>>

(* A subdevice after CAPTURE fails to start and set_stream rolls back.       *)
SetStreamOnFails ==
  /\ "on" \in Faults
  /\ ioctl = "set_stream_on" /\ stream_count = 0
  /\ ioctl' = "set_bit"
  /\ SetNextBufAddr /\ StopDma
  /\ UNCHANGED <<vb, queued, done, first_qbuf, qbufed, vidq_active, streaming, stream_count,
                 frame_delay_cnt, isrVars, fresh>>

SetStreamBit ==
  /\ ioctl = "set_bit"
  /\ ioctl' = "idle" /\ streaming' = TRUE
  /\ UNCHANGED <<vb, queued, done, first_qbuf, qbufed, vidq_active, stream_count, first_flag,
                 frame_delay_cnt, isrVars, hwVars, fresh>>

(* VIDIOC_STREAMOFF, or close of a streaming node, clears VIN_STREAM first.  *)
Streamoff ==
  /\ ioctl = "idle" /\ streaming
  /\ ioctl' = "set_stream_off" /\ streaming' = FALSE
  /\ UNCHANGED <<vb, queued, done, first_qbuf, qbufed, vidq_active, stream_count, first_flag,
                 frame_delay_cnt, isrVars, hwVars, fresh>>

(* Mutation: the last user does not stop the DMA.                            *)
SetStreamOffTooLate ==
  /\ ioctl = "set_stream_off"
  /\ ioctl' = "stop"
  /\ stream_count' = IF stream_count = 0 THEN 0 ELSE stream_count - 1
  /\ IF stream_count = 0 THEN StopDma ELSE UNCHANGED <<irq, dmaVars>>
  /\ UNCHANGED <<vb, queued, done, first_qbuf, qbufed, vidq_active, streaming, first_flag,
                 frame_delay_cnt, isrVars, reg, armed, fresh>>

SetStreamOff ==
  /\ ioctl = "set_stream_off"
  /\ ioctl' = "stop"
  /\ stream_count' = IF stream_count = 0 THEN 0 ELSE stream_count - 1
  /\ IF stream_count = 1 THEN StopDma ELSE UNCHANGED <<irq, dmaVars>>
  /\ UNCHANGED <<vb, queued, done, first_qbuf, qbufed, vidq_active, streaming, first_flag,
                 frame_delay_cnt, isrVars, reg, armed, fresh>>

(* A subdevice after CAPTURE fails to stop: the error path of set_stream      *)
(* switches every subdevice it has already stopped on again, CAPTURE too.     *)
SetStreamOffFails ==
  /\ "off" \in Faults
  /\ ioctl = "set_stream_off" /\ stream_count = 1
  /\ ioctl' = "stop"
  /\ StartDma
  /\ UNCHANGED <<vb, queued, done, first_qbuf, qbufed, vidq_active, streaming, stream_count,
                 frame_delay_cnt, isrVars, fresh>>

(* Mutation: the buffer in use is not returned.                              *)
StopKeepsHead ==
  /\ ioctl = "stop" /\ SlockFree
  /\ LET returned == IF vidq_active = <<>> THEN {} ELSE Elements(Tail(vidq_active))
     IN  vb' = [b \in Buffers |-> IF b \in returned THEN "error" ELSE vb[b]]
  /\ vidq_active' = <<>>
  /\ ioctl' = "release"
  /\ UNCHANGED <<queued, done, first_qbuf, qbufed, streaming, stream_count, first_flag,
                 frame_delay_cnt, isrVars, hwVars, fresh>>

(* vb2_ioctl_streamoff calls stop_streaming, which returns every buffer of    *)
(* vidq_active to vb2 (in two-buffer mode only those the driver still owns).  *)
StopStreaming ==
  /\ ioctl = "stop" /\ SlockFree
  /\ LET returned == IF TwoBuffer THEN Elements(vidq_active) \cap qbufed
                     ELSE Elements(vidq_active)
     IN  /\ vb' = [b \in Buffers |-> IF b \in returned THEN "error" ELSE vb[b]]
         /\ first_qbuf' = IF TwoBuffer THEN first_qbuf \ returned ELSE first_qbuf
  /\ vidq_active' = <<>>
  /\ ioctl' = "release"
  /\ UNCHANGED <<queued, done, qbufed, streaming, stream_count, first_flag, frame_delay_cnt,
                 isrVars, hwVars, fresh>>

FreeBuffers ==
  /\ vb' = [b \in Buffers |-> "none"]
  /\ queued' = <<>> /\ done' = <<>>
  /\ fresh' = {}

(* vb2 drops what is left on its lists and vin_queue_free frees the buffers. *)
QueueFree ==
  /\ ioctl = "release"
  /\ ioctl' = "idle"
  /\ FreeBuffers
  /\ UNCHANGED <<first_qbuf, qbufed, driverVars, isrVars, hwVars>>

(* close of a node that does not stream: vb2_fop_release frees the buffers.  *)
Close ==
  /\ ioctl = "idle" /\ ~streaming
  /\ \E b \in Buffers : vb[b] # "none"
  /\ FreeBuffers
  /\ UNCHANGED <<first_qbuf, qbufed, ioctl, driverVars, isrVars, hwVars>>

App ==
  \/ Reqbufs \/ Dqbuf \/ Streamon \/ Streamoff \/ Close
  \/ \E b \in Buffers : QbufEarly(b) \/ Qbuf(b)

IoctlProgress ==
  \/ SetStreamOn \/ SetStreamOnFails \/ SetStreamBit
  \/ SetStreamOff \/ SetStreamOffFails \/ StopStreaming \/ QueueFree

(* The flip control asks for three frames to be dropped and the reset        *)
(* handlers (TDM, ISP) for one or more, from other contexts without slock.   *)
DelayFrames(d) ==
  /\ frame_delay_cnt' = d
  /\ UNCHANGED <<appVars, vidq_active, streaming, stream_count, first_flag, isrVars, hwVars,
                 fresh>>

(***************************************************************************)
(* vin_isr.  The test of VIN_STREAM and the read of the status register come *)
(* before slock is taken, so an ioctl may run in between.  Taking the head    *)
(* of an empty vidq_active is undefined (HeadExists): vin_isr never returns   *)
(* from it in this model.                                                   *)
(***************************************************************************)
IsrIgnores ==
  /\ isr = "idle" /\ irq # {} /\ ~streaming
  /\ irq' = {}
  /\ UNCHANGED <<appVars, driverVars, isrVars, dmaVars, reg, armed, fresh>>

IsrEnters ==
  /\ isr = "idle" /\ irq # {} /\ streaming
  /\ isr' = "lock" /\ status' = irq
  /\ UNCHANGED <<appVars, driverVars, hwVars, fresh>>

(* With slock taken: a FIFO overflow resets the DMA (__sunxi_bk_reset), if    *)
(* VIN_STREAM is still set; set_stream(0) may stop the DMA meanwhile.         *)
IsrOverflow ==
  /\ isr = "lock" /\ "OVERFLOW" \in status
  /\ isr' = IF streaming THEN "reset" ELSE "errors"
  /\ irq' = {}
  /\ UNCHANGED <<appVars, driverVars, status, dmaVars, reg, armed, fresh>>

IsrResets ==
  /\ isr = "reset"
  /\ isr' = "errors"
  /\ dmaOn' = TRUE /\ cur' = NoBuf /\ busy' = FALSE
  /\ UNCHANGED <<appVars, driverVars, status, irq, capturing, reg, armed, fresh>>

(* Mutation: a frame with too few lines is not noted.                        *)
IgnoresLineMiss(st) == IF RawOutput THEN 0 ELSE Cardinality(st \cap {"PIXEL_MISS"})

(* The drops that the miss bits of st ask for.  A short frame of a RAW output  *)
(* format is only printed: it is delivered like a whole one.                 *)
DropsFor(st) == IF RawOutput THEN 0 ELSE Cardinality(st \cap {"PIXEL_MISS", "LINE_MISS"})

(* Every bit of the status but CAPTURE_DONE is cleared.                      *)
IsrErrors ==
  /\ \/ isr = "errors"
     \/ isr = "lock" /\ "OVERFLOW" \notin status
  /\ isr' = IF "VSYNC" \in status THEN "vsync" ELSE "capture_done"
  /\ irq' = irq \ (status \ {"CAPTURE_DONE"})
  /\ frame_delay_cnt' = frame_delay_cnt + DropsFor(status)
  /\ UNCHANGED <<appVars, vidq_active, streaming, stream_count, first_flag, status, dmaVars,
                 reg, armed, fresh>>

(* Mutation: list_add in place of list_add_tail.                             *)
BufferDoneFirst(b) ==
  /\ vb' = [vb EXCEPT ![b] = "done"]
  /\ done' = <<b>> \o done

(* vb2_buffer_done moves the buffer to vb2's done list.                      *)
BufferDone(b) ==
  /\ vb' = [vb EXCEPT ![b] = "done"]
  /\ done' = Append(done, b)

(* Mutations of the test for "only two buffers left".                        *)
KeepHeadWhenEmpty ==
  \/ ~TwoBuffer /\ vidq_active = <<>>
  \/ TwoBuffer /\ vidq_active # <<>> /\ Head(vidq_active) \notin qbufed

KeepHeadOfTwo ==
  \/ ~TwoBuffer /\ Len(vidq_active) = 2
  \/ TwoBuffer /\ vidq_active # <<>> /\ Head(vidq_active) \notin qbufed

KeepHeadOfThree ==
  \/ ~TwoBuffer /\ Len(vidq_active) \in {0, 2, 3}
  \/ TwoBuffer /\ vidq_active # <<>> /\ Head(vidq_active) \notin qbufed

(* The new frame goes to the buffer latched at this vsync, so the head of     *)
(* vidq_active is complete.  It stays when it would leave the DMA without a   *)
(* buffer, or when the application has not returned it (two-buffer mode).     *)
KeepHead ==
  \/ ~TwoBuffer /\ Len(vidq_active) \in {0, 2}
  \/ TwoBuffer /\ vidq_active # <<>> /\ Head(vidq_active) \notin qbufed

HandsOverHead ==
  isr = "vsync" /\ DmaBufNum # "ONE" /\ CaptureMode # "IMAGE" /\ first_flag # 0

VsyncKeepsHead ==
  /\ HandsOverHead /\ KeepHead
  /\ isr' = "capture_done"
  /\ UNCHANGED <<appVars, driverVars, status, hwVars, fresh>>

(* frame_delay_cnt > 0: the head is not delivered but filled again.          *)
VsyncRecyclesHead ==
  /\ HandsOverHead /\ ~KeepHead /\ vidq_active # <<>> /\ frame_delay_cnt > 0
  /\ vidq_active' = Append(Tail(vidq_active), Head(vidq_active))
  /\ frame_delay_cnt' = (IF frame_delay_cnt >= 5 THEN 5 ELSE frame_delay_cnt) - 1
  /\ fresh' = fresh \ {Head(vidq_active)}
  /\ isr' = "program"
  /\ UNCHANGED <<appVars, streaming, stream_count, first_flag, status, hwVars>>

(* Mutation: the delivered buffer is not taken off the driver's list, or not   *)
(* marked as gone (two-buffer mode).                                         *)
DeliversWithoutUnlinking ==
  /\ HandsOverHead /\ ~KeepHead /\ vidq_active # <<>> /\ frame_delay_cnt = 0
  /\ BufferDone(Head(vidq_active))
  /\ isr' = "program"
  /\ UNCHANGED <<queued, first_qbuf, qbufed, ioctl, driverVars, status, hwVars, fresh>>

VsyncDeliversHead ==
  /\ HandsOverHead /\ ~KeepHead /\ vidq_active # <<>> /\ frame_delay_cnt = 0
  /\ BufferDone(Head(vidq_active))
  /\ IF TwoBuffer
     THEN /\ vidq_active' = Append(Tail(vidq_active), Head(vidq_active))
          /\ qbufed' = qbufed \ {Head(vidq_active)}
     ELSE /\ vidq_active' = Tail(vidq_active)
          /\ UNCHANGED qbufed
  /\ isr' = "program"
  /\ UNCHANGED <<queued, first_qbuf, ioctl, streaming, stream_count, first_flag,
                 frame_delay_cnt, status, hwVars, fresh>>

(* The first frame of a stream completes no buffer; one-buffer mode never     *)
(* does, and in IMAGE mode the address stays as it is.                       *)
VsyncSkipsHead ==
  /\ isr = "vsync" /\ ~HandsOverHead
  /\ isr' = IF DmaBufNum # "ONE" /\ CaptureMode # "IMAGE" THEN "program" ELSE "capture_done"
  /\ first_flag' = IF DmaBufNum # "ONE" /\ CaptureMode = "IMAGE" THEN 1 ELSE first_flag
  /\ UNCHANGED <<appVars, vidq_active, streaming, stream_count, frame_delay_cnt, status,
                 hwVars, fresh>>

(* Mutations: first_flag counts frames; the head of the list is programmed.    *)
ProgramsNextAndCounts ==
  /\ isr = "program"
  /\ isr' = "capture_done"
  /\ IF Len(vidq_active) < 2 THEN UNCHANGED <<reg, armed, first_flag>>
     ELSE reg' = vidq_active[2] /\ armed' = TRUE /\ first_flag' = first_flag + 1
  /\ UNCHANGED <<appVars, vidq_active, streaming, stream_count, frame_delay_cnt, status, irq,
                 dmaVars, fresh>>

ProgramsHead ==
  /\ isr = "program"
  /\ isr' = "capture_done"
  /\ IF Len(vidq_active) < 2 THEN UNCHANGED <<reg, armed, first_flag>>
     ELSE reg' = vidq_active[1] /\ armed' = TRUE /\ first_flag' = 1
  /\ UNCHANGED <<appVars, vidq_active, streaming, stream_count, frame_delay_cnt, status, irq,
                 dmaVars, fresh>>

(* The second buffer of the list is programmed for the next frame.           *)
VsyncProgramsNext ==
  /\ isr = "program"
  /\ isr' = "capture_done"
  /\ IF Len(vidq_active) < 2 THEN UNCHANGED <<reg, armed, first_flag>>
     ELSE reg' = vidq_active[2] /\ armed' = TRUE /\ first_flag' = 1
  /\ UNCHANGED <<appVars, vidq_active, streaming, stream_count, frame_delay_cnt, status,
                 irq, dmaVars, fresh>>

(* Mutation: any interrupt delivers the image.                               *)
DeliversImageEarly == CaptureMode = "IMAGE" /\ vidq_active # <<>>

(* IMAGE mode delivers the head when the capture is done; then slock is freed. *)
DeliversImage == "CAPTURE_DONE" \in status /\ CaptureMode = "IMAGE"

(* Mutation: the delivered image stays on the list.                          *)
CaptureDoneWithoutUnlinking ==
  /\ isr = "capture_done"
  /\ isr' = "idle" /\ status' = {}
  /\ irq' = irq \ (status \cap {"CAPTURE_DONE"})
  /\ \/ ~DeliversImage /\ UNCHANGED <<vb, done>>
     \/ DeliversImage /\ vidq_active # <<>> /\ BufferDone(Head(vidq_active))
  /\ UNCHANGED <<queued, first_qbuf, qbufed, ioctl, driverVars, dmaVars, reg, armed, fresh>>

IsrCaptureDone ==
  /\ isr = "capture_done"
  /\ isr' = "idle" /\ status' = {}
  /\ irq' = irq \ (status \cap {"CAPTURE_DONE"})
  /\ \/ ~DeliversImage /\ UNCHANGED <<vb, done, vidq_active>>
     \/ /\ DeliversImage /\ vidq_active # <<>>
        /\ BufferDone(Head(vidq_active)) /\ vidq_active' = Tail(vidq_active)
  /\ UNCHANGED <<queued, first_qbuf, qbufed, ioctl, streaming, stream_count, first_flag,
                 frame_delay_cnt, dmaVars, reg, armed, fresh>>

Isr ==
  \/ IsrIgnores \/ IsrEnters \/ IsrOverflow \/ IsrResets \/ IsrErrors
  \/ VsyncKeepsHead \/ VsyncRecyclesHead \/ VsyncDeliversHead \/ VsyncSkipsHead
  \/ VsyncProgramsNext \/ IsrCaptureDone

(***************************************************************************)
(* The DMA, as the driver programs it: reg is latched at each vsync, and an   *)
(* address that was not written again is either used again or answered with   *)
(* DMA_INT_ADDR_NO_READY and a dropped frame.                                *)
(***************************************************************************)

(* A vsync between the handler's acknowledgement of the last one and the     *)
(* programming of the next address is a missed deadline ("any"); "late" only  *)
(* lets the handler start late.                                             *)
IsrOnTime == IsrLatency = "any" \/ isr \notin {"vsync", "program"}

(* Under "served_miss" the handler is in time around a short frame, as the      *)
(* status does not say which frame it is about: it has served all before the    *)
(* frame ends, and then the short frame before the next one begins, which is     *)
(* not dropped for lack of an address.                                       *)
MissServed ==
  "served_miss" \in Faults => (irq \cup status) \cap {"PIXEL_MISS", "LINE_MISS"} = {}

MayDrop ==
  /\ ~armed /\ "drop" \in Unready
  /\ "served_miss" \in Faults => cur \in fresh \cup {NoBuf}

HwVsync ==
  /\ dmaOn /\ capturing /\ ~busy /\ IsrOnTime /\ MissServed
  /\ \/ (armed \/ "reuse" \in Unready) /\ cur' = reg
     \/ MayDrop /\ cur' = NoBuf
  /\ armed' = FALSE /\ busy' = TRUE
  /\ irq' = irq \cup {"VSYNC"}
  /\ fresh' = fresh \ {cur'}
  /\ UNCHANGED <<appVars, driverVars, isrVars, dmaOn, capturing, reg>>

FrameEnds ==
  /\ busy
  /\ busy' = FALSE
  /\ capturing' = (capturing /\ CaptureMode # "IMAGE")
  /\ UNCHANGED <<appVars, driverVars, isrVars, dmaOn, cur, reg, armed>>

HwFrameEnd ==
  /\ FrameEnds
  /\ irq' = IF CaptureMode = "IMAGE" THEN irq \cup {"CAPTURE_DONE"} ELSE irq
  /\ fresh' = fresh \cup ({cur} \ {NoBuf})

(* The frame has fewer pixels in a line, or fewer lines, than programmed.      *)
(* Assumption on the hardware: in IMAGE mode a frame that ends short, or with *)
(* an overflow, raises no CAPTURE_DONE.                                      *)
HwMiss(bit) ==
  /\ \/ "miss" \in Faults
     \/ "served_miss" \in Faults /\ streaming /\ isr = "idle" /\ irq = {}
  /\ frame_delay_cnt < MaxDelay
  /\ FrameEnds
  /\ irq' = irq \cup {bit}
  /\ UNCHANGED fresh

HwOverflow ==
  /\ "overflow" \in Faults
  /\ FrameEnds
  /\ irq' = irq \cup {"OVERFLOW"}
  /\ UNCHANGED fresh

Hw ==
  \/ HwVsync \/ HwFrameEnd \/ HwOverflow
  \/ \E bit \in {"PIXEL_MISS", "LINE_MISS"} : HwMiss(bit)

Next ==
  \/ App \/ IoctlProgress \/ Isr \/ Hw
  \/ \E d \in Delays : DelayFrames(d)

Spec == Init /\ [][Next]_vars

(* The hardware keeps running, the handler and the ioctls run to their end,   *)
(* and the application dequeues what is done and queues it again.  Nothing    *)
(* obliges it to stop the stream.  Qbuf and StopStreaming wait for slock,     *)
(* which is free again and again rather than for ever: the kernel's spin      *)
(* locks serve their waiters in turn, hence the strong fairness.             *)
FairSpec ==
  /\ Spec
  /\ WF_vars(HwVsync) /\ WF_vars(HwFrameEnd)
  /\ WF_vars(Isr) /\ WF_vars(IoctlProgress) /\ SF_vars(StopStreaming)
  /\ WF_vars(Dqbuf) /\ \A b \in Buffers : SF_vars(Qbuf(b))

-----------------------------------------------------------------------------
(***************************************************************************)
(* Properties                                                              *)
(***************************************************************************)

(* Where the DMA writes now or will write at the next vsync.                 *)
DmaTargets == IF dmaOn /\ capturing THEN {reg, cur} \ {NoBuf} ELSE {}

(* The DMA writes only to buffers the driver owns: never to one that was      *)
(* delivered to vb2, taken by the application, returned by stop_streaming or  *)
(* freed, however late vin_isr runs and wherever STREAMOFF interrupts it      *)
(* (vin_isr pops the head while the DMA fills the buffer behind it).         *)
DmaTargetsActive == \A b \in DmaTargets : vb[b] = "active"

(* The buffers the driver will still give back, according to its own list.   *)
OwnedByList ==
  IF TwoBuffer THEN Elements(vidq_active) \cap qbufed ELSE Elements(vidq_active)

(* vidq_active, vb2's done list and the vb2 state of each buffer agree and no  *)
(* buffer is on a list twice, so that no buffer is completed twice (vb2        *)
(* refuses a buffer that is not ACTIVE) and none is forgotten by both sides.  *)
ListsAgree ==
  /\ OwnedByList = {b \in Buffers : vb[b] = "active"}
  /\ Elements(done) = {b \in Buffers : vb[b] = "done"}
  /\ Distinct(vidq_active) /\ Distinct(done)

(* A buffer delivered as VB2_BUF_STATE_DONE holds a whole frame captured since *)
(* it was queued: short frames noted in frame_delay_cnt are the ones dropped.  *)
(* This is about formats that are not RAW: vin_isr delivers a short RAW frame. *)
DoneIsFresh == \A b \in Buffers : vb[b] = "done" => b \in fresh

(* vin_isr takes the head of vidq_active only when there is one, although      *)
(* stop_streaming may empty the list after vin_isr has tested VIN_STREAM.     *)
HeadExists ==
  /\ HandsOverHead /\ ~KeepHead => vidq_active # <<>>
  /\ isr = "capture_done" /\ DeliversImage => vidq_active # <<>>

(* stop_streaming aborts the stream: once it hands the buffers back, the DMA   *)
(* is off ("abort streaming and wait for last buffer").                      *)
StopAbortsDma == ioctl = "release" => ~dmaOn

(* From some time on nobody asks for frames to be dropped (an ISP that is      *)
(* reset for ever makes a stream that delivers nothing).                     *)
DelaysStop == <>[][frame_delay_cnt' <= frame_delay_cnt]_frame_delay_cnt

(* A buffer the driver owns is delivered, or returned by STREAMOFF, in the     *)
(* end: the frames vin_isr drops for frame_delay_cnt, which put the head back  *)
(* at the tail, do not keep a buffer from its turn once the drops stop.       *)
BufferServed ==
  DelaysStop => \A b \in Buffers : vb[b] = "active" ~> vb[b] # "active"
=============================================================================
