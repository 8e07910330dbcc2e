---------------------------- MODULE VinFreshProofs ----------------------------
(***************************************************************************)
(* Buffers are delivered with whole frames and in the order of the frames, for *)
(* any number of buffers; and so is a still image.  The head of vidq_active that *)
(* vin_isr takes exists until STREAMOFF.                                     *)
(***************************************************************************)
EXTENDS VinCaptureProofs, VinFrameOrder

(* A short frame is dropped by a count that does not say which frame it was,   *)
(* so the handler must be in time around one ("served_miss"); in a RAW format    *)
(* it is not counted, so there the result is for whole frames.  The application *)
(* queues a buffer before it starts: without one the first frame goes to no      *)
(* buffer, and the first buffer delivered has never been written.              *)
FreshMode ==
  /\ RingMode /\ MinQueued > 0
  /\ Faults \subseteq {"on", "served_miss"} /\ (RawOutput => "served_miss" \notin Faults)

(* The buffer holds a whole frame, or is receiving one.                       *)
Filled(b) == b \in fresh \/ (busy /\ cur = b)

Misses == {"PIXEL_MISS", "LINE_MISS"}

(* vin_isr has still to count a short frame.                                  *)
MissPending ==
  \/ irq \cap Misses # {}
  \/ isr \in {"lock", "errors"} /\ status \cap Misses # {}

(* A stream starts without a handler of the one before, and a handler acts on   *)
(* a vsync or on short frames, never on both at once.                         *)
HandlerInv ==
  /\ ioctl \in {"set_stream_on", "set_bit"} => isr = "idle"
  /\ ioctl = "idle" /\ ~streaming /\ (\E b \in Buffers : vb[b] # "none") => isr = "idle"
  /\ streaming /\ ~capturing => isr = "idle"
  /\ ~capturing => irq = {} /\ ~busy
  /\ irq \subseteq {"VSYNC"} \cup Misses /\ status \subseteq {"VSYNC"} \cup Misses
  /\ isr # "reset" /\ (isr = "idle" => status = {})
  /\ "VSYNC" \in irq \cup status \/ "served_miss" \notin Faults => (irq \cup status) \cap Misses = {}

(* The address that is latched at a vsync is not written again until vin_isr   *)
(* has acted on it.                                                         *)
ArmedInv ==
  /\ ioctl = "set_stream_on" => vidq_active # <<>>
  /\ ioctl = "set_bit" => first_flag = 0
  /\ capturing => reg # NoBuf /\ (VsyncPending \/ isr = "program" => ~armed)

(* What has been latched is, or will be, filled, or it held a short frame and    *)
(* will be latched again: the buffer in reg once it is latched.  The head was    *)
(* latched before it; if its frame was short, a frame has still to be dropped.   *)
FillInv ==
  capturing =>
    /\ ~armed => Filled(reg) \/ (cur = reg /\ "served_miss" \in Faults)
    /\ VsyncPending \/ isr = "program" => Filled(reg)
    /\ first_flag # 0 /\ streaming =>
         Filled(vidq_active[1]) \/ frame_delay_cnt > 0 \/ MissPending

(* A handler that has read a vsync finds the head whole or drops it, even when   *)
(* STREAMOFF stops the DMA before it comes to deliver it.                       *)
HeadInv ==
  isr \in {"lock", "errors", "vsync"} /\ "VSYNC" \in status /\ first_flag # 0 /\ vidq_active # <<>>
    => vidq_active[1] \in fresh \/ frame_delay_cnt > 0

FreshInv == HandlerInv /\ ArmedInv /\ FillInv /\ HeadInv /\ DoneIsFresh

FInv == IInv /\ FreshInv

-----------------------------------------------------------------------------
(* What IInv says of the buffers in front of vidq_active.                     *)
LEMMA FrontBuffers ==
  ASSUME RingMode, IInv
  PROVE  /\ vidq_active # <<>> =>
              /\ Head(vidq_active) = vidq_active[1] /\ vidq_active[1] \in Buffers
              /\ vb[vidq_active[1]] = "active"
         /\ capturing /\ reg # NoBuf => reg \in Buffers /\ vb[reg] = "active"
         /\ capturing /\ first_flag # 0 =>
              /\ vidq_active # <<>>
              /\ isr # "program" => reg = vidq_active[2] /\ reg # vidq_active[1]
              /\ isr = "program" => reg = vidq_active[1]
         /\ capturing /\ first_flag = 0 /\ reg # NoBuf =>
              vidq_active # <<>> /\ reg = vidq_active[1]
<1>1. /\ vidq_active \in Seq(Buffers) /\ Len(vidq_active) \in Nat
      /\ \A i \in DOMAIN vidq_active :
           vidq_active[i] \in Buffers /\ vb[vidq_active[i]] = "active"
      /\ \A i, j \in DOMAIN vidq_active : vidq_active[i] = vidq_active[j] => i = j
  BY DEF IInv, TypeOK, ListsInv, Elements, Distinct
<1>2. ASSUME vidq_active # <<>>
      PROVE  /\ Head(vidq_active) = vidq_active[1] /\ vidq_active[1] \in Buffers
             /\ vb[vidq_active[1]] = "active"
  <2>1. 1 \in DOMAIN vidq_active /\ Head(vidq_active) = vidq_active[1]
    BY <1>1, <1>2
  <2> QED
    BY <1>1, <2>1
<1>3. ASSUME capturing, first_flag # 0
      PROVE  /\ vidq_active # <<>> /\ reg \in Buffers /\ vb[reg] = "active"
             /\ isr # "program" => reg = vidq_active[2] /\ reg # vidq_active[1]
             /\ isr = "program" => reg = vidq_active[1]
  <2>1. /\ Len(vidq_active) >= 2
        /\ isr # "program" => reg = vidq_active[2]
        /\ isr = "program" => reg = vidq_active[1]
    BY <1>3 DEF IInv, DmaInv, RingInv
  <2>2. 1 \in DOMAIN vidq_active /\ 2 \in DOMAIN vidq_active /\ vidq_active # <<>>
    BY <1>1, <2>1
  <2> QED
    BY <1>1, <2>1, <2>2
<1>4. ASSUME capturing, first_flag = 0, reg # NoBuf
      PROVE  vidq_active # <<>> /\ reg = vidq_active[1]
  <2>1. vidq_active # <<>> /\ reg = Head(vidq_active)
    BY <1>4 DEF IInv, DmaInv, FirstFrameInv
  <2> QED
    BY <1>2, <2>1
<1> QED
  BY <1>2, <1>3, <1>4

(***************************************************************************)
(* The ioctls                                                               *)
(***************************************************************************)
LEMMA FreshHandlerApp ==
  ASSUME FreshMode, IInv, FreshInv, App \/ IoctlProgress
  PROVE  HandlerInv'
<1> USE DEF HandlerInv, FreshInv, IInv, StreamInv, StreamOpen, appVars, isrVars, dmaVars,
            driverVars, hwVars, Misses
<1>1. CASE Reqbufs
  BY <1>1 DEF Reqbufs
<1>2. CASE Dqbuf
  <2>1. Head(done) \in Buffers /\ vb[Head(done)] = "done"
    BY <1>2, TailElements DEF Dqbuf, ListsInv, TypeOK
  <2> QED
    BY <1>2, <2>1 DEF Dqbuf
<1>3. CASE Streamon
  BY <1>3 DEF Streamon
<1>4. CASE Streamoff
  BY <1>4 DEF Streamoff
<1>5. CASE Close
  BY <1>5 DEF Close, FreeBuffers
<1>6. ASSUME NEW b \in Buffers, QbufEarly(b) PROVE HandlerInv'
  BY <1>6 DEF QbufEarly
<1>7. ASSUME NEW b \in Buffers, Qbuf(b) PROVE HandlerInv'
  BY <1>7 DEF Qbuf
<1>8. CASE SetStreamOn
  BY <1>8 DEF SetStreamOn, StartDma
<1>9. CASE SetStreamOnFails
  BY <1>9 DEF SetStreamOnFails, StopDma
<1>10. CASE SetStreamBit
  BY <1>10 DEF SetStreamBit
<1>11. CASE SetStreamOff
  BY <1>11 DEF SetStreamOff, StopDma
<1>12. CASE SetStreamOffFails
  BY <1>12 DEF SetStreamOffFails, FreshMode
<1>13. CASE StopStreaming
  BY <1>13 DEF StopStreaming
<1>14. CASE QueueFree
  BY <1>14 DEF QueueFree, FreeBuffers
<1> QED
  BY <1>1, <1>2, <1>3, <1>4, <1>5, <1>6, <1>7, <1>8, <1>9, <1>10, <1>11, <1>12, <1>13,
     <1>14 DEF App, IoctlProgress

(* A step of the application that leaves the DMA alone and takes nothing from   *)
(* the front of vidq_active.                                                *)
LEMMA FreshKept ==
  ASSUME FreshMode, IInv, FreshInv,
         UNCHANGED <<isr, status, irq, capturing, first_flag, frame_delay_cnt, reg, cur, busy,
                     armed>>,
         streaming' => streaming \/ first_flag = 0,
         vidq_active # <<>> => vidq_active' # <<>> /\ vidq_active'[1] = vidq_active[1],
         vidq_active = <<>> => vidq_active' = <<>> \/ streaming \/ isr = "idle",
         \A b \in Buffers : vb[b] = "active" /\ b \in fresh => b \in fresh'
  PROVE  FillInv' /\ HeadInv'
<1>0. vidq_active = <<>> => first_flag = 0 \/ ~capturing
  BY FrontBuffers DEF FreshMode
<1>1. FillInv'
  <2> SUFFICES ASSUME capturing
               PROVE  /\ ~armed => Filled(reg)' \/ (cur = reg /\ "served_miss" \in Faults)
                      /\ VsyncPending \/ isr = "program" => Filled(reg)'
                      /\ first_flag # 0 /\ streaming' =>
                           Filled(vidq_active[1])' \/ frame_delay_cnt > 0 \/ MissPending
    BY DEF FillInv, VsyncPending, MissPending
  <2>1. reg # NoBuf /\ (Filled(reg) => Filled(reg)')
    BY FrontBuffers DEF FreshMode, FreshInv, ArmedInv, Filled
  <2>2. first_flag # 0 /\ Filled(vidq_active[1]) => Filled(vidq_active[1])'
    BY <1>0, FrontBuffers DEF FreshMode, Filled
  <2> QED
    BY <2>1, <2>2 DEF FreshInv, FillInv
<1>2. HeadInv'
  <2> SUFFICES ASSUME isr \in {"lock", "errors", "vsync"}, "VSYNC" \in status, first_flag # 0,
                      vidq_active' # <<>>
               PROVE  vidq_active'[1] \in fresh' \/ frame_delay_cnt > 0
    BY DEF HeadInv
  <2>1. vidq_active # <<>>
    BY <1>0 DEF FreshInv, HandlerInv
  <2>2. vidq_active[1] \in Buffers /\ vb[vidq_active[1]] = "active"
    BY <2>1, FrontBuffers DEF FreshMode
  <2> QED
    BY <2>1, <2>2 DEF FreshInv, HeadInv
<1> QED
  BY <1>1, <1>2

LEMMA FreshApp ==
  ASSUME FreshMode, IInv, FreshInv, App \/ IoctlProgress
  PROVE  FreshInv'
<1> USE DEF appVars, isrVars, dmaVars, driverVars, hwVars
<1>0. RingMode /\ HandlerInv'
  BY FreshHandlerApp DEF FreshMode
<1>1. ASSUME UNCHANGED <<isr, status, irq, capturing, first_flag, frame_delay_cnt, reg, cur, busy,
                         armed, vidq_active>>,
             streaming' => streaming \/ first_flag = 0,
             \A b \in Buffers : vb[b] = "active" /\ b \in fresh => b \in fresh',
             ioctl' \notin {"set_stream_on", "set_bit"}
      PROVE  ArmedInv' /\ FillInv' /\ HeadInv'
  <2>1. ArmedInv'
    BY <1>1 DEF FreshInv, ArmedInv, VsyncPending
  <2> QED
    BY <1>1, <2>1, FreshKept
<1>2. CASE Reqbufs \/ Streamoff \/ SetStreamBit
  <2>1. ArmedInv' /\ FillInv' /\ HeadInv'
    BY <1>1, <1>2 DEF Reqbufs, Streamoff, SetStreamBit, FreshInv, ArmedInv
  <2>2. DoneIsFresh'
    BY <1>2 DEF Reqbufs, Streamoff, SetStreamBit, FreshInv, DoneIsFresh
  <2> QED
    BY <1>0, <2>1, <2>2 DEF FreshInv
<1>3. CASE Dqbuf
  <2>1. Head(done) \in Buffers /\ vb[Head(done)] = "done"
    BY <1>3, TailElements DEF Dqbuf, IInv, ListsInv, TypeOK
  <2>2. ArmedInv' /\ FillInv' /\ HeadInv'
    BY <1>1, <1>3, <2>1 DEF Dqbuf
  <2>3. DoneIsFresh'
    BY <1>3, <2>1 DEF Dqbuf, FreshInv, DoneIsFresh, IInv, TypeOK
  <2> QED
    BY <1>0, <2>2, <2>3 DEF FreshInv
<1>4. ASSUME NEW b \in Buffers, QbufEarly(b) PROVE FreshInv'
  <2>1. ArmedInv' /\ FillInv' /\ HeadInv'
    BY <1>1, <1>4 DEF QbufEarly
  <2>2. DoneIsFresh'
    BY <1>4 DEF QbufEarly, FreshInv, DoneIsFresh, IInv, TypeOK
  <2> QED
    BY <1>0, <2>1, <2>2 DEF FreshInv
<1>5. ASSUME NEW b \in Buffers, Qbuf(b) PROVE FreshInv'
  <2>1. /\ vidq_active' = Append(vidq_active, b) /\ vidq_active \in Seq(Buffers)
        /\ streaming /\ ioctl = "idle" /\ ioctl' = "idle"
        /\ UNCHANGED <<streaming, isr, status, irq, capturing, first_flag, frame_delay_cnt, reg,
                       cur, busy, armed>>
    BY <1>0, <1>5 DEF Qbuf, TwoBuffer, RingMode, IInv, TypeOK
  <2>2. vidq_active # <<>> => vidq_active' # <<>> /\ vidq_active'[1] = vidq_active[1]
    BY <2>1
  <2>3. \A c \in Buffers : vb[c] = "active" /\ c \in fresh => c \in fresh'
    BY <1>5 DEF Qbuf
  <2>4. FillInv' /\ HeadInv'
    BY <2>1, <2>2, <2>3, FreshKept
  <2>5. ArmedInv'
    BY <2>1 DEF FreshInv, ArmedInv, VsyncPending
  <2>6. DoneIsFresh'
    BY <1>5 DEF Qbuf, FreshInv, DoneIsFresh, IInv, TypeOK
  <2> QED
    BY <1>0, <2>4, <2>5, <2>6 DEF FreshInv
<1>6. CASE Streamon
  <2>1. /\ vidq_active = <<>> /\ ~capturing
        /\ UNCHANGED <<isr, status, irq, capturing, first_flag, reg, cur, busy, armed, fresh>>
    BY <1>6 DEF Streamon, IInv, StreamInv, StreamOpen
  <2>2. isr = "idle"
    BY <1>6 DEF Streamon, FreshInv, HandlerInv
  <2>3. FillInv' /\ HeadInv'
    BY <2>1, <2>2 DEF FillInv, HeadInv
  <2>4. vidq_active' # <<>> /\ ioctl' = "set_stream_on"
    <3>1. queued \in Seq(Buffers) /\ Len(queued) > 0 /\ vidq_active' = vidq_active \o queued
      BY <1>6, BoundAssumption DEF Streamon, FreshMode, IInv, TypeOK
    <3>2. ioctl' = "set_stream_on"
      BY <1>6 DEF Streamon
    <3> QED
      BY <2>1, <3>1, <3>2
  <2>5. ArmedInv'
    BY <2>1, <2>4 DEF ArmedInv
  <2>6. \A b \in Buffers : vb'[b] = "done" => vb[b] = "done"
    BY <1>6 DEF Streamon
  <2>7. DoneIsFresh'
    BY <2>1, <2>6 DEF FreshInv, DoneIsFresh
  <2> QED
    BY <1>0, <2>3, <2>5, <2>7 DEF FreshInv
<1>7. CASE SetStreamOn
  <2>1. /\ StartDma /\ vidq_active # <<>> /\ ioctl' = "set_bit" /\ isr = "idle"
        /\ UNCHANGED <<vidq_active, isr, status, vb, fresh>>
    BY <1>7 DEF SetStreamOn, IInv, StreamInv, StreamOpen, FreshInv, HandlerInv, ArmedInv
  <2>2. reg' \in Buffers /\ reg' # NoBuf /\ armed' /\ first_flag' = 0 /\ irq' = {}
    BY <1>0, <2>1, FrontBuffers, NoBufAssumption DEF StartDma, SetNextBufAddr
  <2>3. ArmedInv' /\ FillInv' /\ HeadInv'
    BY <2>1, <2>2 DEF ArmedInv, FillInv, HeadInv, VsyncPending
  <2>4. DoneIsFresh'
    BY <2>1 DEF FreshInv, DoneIsFresh
  <2> QED
    BY <1>0, <2>3, <2>4 DEF FreshInv
<1>8. CASE SetStreamOnFails
  <2>1. /\ ~capturing' /\ first_flag' = 0 /\ isr' = "idle" /\ ioctl' = "set_bit"
        /\ UNCHANGED <<vb, fresh>>
    BY <1>8 DEF SetStreamOnFails, SetNextBufAddr, StopDma, FreshInv, HandlerInv
  <2> QED
    BY <1>0, <2>1 DEF FreshInv, ArmedInv, FillInv, HeadInv, DoneIsFresh
<1>9. CASE SetStreamOff
  <2>1. /\ ~capturing' /\ ioctl' = "stop"
        /\ UNCHANGED <<vidq_active, isr, status, first_flag, frame_delay_cnt, vb, fresh>>
    BY <1>9 DEF SetStreamOff, StopDma, IInv, StreamInv
  <2> QED
    BY <1>0, <2>1 DEF FreshInv, ArmedInv, FillInv, HeadInv, DoneIsFresh
<1>10. CASE SetStreamOffFails
  BY <1>10 DEF SetStreamOffFails, FreshMode
<1>11. CASE StopStreaming
  <2>1. ~capturing' /\ vidq_active' = <<>> /\ ioctl' = "release" /\ UNCHANGED fresh
    BY <1>11 DEF StopStreaming, IInv, StreamInv, StreamOpen
  <2>2. \A b \in Buffers : vb'[b] = "done" => vb[b] = "done"
    BY <1>11 DEF StopStreaming
  <2> QED
    BY <1>0, <2>1, <2>2 DEF FreshInv, ArmedInv, FillInv, HeadInv, DoneIsFresh
<1>12. CASE QueueFree \/ Close
  <2>1. /\ ~capturing' /\ vidq_active' = <<>> /\ ioctl' = "idle"
        /\ \A b \in Buffers : vb'[b] = "none"
    BY <1>12 DEF QueueFree, Close, FreeBuffers, IInv, StreamInv, StreamOpen
  <2> QED
    BY <1>0, <2>1 DEF FreshInv, ArmedInv, FillInv, HeadInv, DoneIsFresh
<1> QED
  BY <1>2, <1>3, <1>4, <1>5, <1>6, <1>7, <1>8, <1>9, <1>10, <1>11, <1>12 DEF App, IoctlProgress

(***************************************************************************)
(* vin_isr                                                                  *)
(***************************************************************************)
(* A short frame is counted.                                                 *)
LEMMA MissesCounted ==
  ASSUME frame_delay_cnt \in Nat
  PROVE  /\ Cardinality(status \cap Misses) \in Nat
         /\ frame_delay_cnt > 0 => frame_delay_cnt + Cardinality(status \cap Misses) > 0
         /\ status \cap Misses # {} => frame_delay_cnt + Cardinality(status \cap Misses) > 0
<1>1. IsFiniteSet(Misses)
  <2>1. IsFiniteSet({"LINE_MISS"} \cup {"PIXEL_MISS"})
    BY FS_Singleton, FS_AddElement
  <2>2. Misses = {"LINE_MISS"} \cup {"PIXEL_MISS"}
    BY DEF Misses
  <2> QED
    BY <2>1, <2>2, Zenon
<1>2. IsFiniteSet(status \cap Misses) /\ Cardinality(status \cap Misses) \in Nat
  BY <1>1, FS_Subset, FS_CardinalityType
<1>3. status \cap Misses # {} => Cardinality(status \cap Misses) # 0
  BY <1>2, FS_EmptySet
<1> QED
  BY <1>2, <1>3

LEMMA FreshIsrEntry ==
  ASSUME FreshMode, IInv, FreshInv,
         IsrIgnores \/ IsrEnters \/ IsrOverflow \/ IsrResets \/ IsrErrors
  PROVE  FreshInv'
<1> USE DEF appVars, isrVars, dmaVars, driverVars, hwVars
<1>1. CASE IsrIgnores
  <2>1. ~streaming /\ isr = "idle" /\ irq' = {} /\ UNCHANGED <<appVars, driverVars, isrVars,
                                                             dmaVars, reg, armed, fresh>>
    BY <1>1 DEF IsrIgnores
  <2>2. HandlerInv' /\ ArmedInv' /\ DoneIsFresh' /\ HeadInv'
    BY <2>1 DEF FreshInv, HandlerInv, ArmedInv, HeadInv, DoneIsFresh, VsyncPending
  <2>3. FillInv'
    BY <2>1 DEF FreshInv, FillInv, Filled, VsyncPending
  <2> QED
    BY <2>2, <2>3 DEF FreshInv
<1>2. CASE IsrEnters
  <2>1. /\ isr = "idle" /\ isr' = "lock" /\ status' = irq /\ status = {}
        /\ streaming /\ capturing /\ ioctl = "idle"
        /\ UNCHANGED <<appVars, driverVars, hwVars, fresh>>
    BY <1>2 DEF IsrEnters, FreshInv, HandlerInv, IInv, StreamInv
  <2>2. HandlerInv' /\ ArmedInv' /\ DoneIsFresh'
    BY <2>1 DEF FreshInv, HandlerInv, ArmedInv, DoneIsFresh, VsyncPending
  <2>3. FillInv'
    BY <2>1 DEF FreshInv, FillInv, Filled, MissPending, VsyncPending
  <2>4. HeadInv'
    <3> SUFFICES ASSUME "VSYNC" \in irq, first_flag # 0, vidq_active # <<>>
                 PROVE  vidq_active[1] \in fresh \/ frame_delay_cnt > 0
      BY <2>1 DEF HeadInv
    <3>1. cur # vidq_active[1]
      BY <2>1 DEF IInv, DmaInv, RingInv, VsyncPending
    <3>2. ~MissPending
      BY <2>1 DEF FreshInv, HandlerInv, MissPending
    <3> QED
      BY <2>1, <3>1, <3>2 DEF FreshInv, FillInv, Filled
  <2> QED
    BY <2>2, <2>3, <2>4 DEF FreshInv
<1>3. CASE IsrOverflow \/ IsrResets
  BY <1>3 DEF IsrOverflow, IsrResets, FreshInv, HandlerInv, Misses
<1>4. CASE IsrErrors
  <2>1. /\ isr \in {"lock", "errors"}
        /\ isr' = IF "VSYNC" \in status THEN "vsync" ELSE "capture_done"
        /\ irq' = irq \ (status \ {"CAPTURE_DONE"})
        /\ UNCHANGED <<appVars, vidq_active, streaming, first_flag, status, dmaVars, reg, armed,
                       fresh>>
    BY <1>4 DEF IsrErrors
  <2>2. /\ frame_delay_cnt > 0 => frame_delay_cnt' > 0
        /\ status \cap Misses # {} => frame_delay_cnt' > 0
    <3>1. CASE RawOutput
      BY <1>4, <3>1 DEF IsrErrors, DropsFor, FreshMode, FreshInv, HandlerInv, IInv, TypeOK
    <3>2. CASE ~RawOutput
      BY <1>4, <3>2, MissesCounted DEF IsrErrors, DropsFor, Misses, IInv, TypeOK
    <3> QED
      BY <3>1, <3>2
  <2>3. HandlerInv' /\ ArmedInv' /\ DoneIsFresh'
    BY <2>1 DEF FreshInv, HandlerInv, ArmedInv, DoneIsFresh, VsyncPending
  <2>4. FillInv'
    <3>1. MissPending => frame_delay_cnt' > 0 \/ MissPending'
      BY <2>1, <2>2 DEF MissPending, Misses
    <3> QED
      BY <2>1, <2>2, <3>1 DEF FreshInv, FillInv, Filled, VsyncPending
  <2>5. HeadInv'
    BY <2>1, <2>2 DEF FreshInv, HeadInv
  <2> QED
    BY <2>3, <2>4, <2>5 DEF FreshInv
<1> QED
  BY <1>1, <1>2, <1>3, <1>4

LEMMA FreshIsrVsync ==
  ASSUME FreshMode, IInv, FreshInv,
         VsyncKeepsHead \/ VsyncRecyclesHead \/ VsyncDeliversHead \/ VsyncSkipsHead
  PROVE  FreshInv'
<1> USE DEF appVars, isrVars, dmaVars, driverVars, hwVars
<1>1. isr = "vsync" /\ "VSYNC" \in status /\ (capturing => ~armed /\ Filled(reg))
  BY DEF VsyncKeepsHead, VsyncRecyclesHead, VsyncDeliversHead, VsyncSkipsHead, HandsOverHead,
         FreshInv, ArmedInv, FillInv, IInv, DmaInv, VsyncPending
<1>2. CASE VsyncKeepsHead \/ VsyncSkipsHead
  <2>1. /\ isr' \in {"program", "capture_done"}
        /\ UNCHANGED <<appVars, vidq_active, streaming, first_flag, frame_delay_cnt, status,
                       hwVars, fresh>>
    BY <1>2 DEF VsyncKeepsHead, VsyncSkipsHead, FreshMode, RingMode
  <2>2. HandlerInv' /\ ArmedInv' /\ HeadInv' /\ DoneIsFresh'
    BY <1>1, <2>1 DEF FreshInv, HandlerInv, ArmedInv, HeadInv, DoneIsFresh, VsyncPending
  <2>3. FillInv'
    BY <1>1, <2>1 DEF FreshInv, FillInv, Filled, MissPending, VsyncPending
  <2> QED
    BY <2>2, <2>3 DEF FreshInv
<1>3. CASE VsyncRecyclesHead \/ VsyncDeliversHead
  <2> DEFINE A == vidq_active
  <2>1. /\ A # <<>> /\ Len(A) # 2 /\ first_flag # 0 /\ isr' = "program"
        /\ A' = Tail(A) \/ A' = Append(Tail(A), Head(A))
        /\ UNCHANGED <<ioctl, streaming, status, first_flag, hwVars>>
    BY <1>3 DEF VsyncRecyclesHead, VsyncDeliversHead, HandsOverHead, KeepHead, TwoBuffer,
                FreshMode, RingMode
  <2>2. A \in Seq(Buffers) /\ Len(A) \in Nat /\ (A[1] \in fresh \/ frame_delay_cnt > 0)
        /\ A[1] = Head(A) /\ A[1] \in Buffers /\ vb[A[1]] = "active"
    BY <1>1, <2>1, FrontBuffers DEF FreshInv, HeadInv, IInv, TypeOK, FreshMode
  <2>3. fresh \ {A[1]} \subseteq fresh'
    BY <1>3, <2>2 DEF VsyncRecyclesHead, VsyncDeliversHead
  <2>4. ASSUME capturing PROVE A'[1] = reg /\ reg # A[1]
    <3>1. reg = A[2] /\ reg # A[1] /\ Len(A) >= 2
      BY <1>1, <2>1, <2>4, FrontBuffers DEF FreshMode, IInv, DmaInv, RingInv
    <3>2. \A n \in Nat : n >= 2 /\ n # 2 => n >= 3
      OBVIOUS
    <3>3. Len(A) >= 3
      BY <2>1, <2>2, <3>1, <3>2, Zenon
    <3>4. /\ Tail(A) \in Seq(Buffers) /\ Len(Tail(A)) = Len(A) - 1 /\ Tail(A)[1] = A[2]
      BY <2>1, <2>2, <3>3
    <3>5. Append(Tail(A), Head(A))[1] = A[2]
      BY <2>2, <3>3, <3>4
    <3> QED
      BY <2>1, <3>1, <3>4, <3>5
  <2>5. HandlerInv'
    <3>1. \E b \in Buffers : vb[b] # "none"
      BY <2>2
    <3> QED
      BY <1>1, <2>1, <3>1 DEF FreshInv, HandlerInv
  <2>6. ArmedInv' /\ HeadInv'
    BY <1>1, <2>1 DEF FreshInv, ArmedInv, HeadInv, HandlerInv, VsyncPending
  <2>7. FillInv'
    BY <1>1, <2>1, <2>3, <2>4 DEF FillInv, Filled
  <2>8. DoneIsFresh'
    <3>1. CASE VsyncRecyclesHead
      BY <2>2, <3>1 DEF VsyncRecyclesHead, FreshInv, DoneIsFresh
    <3>2. CASE VsyncDeliversHead
      <4>1. vb' = [vb EXCEPT ![A[1]] = "done"] /\ UNCHANGED fresh
        BY <2>2, <3>2 DEF VsyncDeliversHead, BufferDone
      <4>2. A[1] \in fresh
        BY <2>2, <3>2 DEF VsyncDeliversHead
      <4> QED
        BY <2>2, <4>1, <4>2 DEF FreshInv, DoneIsFresh, IInv, TypeOK
    <3> QED
      BY <1>3, <3>1, <3>2
  <2> QED
    BY <2>5, <2>6, <2>7, <2>8 DEF FreshInv
<1> QED
  BY <1>2, <1>3

LEMMA FreshIsrExit ==
  ASSUME FreshMode, IInv, FreshInv, VsyncProgramsNext \/ IsrCaptureDone
  PROVE  FreshInv'
<1> USE DEF appVars, isrVars, dmaVars, driverVars, hwVars
<1>1. CASE VsyncProgramsNext
  <2>1. /\ isr = "program" /\ isr' = "capture_done" /\ Len(vidq_active) \in Nat
        /\ UNCHANGED <<appVars, vidq_active, streaming, frame_delay_cnt, status, irq, dmaVars,
                       fresh>>
    BY <1>1 DEF VsyncProgramsNext, IInv, TypeOK
  <2>2. HandlerInv' /\ HeadInv' /\ DoneIsFresh'
    BY <2>1 DEF FreshInv, HandlerInv, HeadInv, DoneIsFresh
  <2>5. ioctl # "set_bit"
    BY <2>1 DEF FreshInv, HandlerInv
  <2>3. CASE Len(vidq_active) < 2
    <3>1. UNCHANGED <<reg, armed, first_flag>>
      BY <1>1, <2>3 DEF VsyncProgramsNext
    <3>2. ArmedInv'
      BY <2>1, <3>1 DEF FreshInv, ArmedInv, VsyncPending
    <3>3. FillInv'
      BY <2>1, <3>1 DEF FreshInv, FillInv, Filled, MissPending, VsyncPending
    <3> QED
      BY <2>2, <3>2, <3>3 DEF FreshInv
  <2>4. CASE Len(vidq_active) >= 2
    <3>1. reg' = vidq_active[2] /\ armed' /\ first_flag' = 1
      BY <1>1, <2>1, <2>4 DEF VsyncProgramsNext
    <3>2. reg' # NoBuf
      BY <2>1, <2>4, <3>1, NoBufAssumption DEF IInv, TypeOK
    <3>3. ArmedInv'
      <4>1. "VSYNC" \notin irq
        BY <2>1 DEF IInv, DmaInv
      <4> QED
        BY <2>1, <2>5, <3>1, <3>2, <4>1 DEF FreshInv, ArmedInv, HandlerInv, VsyncPending
    <3>4. capturing => Filled(vidq_active[1])
      BY <2>1, FrontBuffers DEF FreshMode, FreshInv, ArmedInv, FillInv
    <3>5. ~VsyncPending'
      BY <2>1 DEF IInv, DmaInv, VsyncPending
    <3>6. FillInv'
      BY <2>1, <3>1, <3>4, <3>5 DEF FillInv, Filled
    <3> QED
      BY <2>2, <3>3, <3>6 DEF FreshInv
  <2> QED
    BY <2>1, <2>2, <2>3, <2>4
<1>2. CASE IsrCaptureDone
  <2>1. /\ isr = "capture_done" /\ isr' = "idle" /\ status' = {} /\ irq' \subseteq irq
        /\ irq = {} => irq' = {}
        /\ UNCHANGED <<appVars, driverVars, dmaVars, reg, armed, fresh>>
    BY <1>2 DEF IsrCaptureDone, DeliversImage, FreshMode, RingMode
  <2>2. irq' \cap Misses = irq \cap Misses
    BY <1>2 DEF IsrCaptureDone, Misses
  <2>3. HandlerInv' /\ ArmedInv' /\ HeadInv' /\ DoneIsFresh'
    BY <2>1 DEF FreshInv, HandlerInv, ArmedInv, HeadInv, DoneIsFresh, VsyncPending
  <2>4. FillInv'
    BY <2>1, <2>2 DEF FreshInv, FillInv, Filled, MissPending, VsyncPending
  <2> QED
    BY <2>3, <2>4 DEF FreshInv
<1> QED
  BY <1>1, <1>2

(***************************************************************************)
(* The DMA                                                                  *)
(***************************************************************************)
LEMMA FreshHw ==
  ASSUME FreshMode, IInv, FreshInv, Hw
  PROVE  FreshInv'
<1> USE DEF appVars, isrVars, dmaVars, driverVars, hwVars
<1>1. CASE HwVsync
  <2>1. /\ capturing /\ ~busy /\ isr \notin {"vsync", "program"} /\ cur' \in {reg, NoBuf}
        /\ ~armed' /\ busy' /\ irq' = irq \cup {"VSYNC"} /\ fresh' = fresh \ {cur'}
        /\ cur' = NoBuf => ~armed /\ ("served_miss" \in Faults => cur \in fresh \cup {NoBuf})
        /\ reg # NoBuf
        /\ UNCHANGED <<appVars, driverVars, isrVars, capturing, reg>>
    BY <1>1, ModeAssumption DEF HwVsync, IsrOnTime, MayDrop, FreshMode, RingMode, FreshInv,
                                ArmedInv
  <2>2. /\ reg \in Buffers /\ vb[reg] = "active"
        /\ first_flag # 0 => /\ vidq_active # <<>> /\ reg # vidq_active[1]
                             /\ vidq_active[1] \in Buffers
    BY <2>1, FrontBuffers DEF FreshMode
  <2>3. (irq \cup status) \cap Misses = {} /\ ~MissPending
    BY <1>1 DEF HwVsync, MissServed, FreshInv, HandlerInv, Misses, MissPending
  <2>4. HandlerInv'
    BY <2>1, <2>3 DEF FreshInv, HandlerInv, Misses
  <2>5. ArmedInv'
    BY <2>1 DEF FreshInv, ArmedInv, VsyncPending
  <2>6. FillInv'
    <3>1. Filled(reg)'
      <4>1. CASE cur' = reg
        BY <2>1, <4>1 DEF Filled
      <4>2. CASE cur' = NoBuf
        BY <2>1, <2>2, <4>2, NoBufAssumption DEF FreshInv, FillInv, Filled
      <4> QED
        BY <2>1, <4>1, <4>2
    <3>2. first_flag # 0 /\ streaming => vidq_active[1] \in fresh' \/ frame_delay_cnt > 0
      BY <2>1, <2>2, <2>3, NoBufAssumption DEF FreshInv, FillInv, Filled
    <3> QED
      BY <2>1, <3>1, <3>2 DEF FillInv, Filled
  <2>7. HeadInv'
    BY <2>1, <2>2, NoBufAssumption DEF FreshInv, HeadInv
  <2>8. DoneIsFresh'
    BY <2>1, <2>2, NoBufAssumption DEF FreshInv, DoneIsFresh
  <2> QED
    BY <2>4, <2>5, <2>6, <2>7, <2>8 DEF FreshInv
<1>2. ASSUME FrameEnds PROVE capturing /\ busy /\ UNCHANGED capturing
  BY <1>2 DEF FrameEnds, FreshMode, RingMode, IInv, TypeOK, FreshInv, HandlerInv
<1>3. CASE HwFrameEnd
  <2>1. /\ ~busy' /\ irq' = irq /\ fresh' = fresh \cup ({cur} \ {NoBuf})
        /\ capturing /\ UNCHANGED <<appVars, driverVars, isrVars, capturing, cur, reg, armed>>
    BY <1>2, <1>3 DEF HwFrameEnd, FrameEnds, FreshMode, RingMode
  <2>2. HandlerInv' /\ ArmedInv' /\ HeadInv' /\ DoneIsFresh'
    BY <2>1 DEF FreshInv, HandlerInv, ArmedInv, HeadInv, DoneIsFresh, VsyncPending
  <2>3. \A b \in Buffers : Filled(b) => Filled(b)'
    BY <2>1, NoBufAssumption DEF Filled
  <2>4. FillInv'
    <3>1. /\ reg \in Buffers /\ (Filled(reg) => Filled(reg)')
          /\ first_flag # 0 /\ Filled(vidq_active[1]) => Filled(vidq_active[1])'
      BY <2>1, <2>3, FrontBuffers DEF FreshMode, FreshInv, ArmedInv, Filled
    <3> QED
      BY <2>1, <3>1 DEF FreshInv, FillInv, VsyncPending, MissPending
  <2> QED
    BY <2>2, <2>4 DEF FreshInv
<1>4. ASSUME NEW bit \in {"PIXEL_MISS", "LINE_MISS"}, HwMiss(bit) PROVE FreshInv'
  <2>1. /\ "served_miss" \in Faults /\ streaming /\ isr = "idle" /\ irq = {} /\ status = {}
        /\ ~busy' /\ irq' = {bit} /\ capturing
        /\ UNCHANGED <<appVars, driverVars, isrVars, capturing, cur, reg, armed, fresh>>
    BY <1>2, <1>4 DEF HwMiss, FrameEnds, FreshMode, FreshInv, HandlerInv
  <2>2. HandlerInv' /\ ArmedInv' /\ HeadInv' /\ DoneIsFresh'
    BY <2>1 DEF FreshInv, HandlerInv, ArmedInv, HeadInv, DoneIsFresh, VsyncPending, Misses
  <2>3. FillInv'
    BY <2>1 DEF FreshInv, FillInv, Filled, VsyncPending, MissPending, Misses
  <2> QED
    BY <2>2, <2>3 DEF FreshInv
<1>5. CASE HwOverflow
  BY <1>5 DEF HwOverflow, FreshMode
<1> QED
  BY <1>1, <1>3, <1>4, <1>5 DEF Hw

-----------------------------------------------------------------------------
LEMMA FInvInductive ==
  ASSUME FreshMode
  PROVE  (Init => FInv) /\ (FInv /\ [Next]_vars => FInv')
<1>1. Init => FInv
  <2>1. Init => IInv
    BY IInvInductive DEF FreshMode
  <2>2. Init => FreshInv
    BY DEF Init, FreshInv, HandlerInv, ArmedInv, FillInv, HeadInv, DoneIsFresh
  <2> QED
    BY <2>1, <2>2 DEF FInv
<1>2. FInv /\ [Next]_vars => FInv'
  <2> SUFFICES ASSUME FInv, [Next]_vars PROVE FInv'
    OBVIOUS
  <2>1. IInv /\ FreshInv /\ IInv'
    BY IInvInductive DEF FreshMode, FInv
  <2>2. CASE App \/ IoctlProgress
    BY <2>1, <2>2, FreshApp DEF FInv
  <2>3. CASE Isr
    BY <2>1, <2>3, FreshIsrEntry, FreshIsrVsync, FreshIsrExit DEF FInv, Isr
  <2>4. CASE Hw
    BY <2>1, <2>4, FreshHw DEF FInv
  <2>5. ASSUME UNCHANGED <<appVars, vidq_active, streaming, stream_count, first_flag, isrVars,
                           hwVars, fresh>>,
               frame_delay_cnt > 0 => frame_delay_cnt' > 0
        PROVE  FreshInv'
    <3> USE DEF appVars, isrVars, hwVars, dmaVars
    <3>1. HandlerInv' /\ ArmedInv' /\ HeadInv' /\ DoneIsFresh'
      BY <2>1, <2>5 DEF FreshInv, HandlerInv, ArmedInv, HeadInv, DoneIsFresh, VsyncPending
    <3>2. FillInv'
      BY <2>1, <2>5 DEF FreshInv, FillInv, Filled, MissPending, VsyncPending
    <3> QED
      BY <3>1, <3>2 DEF FreshInv
  <2>6. ASSUME NEW d \in Delays, DelayFrames(d) PROVE FInv'
    <3>1. d > 0
      BY BoundAssumption
    <3> QED
      BY <2>1, <2>5, <2>6, <3>1 DEF FInv, DelayFrames
  <2>7. CASE UNCHANGED vars
    BY <2>1, <2>5, <2>7 DEF FInv, vars, driverVars
  <2> QED
    BY <2>2, <2>3, <2>4, <2>6, <2>7 DEF Next
<1> QED
  BY <1>1, <1>2

(* A buffer delivered as done holds a whole frame captured since it was queued, *)
(* however late vin_isr starts, whether the DMA uses an old address again or    *)
(* drops the frame, and wherever STREAMOFF stops it; short frames may come in    *)
(* every format but the RAW ones, where vin_isr delivers them.                *)
THEOREM DoneAlwaysFresh ==
  ASSUME FreshMode
  PROVE  Spec => []DoneIsFresh
<1>1. FInv => DoneIsFresh
  BY DEF FInv, FreshInv
<1> QED
  BY <1>1, FInvInductive, PTL DEF Spec

-----------------------------------------------------------------------------
(***************************************************************************)
(* Frames are delivered in the order they were captured.                    *)
(***************************************************************************)

(* No frame is before itself.                                               *)
HistoryInv ==
  /\ before \subseteq fresh \X fresh
  /\ \A a, b \in fresh : <<a, b>> \in before => <<b, a>> \notin before

(* A buffer with a whole frame has not been given back yet.                   *)
StateInv ==
  /\ \A b \in Buffers : vb[b] = "error" => ioctl = "release"
  /\ \A b \in fresh : vb[b] \in {"active", "done", "error"}
  /\ busy => cur \notin fresh
  /\ ioctl = "set_stream_on" => \A b \in fresh : vb[b] # "active"

(* Whole frames are in the first two buffers of vidq_active only, the second    *)
(* of them filled last, and all of them after the frames that are done.         *)
PlaceInv ==
  /\ \A i \in DOMAIN vidq_active : vidq_active[i] \in fresh => i <= 2
  /\ Len(vidq_active) >= 2 /\ vidq_active[2] \in fresh =>
       /\ vidq_active[1] \in fresh => <<vidq_active[1], vidq_active[2]>> \in before
       /\ isr # "program" /\ first_flag # 0 /\ (busy => cur # vidq_active[1])
  /\ \A d \in Elements(done), b \in Elements(vidq_active) :
       b \in fresh => <<d, b>> \in before

OrderInv == HistoryInv /\ StateInv /\ PlaceInv /\ FramesInOrder

(* How a step changes the history.                                           *)
LEMMA HistoryKeeps ==
  ASSUME HistoryInv, RecordFrame
  PROVE  /\ HistoryInv'
         /\ \A a, b \in fresh \cap fresh' : <<a, b>> \in before' <=> <<a, b>> \in before
         /\ \A a \in fresh \cap fresh', b \in fresh' \ fresh : <<a, b>> \in before'
         /\ \A a, b : <<a, b>> \in before' => a \in fresh /\ a \in fresh'
         /\ fresh' = fresh => before' = before
<1> DEFINE kept == fresh \cap fresh'
<1>1. before' = (before \cap (kept \X kept)) \cup (kept \X (fresh' \ fresh))
  BY DEF RecordFrame
<1>2. \A a, b : <<a, b>> \in before' <=>
         \/ <<a, b>> \in before /\ a \in kept /\ b \in kept
         \/ a \in kept /\ b \in fresh' \ fresh
  BY <1>1
<1>3. before' \subseteq fresh' \X fresh'
  BY <1>1
<1>4. \A a, b \in fresh' : <<a, b>> \in before' => <<b, a>> \notin before'
  BY <1>2 DEF HistoryInv
<1>5. fresh' = fresh => before' = before
  BY <1>1 DEF HistoryInv
<1> QED
  BY <1>2, <1>3, <1>4, <1>5 DEF HistoryInv

(* What is done is whole, before and after a step.                            *)
LEMMA DoneFresh ==
  ASSUME IInv, FreshInv
  PROVE  Elements(done) \subseteq fresh
BY DEF IInv, ListsInv, FreshInv, DoneIsFresh

LEMMA OrderKept ==
  ASSUME FInv, FInv', OrderInv, RecordFrame, UNCHANGED done
  PROVE  FramesInOrder'
<1>1. \A i \in DOMAIN done : done[i] \in fresh \cap fresh'
  BY DoneFresh DEF FInv, IInv, ListsInv, FreshInv, DoneIsFresh, Elements
<1>2. \A i, j \in DOMAIN done : i < j => <<done[i], done[j]>> \in before'
  BY <1>1, HistoryKeeps DEF OrderInv, FramesInOrder
<1>3. ASSUME NEW a \in Buffers, NEW j \in DOMAIN done, <<a, done[j]>> \in before'
      PROVE  a \in Elements(done)
  <2>1. <<a, done[j]>> \in before
    BY <1>1, <1>3, HistoryKeeps DEF OrderInv
  <2> QED
    BY <2>1 DEF OrderInv, FramesInOrder
<1> QED
  BY <1>2, <1>3 DEF FramesInOrder, Elements

(* A step that takes frames away only.                                       *)
LEMMA PlaceKept ==
  ASSUME FInv, FInv', OrderInv, RecordFrame, UNCHANGED vidq_active,
         fresh' \subseteq fresh, Elements(done') \subseteq Elements(done),
         isr' = "program" => isr = "program" \/ first_flag = 0,
         first_flag' # 0 \/ first_flag = 0 \/ \A b \in fresh : vb[b] # "active",
         busy' => busy /\ cur' = cur
  PROVE  PlaceInv'
<1> DEFINE A == vidq_active
<1>1. /\ A \in Seq(Buffers) /\ Len(A) \in Nat /\ DOMAIN A = 1 .. Len(A)
      /\ \A i \in DOMAIN A : A[i] \in Elements(A) /\ vb[A[i]] = "active"
  BY DEF FInv, IInv, TypeOK, ListsInv, Elements
<1>2. \A i \in DOMAIN A : A[i] \in fresh' => i <= 2
  BY DEF OrderInv, PlaceInv
<1>3. ASSUME Len(A) >= 2, A[2] \in fresh'
      PROVE  /\ A[1] \in fresh' => <<A[1], A[2]>> \in before'
             /\ isr' # "program" /\ first_flag' # 0 /\ (busy' => cur' # A[1])
  <2>1. A[2] \in fresh /\ vb[A[2]] = "active"
    BY <1>1, <1>3
  <2>2. /\ A[1] \in fresh => <<A[1], A[2]>> \in before
        /\ isr # "program" /\ first_flag # 0 /\ (busy => cur # A[1])
    BY <1>3, <2>1 DEF OrderInv, PlaceInv
  <2>3. A[1] \in fresh' => <<A[1], A[2]>> \in before'
    BY <1>3, <2>1, <2>2, HistoryKeeps DEF OrderInv
  <2> QED
    BY <2>1, <2>2, <2>3
<1>4. ASSUME NEW d \in Elements(done'), NEW b \in Elements(A), b \in fresh'
      PROVE  <<d, b>> \in before'
  <2>1. d \in fresh \cap fresh'
    BY DoneFresh DEF FInv, IInv, ListsInv, FreshInv, DoneIsFresh, Elements
  <2>2. <<d, b>> \in before
    BY <1>4 DEF OrderInv, PlaceInv
  <2> QED
    BY <1>4, <2>1, <2>2, HistoryKeeps DEF OrderInv
<1> QED
  BY <1>2, <1>3, <1>4 DEF PlaceInv, Elements

(* The buffer that is being filled.                                          *)
LEMMA CurActive ==
  ASSUME RingMode, IInv, capturing, cur # NoBuf
  PROVE  /\ cur \in Elements(vidq_active) /\ cur \in Buffers /\ vb[cur] = "active"
         /\ vidq_active # <<>>
         /\ first_flag = 0 => cur = vidq_active[1]
         /\ first_flag # 0 => /\ Len(vidq_active) >= 2
                              /\ cur = vidq_active[1] \/ (cur = vidq_active[2] /\ isr # "program")
<1> DEFINE A == vidq_active
<1>1. /\ A \in Seq(Buffers) /\ Len(A) \in Nat /\ DOMAIN A = 1 .. Len(A)
      /\ \A i \in DOMAIN A : A[i] \in Elements(A) /\ A[i] \in Buffers /\ vb[A[i]] = "active"
  BY DEF IInv, TypeOK, ListsInv, Elements
<1>2. CASE first_flag = 0
  <2>1. cur = reg /\ A # <<>> /\ reg = A[1]
    BY <1>2, FrontBuffers DEF IInv, DmaInv, FirstFrameInv
  <2>2. 1 \in DOMAIN A
    BY <1>1, <2>1
  <2> QED
    BY <1>1, <1>2, <2>1, <2>2
<1>3. CASE first_flag # 0
  <2>1. /\ Len(A) >= 2
        /\ cur = A[1] \/ (cur = A[2] /\ isr # "program")
    BY <1>3 DEF IInv, DmaInv, RingInv
  <2>2. 1 \in DOMAIN A /\ 2 \in DOMAIN A /\ A # <<>>
    BY <1>1, <2>1
  <2> QED
    BY <1>1, <1>3, <2>1, <2>2
<1> QED
  BY <1>2, <1>3

LEMMA StateApp ==
  ASSUME FreshMode, FInv, StateInv, App \/ IoctlProgress
  PROVE  StateInv'
<1> USE DEF StateInv, appVars, isrVars, dmaVars, driverVars, hwVars
<1>0. TypeOK /\ ListsInv /\ StreamInv
  BY DEF FInv, IInv
<1>1. CASE Reqbufs \/ QueueFree \/ Close
  BY <1>0, <1>1 DEF Reqbufs, QueueFree, Close, FreeBuffers, TypeOK
<1>2. CASE Dqbuf
  BY <1>0, <1>2 DEF Dqbuf, TypeOK
<1>3. ASSUME NEW b \in Buffers, QbufEarly(b) PROVE StateInv'
  BY <1>0, <1>3 DEF QbufEarly, TypeOK
<1>4. ASSUME NEW b \in Buffers, Qbuf(b) PROVE StateInv'
  BY <1>0, <1>4 DEF Qbuf, TypeOK
<1>5. CASE Streamon
  <2>1. \A b \in Buffers : vb[b] \notin {"active", "error"}
    BY <1>0, <1>5 DEF Streamon, StreamInv, StreamOpen, ListsInv, Elements
  <2>2. /\ vb' = [b \in Buffers |-> IF b \in Elements(queued) THEN "active" ELSE vb[b]]
        /\ UNCHANGED <<busy, cur, fresh>>
    BY <1>5 DEF Streamon
  <2>3. \A b \in fresh : b \in Buffers /\ b \notin Elements(queued)
    BY <1>0 DEF TypeOK, ListsInv
  <2> QED
    BY <1>0, <2>1, <2>2, <2>3
<1>6. CASE SetStreamOn \/ SetStreamOnFails
  BY <1>6 DEF SetStreamOn, SetStreamOnFails, StartDma, StopDma
<1>7. CASE SetStreamBit \/ Streamoff \/ SetStreamOff
  BY <1>7 DEF SetStreamBit, Streamoff, SetStreamOff, StopDma
<1>8. CASE SetStreamOffFails
  BY <1>8 DEF SetStreamOffFails, FreshMode, RingMode
<1>9. CASE StopStreaming
  BY <1>0, <1>9 DEF StopStreaming, TypeOK
<1> QED
  BY <1>1, <1>2, <1>3, <1>4, <1>5, <1>6, <1>7, <1>8, <1>9 DEF App, IoctlProgress

LEMMA StateIsrHw ==
  ASSUME FreshMode, FInv, StateInv, Isr \/ Hw
  PROVE  StateInv'
<1> USE DEF StateInv, appVars, isrVars, dmaVars, driverVars, hwVars
<1>0. TypeOK /\ ListsInv /\ StreamInv
  BY DEF FInv, IInv
<1>1. CASE IsrIgnores \/ IsrEnters \/ IsrOverflow \/ IsrResets \/ IsrErrors \/ VsyncKeepsHead
           \/ VsyncSkipsHead \/ VsyncProgramsNext
  BY <1>1 DEF IsrIgnores, IsrEnters, IsrOverflow, IsrResets, IsrErrors, VsyncKeepsHead,
              VsyncSkipsHead, VsyncProgramsNext
<1>2. CASE VsyncRecyclesHead
  BY <1>2 DEF VsyncRecyclesHead
<1>3. CASE VsyncDeliversHead
  <2>1. /\ vb' = [vb EXCEPT ![Head(vidq_active)] = "done"]
        /\ UNCHANGED <<ioctl, busy, cur, fresh>>
    BY <1>3 DEF VsyncDeliversHead, BufferDone
  <2> QED
    BY <1>0, <2>1 DEF TypeOK
<1>4. CASE IsrCaptureDone
  BY <1>4 DEF IsrCaptureDone, DeliversImage, FreshMode, RingMode
<1>5. CASE HwVsync
  BY <1>5 DEF HwVsync
<1>6. CASE HwFrameEnd
  <2>1. /\ busy /\ ~busy' /\ fresh' = fresh \cup ({cur} \ {NoBuf})
        /\ UNCHANGED <<appVars, cur>>
    BY <1>6 DEF HwFrameEnd, FrameEnds
  <2>2. cur # NoBuf => vb[cur] = "active" /\ ioctl # "set_stream_on"
    <3>1. capturing /\ ioctl # "set_stream_on"
      BY <1>0, <2>1 DEF FInv, FreshInv, HandlerInv, StreamInv, StreamOpen
    <3>2. cur # NoBuf => vb[cur] = "active"
      BY <3>1, CurActive DEF FreshMode, FInv
    <3> QED
      BY <3>1, <3>2
  <2> QED
    BY <2>1, <2>2
<1>7. CASE HwOverflow \/ \E bit \in {"PIXEL_MISS", "LINE_MISS"} : HwMiss(bit)
  BY <1>7 DEF HwOverflow, HwMiss, FrameEnds
<1> QED
  BY <1>1, <1>2, <1>3, <1>4, <1>5, <1>6, <1>7 DEF Isr, Hw

(* Nothing whole is on vidq_active.                                          *)
LEMMA PlaceEmpty ==
  ASSUME FInv', \A b \in Elements(vidq_active') : b \notin fresh'
  PROVE  PlaceInv'
<1>1. /\ vidq_active' \in Seq(Buffers) /\ Len(vidq_active') \in Nat
      /\ DOMAIN vidq_active' = 1 .. Len(vidq_active')
      /\ \A i \in DOMAIN vidq_active' : vidq_active'[i] \notin fresh'
  BY DEF FInv, IInv, TypeOK, Elements
<1>2. Len(vidq_active') >= 2 => vidq_active'[2] \notin fresh'
  BY <1>1
<1> QED
  BY <1>1, <1>2 DEF PlaceInv

LEMMA OrderApp ==
  ASSUME FreshMode, FInv, FInv', OrderInv, RecordFrame, App \/ IoctlProgress
  PROVE  PlaceInv' /\ FramesInOrder'
<1> USE DEF appVars, isrVars, dmaVars, driverVars, hwVars
<1>0. TypeOK /\ ListsInv /\ StreamInv /\ StateInv
  BY DEF FInv, IInv, OrderInv
<1>1. CASE Reqbufs \/ SetStreamBit \/ Streamoff \/ SetStreamOff
  <2>1. UNCHANGED <<done, vidq_active, isr, first_flag, fresh>> /\ (busy' => busy /\ cur' = cur)
    BY <1>1 DEF Reqbufs, SetStreamBit, Streamoff, SetStreamOff, StopDma
  <2> QED
    BY <2>1, PlaceKept, OrderKept
<1>2. CASE SetStreamOn \/ SetStreamOnFails
  <2>1. /\ UNCHANGED <<done, vidq_active, isr, fresh>> /\ (busy' => busy /\ cur' = cur)
        /\ ioctl = "set_stream_on"
    BY <1>2 DEF SetStreamOn, SetStreamOnFails, StartDma, StopDma
  <2>2. \A b \in fresh : vb[b] # "active"
    BY <1>0, <2>1 DEF StateInv
  <2> QED
    BY <2>1, <2>2, PlaceKept, OrderKept
<1>3. CASE SetStreamOffFails
  BY <1>3 DEF SetStreamOffFails, FreshMode, RingMode
<1>4. CASE QueueFree \/ Close
  <2>1. fresh' = {} /\ done' = <<>>
    BY <1>4 DEF QueueFree, Close, FreeBuffers
  <2> QED
    BY <2>1, PlaceEmpty DEF FramesInOrder
<1>5. ASSUME NEW b \in Buffers, QbufEarly(b) PROVE PlaceInv' /\ FramesInOrder'
  <2>1. /\ UNCHANGED <<done, vidq_active, isr, first_flag, busy, cur>>
        /\ fresh' \subseteq fresh
    BY <1>5 DEF QbufEarly
  <2> QED
    BY <2>1, PlaceKept, OrderKept
<1>6. CASE StopStreaming
  <2>1. vidq_active' = <<>> /\ UNCHANGED done
    BY <1>6 DEF StopStreaming
  <2> QED
    BY <2>1, PlaceEmpty, OrderKept DEF Elements
<1>7. CASE Streamon
  <2>1. vidq_active = <<>>
    BY <1>0, <1>7 DEF Streamon, StreamInv, StreamOpen
  <2>2. /\ UNCHANGED <<done, fresh>> /\ vidq_active' = vidq_active \o queued
    BY <1>7 DEF Streamon
  <2>3. vidq_active' = queued
    BY <1>0, <2>1, <2>2 DEF TypeOK
  <2>4. \A b \in Elements(queued) : b \notin fresh
    BY <1>0 DEF ListsInv, StateInv
  <2> QED
    BY <2>2, <2>3, <2>4, PlaceEmpty, OrderKept
<1>8. ASSUME NEW b \in Buffers, Qbuf(b) PROVE PlaceInv' /\ FramesInOrder'
  <2> DEFINE A == vidq_active
  <2>1. /\ A' = Append(A, b) /\ fresh' = fresh \ {b} /\ vb[b] = "dequeued"
        /\ UNCHANGED <<done, isr, first_flag, busy, cur>>
    BY <1>8 DEF Qbuf, TwoBuffer, FreshMode, RingMode
  <2>2. /\ A \in Seq(Buffers) /\ Len(A) \in Nat /\ DOMAIN A = 1 .. Len(A)
        /\ \A i \in DOMAIN A : A[i] \in Elements(A) /\ vb[A[i]] = "active"
        /\ DOMAIN A' = 1 .. Len(A) + 1 /\ Len(A') = Len(A) + 1
        /\ \A i \in DOMAIN A : A'[i] = A[i]
        /\ A'[Len(A) + 1] = b
    BY <1>0, <2>1 DEF TypeOK, ListsInv, Elements
  <2>3. \A i \in DOMAIN A' : A'[i] \in fresh' => i \in DOMAIN A /\ A'[i] = A[i] /\ A[i] \in fresh
    BY <2>1, <2>2
  <2>4. \A i \in DOMAIN A' : A'[i] \in fresh' => i <= 2
    BY <2>3 DEF OrderInv, PlaceInv
  <2>5. ASSUME Len(A') >= 2, A'[2] \in fresh'
        PROVE  /\ A'[1] \in fresh' => <<A'[1], A'[2]>> \in before'
               /\ isr' # "program" /\ first_flag' # 0 /\ (busy' => cur' # A'[1])
    <3>1. 1 \in DOMAIN A /\ 2 \in DOMAIN A /\ A'[1] = A[1] /\ A'[2] = A[2] /\ A[2] \in fresh
      BY <2>2, <2>3, <2>5
    <3>2. /\ A[1] \in fresh => <<A[1], A[2]>> \in before
          /\ isr # "program" /\ first_flag # 0 /\ (busy => cur # A[1])
      BY <2>2, <3>1 DEF OrderInv, PlaceInv
    <3>3. A[1] \in fresh' => <<A[1], A[2]>> \in before'
      BY <2>1, <2>5, <3>1, <3>2, HistoryKeeps DEF OrderInv
    <3> QED
      BY <2>1, <3>1, <3>2, <3>3
  <2>6. ASSUME NEW d \in Elements(done), NEW c \in Elements(A'), c \in fresh'
        PROVE  <<d, c>> \in before'
    <3>1. d \in fresh \cap fresh' /\ c \in Elements(A)
      <4>1. d \in Elements(done') /\ d \in fresh'
        BY <2>1, DoneFresh DEF FInv, IInv, ListsInv, FreshInv, DoneIsFresh, Elements
      <4>2. c \in Elements(A)
        BY <2>3, <2>6, <2>2 DEF Elements
      <4> QED
        BY <2>1, <4>1, <4>2
    <3>2. <<d, c>> \in before
      BY <2>1, <2>6, <3>1 DEF OrderInv, PlaceInv
    <3> QED
      BY <2>1, <2>6, <3>1, <3>2, HistoryKeeps DEF OrderInv
  <2> QED
    BY <2>1, <2>4, <2>5, <2>6, OrderKept DEF PlaceInv, Elements
<1>9. CASE Dqbuf
  <2>1. /\ done # <<>> /\ done' = Tail(done) /\ fresh' = fresh \ {Head(done)}
        /\ UNCHANGED <<vidq_active, isr, first_flag, busy, cur>>
    BY <1>9 DEF Dqbuf
  <2>2. /\ done \in Seq(Buffers) /\ Distinct(done)
        /\ Elements(done') = Elements(done) \ {Head(done)}
    BY <1>0, <2>1, TailElements DEF TypeOK, ListsInv
  <2>3. /\ Len(done) \in Nat /\ DOMAIN done = 1 .. Len(done)
        /\ DOMAIN done' = 1 .. Len(done) - 1
        /\ \A i \in DOMAIN done' : i + 1 \in DOMAIN done /\ done'[i] = done[i + 1]
    BY <2>1, <2>2
  <2>4. \A i \in DOMAIN done' : done'[i] \in Elements(done') /\ done'[i] \in fresh \cap fresh'
    <3>1. Elements(done') \subseteq fresh \cap fresh'
      BY <2>1, <2>2, DoneFresh DEF FInv
    <3> QED
      BY <3>1 DEF Elements
  <2>5. ASSUME NEW i \in DOMAIN done', NEW j \in DOMAIN done', i < j
        PROVE  <<done'[i], done'[j]>> \in before'
    <3>1. <<done[i + 1], done[j + 1]>> \in before
      BY <2>3, <2>5 DEF OrderInv, FramesInOrder
    <3> QED
      BY <2>3, <2>4, <3>1, HistoryKeeps DEF OrderInv
  <2>6. ASSUME NEW a \in Buffers, NEW j \in DOMAIN done', <<a, done'[j]>> \in before'
        PROVE  a \in Elements(done')
    <3>1. a \in fresh \cap fresh' /\ <<a, done[j + 1]>> \in before
      BY <2>3, <2>4, <2>6, HistoryKeeps DEF OrderInv
    <3>2. a \in Elements(done)
      BY <2>3, <3>1 DEF OrderInv, FramesInOrder
    <3> QED
      BY <2>1, <2>2, <3>1, <3>2
  <2>7. PlaceInv'
    BY <2>1, <2>2, PlaceKept
  <2> QED
    BY <2>5, <2>6, <2>7 DEF FramesInOrder, Elements
<1> QED
  BY <1>1, <1>2, <1>3, <1>4, <1>5, <1>6, <1>7, <1>8, <1>9 DEF App, IoctlProgress

(* vin_isr takes the head of vidq_active.                                     *)
LEMMA OrderVsync ==
  ASSUME FreshMode, FInv, FInv', OrderInv, RecordFrame, VsyncRecyclesHead \/ VsyncDeliversHead
  PROVE  PlaceInv' /\ FramesInOrder'
<1> USE DEF appVars, isrVars, dmaVars, driverVars, hwVars
<1> DEFINE A == vidq_active
<1>0. TypeOK /\ ListsInv /\ StreamInv /\ StateInv
  BY DEF FInv, IInv, OrderInv
<1>1. /\ A # <<>> /\ Len(A) # 2 /\ isr = "vsync" /\ first_flag # 0
      /\ A' = Tail(A) \/ (A' = Append(Tail(A), Head(A)) /\ Head(A) \notin fresh')
      /\ fresh' \subseteq fresh
  BY DEF VsyncRecyclesHead, VsyncDeliversHead, HandsOverHead, KeepHead, TwoBuffer, FreshMode,
         RingMode
<1>2. /\ A \in Seq(Buffers) /\ Len(A) \in Nat /\ Len(A) >= 1 /\ DOMAIN A = 1 .. Len(A)
      /\ Head(A) = A[1] /\ 1 \in DOMAIN A
      /\ \A i \in DOMAIN A : A[i] \in Elements(A) /\ A[i] \in Buffers /\ vb[A[i]] = "active"
      /\ \A i, j \in DOMAIN A : A[i] = A[j] => i = j
  BY <1>0, <1>1 DEF TypeOK, ListsInv, Elements, Distinct
<1>3. /\ Tail(A) \in Seq(Buffers) /\ Len(Tail(A)) = Len(A) - 1
      /\ \A i \in 1 .. Len(A) - 1 : Tail(A)[i] = A[i + 1]
  BY <1>1, <1>2
<1>4. /\ DOMAIN A' = 1 .. Len(A') /\ Len(A') \in Nat
      /\ \A i \in DOMAIN A' : A'[i] \in fresh' =>
           i \in 1 .. Len(A) - 1 /\ A'[i] = A[i + 1] /\ A[i + 1] \in fresh /\ i + 1 \in DOMAIN A
  <2>1. CASE A' = Tail(A)
    BY <1>1, <1>2, <1>3, <2>1
  <2>2. CASE A' = Append(Tail(A), Head(A)) /\ Head(A) \notin fresh'
    <3>1. /\ Len(A') = Len(A) /\ DOMAIN A' = 1 .. Len(A) /\ A'[Len(A)] = Head(A)
          /\ \A i \in 1 .. Len(A) - 1 : A'[i] = A[i + 1]
      BY <1>2, <1>3, <2>2
    <3>2. ASSUME NEW i \in 1 .. Len(A), A'[i] \in fresh' PROVE i \in 1 .. Len(A) - 1
      <4>1. i # Len(A)
        BY <2>2, <3>1, <3>2
      <4>2. \A n \in Nat : \A k \in 1 .. n : k # n => k \in 1 .. n - 1
        OBVIOUS
      <4> QED
        BY <1>2, <3>2, <4>1, <4>2, Zenon
    <3>3. \A i \in 1 .. Len(A) - 1 : i + 1 \in DOMAIN A
      BY <1>2
    <3> QED
      BY <1>1, <1>2, <3>1, <3>2, <3>3
  <2> QED
    BY <1>1, <2>1, <2>2
<1>5. \A i \in DOMAIN A' : A'[i] \in fresh' => i = 1 /\ A'[1] = A[2] /\ A[2] \in fresh /\ Len(A) >= 2
  <2> SUFFICES ASSUME NEW i \in DOMAIN A', A'[i] \in fresh'
               PROVE  i = 1 /\ A'[1] = A[2] /\ A[2] \in fresh /\ Len(A) >= 2
    OBVIOUS
  <2>1. i + 1 <= 2 /\ i \in 1 .. Len(A) - 1
    BY <1>4 DEF OrderInv, PlaceInv
  <2>2. i = 1 /\ Len(A) >= 2
    BY <1>2, <2>1
  <2> QED
    BY <1>4, <2>2
<1>6. \A i \in DOMAIN A' : A'[i] \in fresh' => i <= 2
  BY <1>5
<1>7. Len(A') >= 2 => A'[2] \notin fresh'
  <2> SUFFICES ASSUME Len(A') >= 2, A'[2] \in fresh' PROVE FALSE
    OBVIOUS
  <2>1. 2 \in DOMAIN A'
    BY <1>2, <1>4
  <2> QED
    BY <1>5, <2>1
<1>8. CASE VsyncRecyclesHead
  <2>1. UNCHANGED done
    BY <1>8 DEF VsyncRecyclesHead
  <2>2. ASSUME NEW d \in Elements(done), NEW b \in Elements(A'), b \in fresh'
        PROVE  <<d, b>> \in before'
    <3>1. b = A[2] /\ Len(A) >= 2 /\ b \in fresh /\ b \in Elements(A)
      BY <1>2, <1>5, <2>2 DEF Elements
    <3>2. d \in fresh \cap fresh'
      <4>1. d \in Elements(done')
        BY <2>1
      <4> QED
        BY <4>1, DoneFresh DEF FInv, IInv, ListsInv, FreshInv, DoneIsFresh
    <3>3. <<d, b>> \in before
      BY <3>1 DEF OrderInv, PlaceInv
    <3> QED
      BY <2>2, <3>1, <3>2, <3>3, HistoryKeeps DEF OrderInv
  <2> QED
    BY <1>6, <1>7, <2>1, <2>2, OrderKept DEF PlaceInv, Elements
<1>9. CASE VsyncDeliversHead
  <2>1. /\ done' = Append(done, A[1]) /\ fresh' = fresh /\ before' = before
        /\ vb' = [vb EXCEPT ![A[1]] = "done"]
    BY <1>2, <1>9, HistoryKeeps DEF VsyncDeliversHead, BufferDone, OrderInv
  <2>2. /\ done \in Seq(Buffers) /\ Len(done) \in Nat /\ DOMAIN done = 1 .. Len(done)
        /\ DOMAIN done' = 1 .. Len(done) + 1
        /\ \A i \in DOMAIN done : done'[i] = done[i] /\ done[i] \in Elements(done)
        /\ done'[Len(done) + 1] = A[1]
        /\ Elements(done') = Elements(done) \cup {A[1]}
    <3>1. done \in Seq(Buffers) /\ A[1] \in Buffers
      BY <1>0, <1>2 DEF TypeOK
    <3>2. Elements(done') = Elements(done) \cup {A[1]}
      BY <2>1, <3>1, AppendElements
    <3> QED
      BY <2>1, <3>1, <3>2 DEF Elements
  <2>3. A[1] \in fresh
    BY <1>0, <1>2, <2>1 DEF FInv, FreshInv, DoneIsFresh, TypeOK
  <2>4. Len(A) >= 2 /\ A[2] \in fresh => <<A[1], A[2]>> \in before
    BY <2>3 DEF OrderInv, PlaceInv
  <2>5. ASSUME NEW d \in Elements(done'), NEW b \in Elements(A'), b \in fresh'
        PROVE  <<d, b>> \in before'
    <3>1. b = A[2] /\ Len(A) >= 2 /\ b \in fresh /\ b \in Elements(A)
      BY <1>2, <1>5, <2>5 DEF Elements
    <3> QED
      BY <2>1, <2>2, <2>4, <3>1 DEF OrderInv, PlaceInv
  <2>6. ASSUME NEW i \in DOMAIN done', NEW j \in DOMAIN done', i < j
        PROVE  <<done'[i], done'[j]>> \in before'
    <3>1. CASE j \in DOMAIN done
      BY <2>1, <2>2, <2>6, <3>1 DEF OrderInv, FramesInOrder
    <3>2. CASE j = Len(done) + 1
      <4>1. i \in DOMAIN done /\ done'[i] \in Elements(done) /\ done'[j] = A[1]
        BY <2>2, <2>6, <3>2
      <4> QED
        BY <1>2, <2>1, <2>3, <4>1 DEF OrderInv, PlaceInv
    <3> QED
      BY <2>2, <3>1, <3>2
  <2>7. ASSUME NEW a \in Buffers, <<a, A[1]>> \in before, a \notin Elements(done)
        PROVE  FALSE
    <3>1. a \in fresh /\ <<A[1], a>> \notin before
      BY <2>3, <2>7 DEF OrderInv, HistoryInv
    <3>2. ioctl # "release"
      BY <1>0, <1>1 DEF StreamInv, StreamOpen
    <3>3. a \in Elements(A)
      BY <1>0, <2>7, <3>1, <3>2 DEF StateInv, ListsInv
    <3>4. PICK i \in DOMAIN A : a = A[i] /\ i <= 2
      BY <3>1, <3>3 DEF OrderInv, PlaceInv, Elements
    <3>5. i = 1 \/ (i = 2 /\ Len(A) >= 2)
      BY <1>2, <3>4
    <3> QED
      BY <2>4, <2>7, <3>1, <3>4, <3>5
  <2>8. ASSUME NEW a \in Buffers, NEW j \in DOMAIN done', <<a, done'[j]>> \in before'
        PROVE  a \in Elements(done')
    <3>1. CASE j \in DOMAIN done
      BY <2>1, <2>2, <2>8, <3>1 DEF OrderInv, FramesInOrder
    <3>2. CASE j = Len(done) + 1
      BY <2>1, <2>2, <2>7, <2>8, <3>2
    <3> QED
      BY <2>2, <3>1, <3>2
  <2> QED
    BY <1>6, <1>7, <2>5, <2>6, <2>8 DEF PlaceInv, FramesInOrder, Elements
<1> QED
  BY <1>8, <1>9

LEMMA OrderIsr ==
  ASSUME FreshMode, FInv, FInv', OrderInv, RecordFrame, Isr
  PROVE  PlaceInv' /\ FramesInOrder'
<1> USE DEF appVars, isrVars, dmaVars, driverVars, hwVars
<1>1. CASE \/ IsrIgnores \/ IsrEnters \/ IsrOverflow \/ IsrResets \/ IsrErrors
           \/ VsyncKeepsHead
  <2>1. /\ UNCHANGED <<vidq_active, done, fresh, first_flag>> /\ (busy' => busy /\ cur' = cur)
        /\ isr' # "program" \/ isr' = isr
    BY <1>1 DEF IsrIgnores, IsrEnters, IsrOverflow, IsrResets, IsrErrors, VsyncKeepsHead
  <2> QED
    BY <2>1, PlaceKept, OrderKept
<1>2. CASE VsyncSkipsHead
  <2>1. UNCHANGED <<vidq_active, done, fresh, first_flag, busy, cur>> /\ first_flag = 0
    BY <1>2 DEF VsyncSkipsHead, HandsOverHead, FreshMode, RingMode
  <2> QED
    BY <2>1, PlaceKept, OrderKept
<1>3. CASE VsyncProgramsNext
  <2>1. /\ UNCHANGED <<vidq_active, done, fresh, busy, cur>> /\ isr' = "capture_done"
        /\ first_flag' \in {first_flag, 1}
    BY <1>3 DEF VsyncProgramsNext
  <2>2. first_flag' # 0 \/ first_flag = 0
    BY <2>1
  <2> QED
    BY <2>1, <2>2, PlaceKept, OrderKept
<1>4. CASE IsrCaptureDone
  <2>1. UNCHANGED <<vidq_active, done, fresh, first_flag, busy, cur>> /\ isr' = "idle"
    BY <1>4 DEF IsrCaptureDone, DeliversImage, FreshMode, RingMode
  <2> QED
    BY <2>1, PlaceKept, OrderKept
<1> QED
  BY <1>1, <1>2, <1>3, <1>4, OrderVsync DEF Isr

LEMMA OrderHw ==
  ASSUME FreshMode, FInv, FInv', OrderInv, RecordFrame, Hw
  PROVE  PlaceInv' /\ FramesInOrder'
<1> USE DEF appVars, isrVars, dmaVars, driverVars, hwVars
<1> DEFINE A == vidq_active
<1>0. /\ A \in Seq(Buffers) /\ Len(A) \in Nat /\ DOMAIN A = 1 .. Len(A)
      /\ \A i \in DOMAIN A : A[i] \in Elements(A)
      /\ \A i, j \in DOMAIN A : A[i] = A[j] => i = j
  BY DEF FInv, IInv, TypeOK, ListsInv, Elements, Distinct
<1>1. CASE HwVsync
  <2>1. /\ capturing /\ busy' /\ cur' \in {reg, NoBuf} /\ fresh' = fresh \ {cur'}
        /\ UNCHANGED <<vidq_active, done, isr, first_flag>>
    BY <1>1 DEF HwVsync
  <2>2. ASSUME Len(A) >= 2, A[2] \in fresh'
        PROVE  /\ A[1] \in fresh' => <<A[1], A[2]>> \in before'
               /\ isr' # "program" /\ first_flag' # 0 /\ (busy' => cur' # A[1])
    <3>1. /\ A[1] \in fresh => <<A[1], A[2]>> \in before
          /\ isr # "program" /\ first_flag # 0 /\ A[2] \in fresh
      BY <2>1, <2>2 DEF OrderInv, PlaceInv
    <3>2. reg = A[2]
      BY <2>1, <3>1 DEF FInv, IInv, DmaInv, RingInv
    <3>3. cur' # A[1]
      <4>1. A[1] # NoBuf
        BY <1>0, <2>2, NoBufAssumption
      <4> QED
        BY <2>1, <2>2, <3>2, <4>1
    <3>4. A[1] \in fresh' => <<A[1], A[2]>> \in before'
      BY <2>1, <2>2, <3>1, HistoryKeeps DEF OrderInv
    <3> QED
      BY <2>1, <3>1, <3>3, <3>4
  <2>3. \A i \in DOMAIN A : A[i] \in fresh' => i <= 2
    BY <2>1 DEF OrderInv, PlaceInv
  <2>4. ASSUME NEW d \in Elements(done), NEW b \in Elements(A), b \in fresh'
        PROVE  <<d, b>> \in before'
    <3>1. d \in fresh \cap fresh'
      <4>1. d \in Elements(done')
        BY <2>1
      <4> QED
        BY <4>1, DoneFresh DEF FInv, IInv, ListsInv, FreshInv, DoneIsFresh
    <3> QED
      BY <2>1, <2>4, <3>1, HistoryKeeps DEF OrderInv, PlaceInv
  <2> QED
    BY <2>1, <2>2, <2>3, <2>4, OrderKept DEF PlaceInv, Elements
<1>2. CASE HwFrameEnd
  <2>1. /\ busy /\ ~busy' /\ capturing /\ fresh' = fresh \cup ({cur} \ {NoBuf})
        /\ cur \notin fresh
        /\ UNCHANGED <<vidq_active, done, isr, first_flag>>
    BY <1>2 DEF HwFrameEnd, FrameEnds, FInv, FreshInv, HandlerInv, OrderInv, StateInv
  <2>2. CASE cur = NoBuf
    BY <2>1, <2>2, PlaceKept, OrderKept
  <2>3. CASE cur # NoBuf
    <3>1. /\ cur \in Elements(A) /\ fresh' \ fresh = {cur} /\ fresh \subseteq fresh'
          /\ A # <<>> /\ (first_flag = 0 => cur = A[1])
          /\ first_flag # 0 => /\ Len(A) >= 2
                               /\ cur = A[1] \/ (cur = A[2] /\ isr # "program")
      BY <2>1, <2>3, CurActive DEF FreshMode, FInv
    <3>2. \A i \in DOMAIN A : A[i] = cur => i <= 2
      <4>1. 1 \in DOMAIN A
        BY <1>0, <3>1
      <4>2. first_flag # 0 => 2 \in DOMAIN A
        BY <1>0, <3>1
      <4> QED
        BY <1>0, <3>1, <4>1, <4>2
    <3>3. \A i \in DOMAIN A : A[i] \in fresh' => i <= 2
      BY <2>1, <3>2 DEF OrderInv, PlaceInv
    <3>4. ASSUME Len(A) >= 2, A[2] \in fresh'
          PROVE  /\ A[1] \in fresh' => <<A[1], A[2]>> \in before'
                 /\ isr' # "program" /\ first_flag' # 0 /\ (busy' => cur' # A[1])
      <4>1. 1 \in DOMAIN A /\ 2 \in DOMAIN A /\ A[1] # A[2]
        BY <1>0, <3>4
      <4>2. CASE cur = A[1]
        BY <2>1, <3>4, <4>1, <4>2 DEF OrderInv, PlaceInv
      <4>3. CASE cur = A[2] /\ first_flag # 0 /\ isr # "program"
        BY <2>1, <3>1, <4>1, <4>3, HistoryKeeps DEF OrderInv
      <4> QED
        BY <3>1, <4>2, <4>3
    <3>5. ASSUME NEW d \in Elements(done), NEW b \in Elements(A), b \in fresh'
          PROVE  <<d, b>> \in before'
      <4>1. d \in fresh \cap fresh'
        BY <3>1, DoneFresh DEF FInv
      <4>2. CASE b \in fresh
        BY <3>5, <4>1, <4>2, HistoryKeeps DEF OrderInv, PlaceInv
      <4>3. CASE b \notin fresh
        BY <3>5, <4>1, <4>3, HistoryKeeps DEF OrderInv
      <4> QED
        BY <4>2, <4>3
    <3> QED
      BY <2>1, <3>3, <3>4, <3>5, OrderKept DEF PlaceInv, Elements
  <2> QED
    BY <2>2, <2>3
<1>3. ASSUME NEW bit \in {"PIXEL_MISS", "LINE_MISS"}, HwMiss(bit) PROVE PlaceInv' /\ FramesInOrder'
  <2>1. UNCHANGED <<vidq_active, done, fresh, isr, first_flag>> /\ ~busy'
    BY <1>3 DEF HwMiss, FrameEnds
  <2> QED
    BY <2>1, PlaceKept, OrderKept
<1>4. CASE HwOverflow
  BY <1>4 DEF HwOverflow, FreshMode
<1> QED
  BY <1>1, <1>2, <1>3, <1>4 DEF Hw

(* The frames come out in the order they were captured, none twice and none     *)
(* left behind, whatever is dropped and recycled, for any number of buffers.    *)
THEOREM FramesAlwaysInOrder ==
  ASSUME FreshMode
  PROVE  OrderSpec => []FramesInOrder
<1> DEFINE OInv == FInv /\ OrderInv
<1>1. OrderInit => OInv
  <2>1. OrderInit => FInv
    BY FInvInductive DEF OrderInit
  <2>2. OrderInit => OrderInv
    BY DEF OrderInit, Init, OrderInv, HistoryInv, StateInv, PlaceInv, FramesInOrder, Elements
  <2> QED
    BY <2>1, <2>2
<1>2. OInv /\ [Next /\ RecordFrame]_orderVars => OInv'
  <2> SUFFICES ASSUME FInv, OrderInv, [Next /\ RecordFrame]_orderVars PROVE FInv' /\ OrderInv'
    OBVIOUS
  <2>1. FInv'
    BY FInvInductive DEF orderVars
  <2>2. CASE UNCHANGED orderVars
    BY <2>1, <2>2 DEF orderVars, vars, appVars, isrVars, dmaVars, driverVars, hwVars, OrderInv,
                      HistoryInv, StateInv, PlaceInv, FramesInOrder
  <2>3. ASSUME RecordFrame, PlaceInv' /\ FramesInOrder', StateInv' PROVE OrderInv'
    BY <2>3, HistoryKeeps DEF OrderInv
  <2>4. CASE RecordFrame /\ (App \/ IoctlProgress)
    BY <2>1, <2>3, <2>4, OrderApp, StateApp DEF OrderInv
  <2>5. CASE RecordFrame /\ Isr
    BY <2>1, <2>3, <2>5, OrderIsr, StateIsrHw DEF OrderInv
  <2>6. CASE RecordFrame /\ Hw
    BY <2>1, <2>3, <2>6, OrderHw, StateIsrHw DEF OrderInv
  <2>7. ASSUME RecordFrame, NEW d \in Delays, DelayFrames(d) PROVE OrderInv'
    <3>1. UNCHANGED <<appVars, vidq_active, first_flag, isr, busy, cur, fresh>>
      BY <2>7 DEF DelayFrames, isrVars, hwVars, dmaVars
    <3>2. StateInv'
      BY <3>1 DEF OrderInv, StateInv, appVars
    <3> QED
      BY <2>1, <2>3, <2>7, <3>1, <3>2, PlaceKept, OrderKept DEF appVars
  <2> QED
    BY <2>1, <2>2, <2>4, <2>5, <2>6, <2>7 DEF Next
<1>3. OInv => FramesInOrder
  BY DEF OrderInv
<1> QED
  BY <1>1, <1>2, <1>3, PTL DEF OrderSpec
-----------------------------------------------------------------------------
(***************************************************************************)
(* IMAGE mode: one start, one frame, one delivery                           *)
(***************************************************************************)

(* As in VIDEO mode the application queues the buffer before it starts; the     *)
(* handler may be as late as it likes.                                       *)
ImageMode == CaptureMode = "IMAGE" /\ ListsMode /\ "off" \notin Faults /\ MinQueued > 0

(* The parser delivers one frame after each start, so that while it does no     *)
(* interrupt but its vsync has happened, and the end of capture, wherever it     *)
(* is pending, is the end of a whole frame in the head of vidq_active.          *)
ImageInv ==
  /\ capturing =>
       /\ reg # NoBuf
       /\ irq \cup status \subseteq {"VSYNC"}
       /\ IF busy THEN cur = reg ELSE armed
  /\ busy => capturing
  /\ isr = "reset" => "OVERFLOW" \in status
  /\ stream_count = 0 => irq = {}
  /\ ioctl \in {"set_stream_on", "set_bit"} => vidq_active # <<>>
  /\ "CAPTURE_DONE" \in irq \cup status =>
       /\ streaming => vidq_active # <<>>
       /\ vidq_active # <<>> => Head(vidq_active) \in fresh

WholeImage == ImageInv /\ DoneIsFresh

(* What is known of a state in every step below.                              *)
LEMMA ImageFacts ==
  ASSUME ImageMode, SInv
  PROVE  /\ SingleMode /\ TypeOK /\ StreamInv /\ LeftInv /\ SingleInv /\ ~TwoBuffer
         /\ vidq_active # <<>> =>
              /\ Head(vidq_active) \in Buffers /\ vb[Head(vidq_active)] = "active"
              /\ \A b \in Buffers : Append(vidq_active, b) # <<>>
              /\ \A b \in Buffers : Head(Append(vidq_active, b)) = Head(vidq_active)
         /\ done # <<>> => Head(done) \in Buffers /\ vb[Head(done)] = "done"
<1>1. SingleMode
  BY DEF ImageMode, SingleMode
<1>2. done # <<>> => Head(done) \in Buffers /\ vb[Head(done)] = "done"
  BY TailElements DEF SInv, LInv, OwnersInv, TypeOK
<1> QED
  BY <1>1, <1>2, SingleLists DEF SInv, LInv

LEMMA ImageApp ==
  ASSUME ImageMode, SInv, WholeImage, App
  PROVE  WholeImage'
<1> USE DEF appVars, isrVars, dmaVars, driverVars, hwVars
<1>0. TypeOK /\ StreamInv /\ LeftInv /\ ~TwoBuffer /\ ImageInv /\ DoneIsFresh
  BY ImageFacts DEF WholeImage
<1>1. ASSUME UNCHANGED <<irq, status, isr, capturing, busy, reg, cur, armed, stream_count,
                         streaming, vidq_active>>,
             ioctl' \in {"set_stream_on", "set_bit"} => ioctl' = ioctl,
             vidq_active # <<>> /\ Head(vidq_active) \in fresh => Head(vidq_active) \in fresh'
      PROVE  ImageInv'
  BY <1>0, <1>1 DEF ImageInv
<1>2. ASSUME NEW b \in Buffers, vb[b] = "dequeued"
      PROVE  vidq_active # <<>> => Head(vidq_active) # b
  BY <1>2, ImageFacts
<1>3. CASE Reqbufs
  BY <1>0, <1>1, <1>3 DEF Reqbufs, DoneIsFresh, WholeImage
<1>4. CASE Dqbuf
  <2>1. Head(done) \in Buffers /\ vb[Head(done)] = "done"
    BY <1>4, ImageFacts DEF Dqbuf
  <2>2. vidq_active # <<>> => Head(vidq_active) # Head(done)
    BY <2>1, ImageFacts
  <2>3. DoneIsFresh'
    BY <1>0, <1>4, <2>1 DEF Dqbuf, DoneIsFresh, TypeOK
  <2>4. ImageInv'
    BY <1>1, <1>4, <2>2 DEF Dqbuf
  <2> QED
    BY <2>3, <2>4 DEF WholeImage
<1>5. ASSUME NEW b \in Buffers, QbufEarly(b) PROVE WholeImage'
  <2>1. DoneIsFresh'
    BY <1>0, <1>5 DEF QbufEarly, DoneIsFresh, TypeOK
  <2>2. ImageInv'
    BY <1>1, <1>2, <1>5 DEF QbufEarly
  <2> QED
    BY <2>1, <2>2 DEF WholeImage
<1>6. ASSUME NEW b \in Buffers, Qbuf(b) PROVE WholeImage'
  <2>1. DoneIsFresh'
    BY <1>0, <1>6 DEF Qbuf, DoneIsFresh, TypeOK
  <2>2. /\ vidq_active' = Append(vidq_active, b) /\ ioctl = "idle" /\ streaming
        /\ fresh' = fresh \ {b}
        /\ UNCHANGED <<ioctl, streaming, stream_count, isr, status, irq, capturing, busy, reg,
                       cur, armed>>
    BY <1>0, <1>6 DEF Qbuf
  <2>3. vidq_active # <<>> => /\ vidq_active' # <<>> /\ Head(vidq_active') = Head(vidq_active)
                              /\ Head(vidq_active) # b
    BY <1>2, <1>6, <2>2, ImageFacts DEF Qbuf
  <2>4. ImageInv'
    BY <1>0, <2>2, <2>3 DEF ImageInv
  <2> QED
    BY <2>1, <2>4 DEF WholeImage
<1>7. CASE Streamon
  <2>1. DoneIsFresh'
    <3>1. \A b \in Buffers : vb'[b] = "done" => vb[b] = "done"
      BY <1>7 DEF Streamon
    <3> QED
      BY <1>0, <1>7, <3>1 DEF Streamon, DoneIsFresh
  <2>2. irq = {} /\ status = {} /\ ~capturing /\ isr = "idle"
    BY <1>0, <1>7 DEF Streamon, StreamInv, StreamOpen, ImageInv, LeftInv
  <2>3. vidq_active' # <<>>
    <3>1. queued \in Seq(Buffers) /\ vidq_active \in Seq(Buffers)
      BY <1>0 DEF TypeOK
    <3>2. Len(queued) \in Nat /\ Len(vidq_active) \in Nat /\ MinQueued \in Nat
      BY <3>1, BoundAssumption
    <3>3. Len(vidq_active \o queued) = Len(vidq_active) + Len(queued)
      BY <3>1
    <3>4. Len(vidq_active') > 0
      BY <1>7, <3>2, <3>3 DEF Streamon, ImageMode
    <3>5. Len(<<>>) = 0
      OBVIOUS
    <3> QED
      BY <3>4, <3>5
  <2>4. UNCHANGED <<irq, status, isr, capturing, busy, stream_count>>
    BY <1>7 DEF Streamon
  <2>5. ImageInv'
    BY <1>0, <2>2, <2>3, <2>4 DEF ImageInv
  <2> QED
    BY <2>1, <2>5 DEF WholeImage
<1>8. CASE Streamoff
  <2>1. UNCHANGED <<irq, status, isr, capturing, busy, reg, cur, armed, stream_count,
                    vidq_active, fresh, vb>> /\ ioctl' = "set_stream_off" /\ ~streaming'
    BY <1>8 DEF Streamoff
  <2> QED
    BY <1>0, <2>1 DEF WholeImage, ImageInv, DoneIsFresh
<1>9. CASE Close
  <2>1. vidq_active = <<>> /\ (\A b \in Buffers : vb'[b] = "none")
    BY <1>0, <1>9 DEF Close, FreeBuffers, StreamInv, StreamOpen
  <2>2. UNCHANGED <<irq, status, isr, capturing, busy, reg, cur, armed, stream_count,
                    streaming, vidq_active, ioctl>>
    BY <1>9 DEF Close
  <2> QED
    BY <1>1, <2>1, <2>2 DEF WholeImage, DoneIsFresh
<1> QED
  BY <1>3, <1>4, <1>5, <1>6, <1>7, <1>8, <1>9 DEF App

LEMMA ImageIoctl ==
  ASSUME ImageMode, SInv, WholeImage, IoctlProgress
  PROVE  WholeImage'
<1> USE DEF appVars, isrVars, dmaVars, driverVars, hwVars
<1>0. TypeOK /\ StreamInv /\ LeftInv /\ ImageInv /\ DoneIsFresh
  BY ImageFacts DEF WholeImage
<1>1. CASE SetStreamOn
  <2>1. /\ StartDma /\ isr = "idle" /\ status = {} /\ vidq_active # <<>>
        /\ ioctl' = "set_bit" /\ stream_count' = 1
        /\ UNCHANGED <<vb, vidq_active, streaming, isr, status, fresh>>
    BY <1>0, <1>1 DEF SetStreamOn, StreamInv, StreamOpen, LeftInv, ImageInv
  <2>2. Head(vidq_active) # NoBuf
    BY <2>1, ImageFacts, NoBufAssumption
  <2>3. ImageInv'
    BY <2>1, <2>2 DEF StartDma, SetNextBufAddr, ImageInv
  <2> QED
    BY <1>0, <2>1, <2>3 DEF WholeImage, DoneIsFresh
<1>2. CASE SetStreamOnFails
  <2>1. /\ StopDma /\ isr = "idle" /\ status = {} /\ vidq_active # <<>>
        /\ UNCHANGED <<vb, vidq_active, streaming, isr, status, fresh>>
    BY <1>0, <1>2 DEF SetStreamOnFails, LeftInv, ImageInv
  <2>2. ImageInv'
    BY <2>1 DEF StopDma, ImageInv
  <2> QED
    BY <1>0, <2>1, <2>2 DEF WholeImage, DoneIsFresh
<1>3. CASE SetStreamBit
  <2>1. /\ vidq_active # <<>> /\ ioctl' = "idle"
        /\ UNCHANGED <<vb, vidq_active, stream_count, isr, status, irq, capturing, busy, reg,
                       cur, armed, fresh>>
    BY <1>0, <1>3 DEF SetStreamBit, ImageInv
  <2> QED
    BY <1>0, <2>1 DEF WholeImage, ImageInv, DoneIsFresh
<1>4. CASE SetStreamOff
  <2>1. /\ ioctl' = "stop"
        /\ stream_count' = IF stream_count = 0 THEN 0 ELSE stream_count - 1
        /\ IF stream_count = 1 THEN StopDma ELSE UNCHANGED <<irq, dmaVars>>
        /\ UNCHANGED <<vb, vidq_active, streaming, isr, status, fresh>>
    BY <1>4 DEF SetStreamOff
  <2>2. irq' = {} /\ ~capturing' /\ ~busy'
    BY <1>0, <2>1 DEF StopDma, StreamInv, ImageInv
  <2>3. ImageInv'
    BY <1>0, <2>1, <2>2 DEF ImageInv
  <2> QED
    BY <1>0, <2>1, <2>3 DEF WholeImage, DoneIsFresh
<1>5. ~SetStreamOffFails
  BY DEF SetStreamOffFails, ImageMode
<1>6. CASE StopStreaming
  <2>1. /\ vidq_active' = <<>> /\ ioctl' = "release" /\ ~streaming
        /\ UNCHANGED <<streaming, stream_count, isr, status, irq, capturing, busy, reg, cur,
                       armed, fresh>>
    BY <1>0, <1>6 DEF StopStreaming, StreamInv
  <2>2. \A b \in Buffers : vb'[b] = "done" => vb[b] = "done"
    BY <1>6 DEF StopStreaming
  <2> QED
    BY <1>0, <2>1, <2>2 DEF WholeImage, ImageInv, DoneIsFresh
<1>7. CASE QueueFree
  <2>1. /\ vidq_active = <<>> /\ ~streaming /\ ioctl' = "idle"
        /\ (\A b \in Buffers : vb'[b] = "none")
        /\ UNCHANGED <<vidq_active, streaming, stream_count, isr, status, irq, capturing, busy,
                       reg, cur, armed>>
    BY <1>0, <1>7 DEF QueueFree, FreeBuffers, StreamInv, StreamOpen
  <2> QED
    BY <1>0, <2>1 DEF WholeImage, ImageInv, DoneIsFresh
<1> QED
  BY <1>1, <1>2, <1>3, <1>4, <1>5, <1>6, <1>7 DEF IoctlProgress

LEMMA ImageIsr ==
  ASSUME ImageMode, SInv, WholeImage, Isr
  PROVE  WholeImage'
<1> USE DEF appVars, isrVars, dmaVars, driverVars, hwVars
<1>0. /\ TypeOK /\ StreamInv /\ LeftInv /\ SingleInv /\ ImageInv /\ DoneIsFresh
      /\ CaptureMode = "IMAGE" /\ ~HandsOverHead
  BY ImageFacts DEF WholeImage, ImageMode, HandsOverHead
<1>1. ASSUME UNCHANGED <<vb, vidq_active, ioctl, streaming, stream_count, capturing, busy, reg,
                         cur, armed, fresh>>,
             irq' \cup status' \subseteq irq \cup status,
             irq' \subseteq irq,
             isr' = "reset" => "OVERFLOW" \in status'
      PROVE  WholeImage'
  BY <1>0, <1>1 DEF WholeImage, ImageInv, DoneIsFresh
<1>2. CASE IsrIgnores
  BY <1>1, <1>2 DEF IsrIgnores
<1>3. CASE IsrEnters
  <2>1. irq' \cup status' \subseteq irq \cup status /\ irq' = irq /\ isr' = "lock"
    BY <1>3 DEF IsrEnters
  <2> QED
    BY <1>1, <1>3, <2>1 DEF IsrEnters
<1>4. CASE IsrOverflow
  BY <1>1, <1>4 DEF IsrOverflow
<1>5. CASE IsrResets
  <2>1. ~capturing /\ ~busy'
    BY <1>0, <1>5 DEF IsrResets, ImageInv
  <2>2. /\ isr' = "errors"
        /\ UNCHANGED <<vb, vidq_active, ioctl, streaming, stream_count, capturing, irq, status,
                       fresh>>
    BY <1>5 DEF IsrResets
  <2> QED
    BY <1>0, <2>1, <2>2 DEF WholeImage, ImageInv, DoneIsFresh
<1>6. CASE IsrErrors
  BY <1>1, <1>6 DEF IsrErrors
<1>7. CASE VsyncSkipsHead
  BY <1>1, <1>7 DEF VsyncSkipsHead
<1>8. ~VsyncKeepsHead /\ ~VsyncRecyclesHead /\ ~VsyncDeliversHead /\ ~VsyncProgramsNext
  BY <1>0 DEF VsyncKeepsHead, VsyncRecyclesHead, VsyncDeliversHead, VsyncProgramsNext, SingleInv
<1>9. CASE IsrCaptureDone
  <2>1. /\ isr = "capture_done" /\ isr' = "idle" /\ status' = {}
        /\ irq' = irq \ (status \cap {"CAPTURE_DONE"})
        /\ UNCHANGED <<ioctl, streaming, stream_count, capturing, busy, reg, cur, armed, fresh>>
    BY <1>9 DEF IsrCaptureDone
  <2>2. CASE ~DeliversImage
    <3>1. UNCHANGED <<vb, vidq_active>>
      BY <1>9, <2>2 DEF IsrCaptureDone
    <3> QED
      BY <1>1, <2>1, <3>1
  <2>3. CASE DeliversImage
    <3>1. "CAPTURE_DONE" \in status /\ vidq_active # <<>> /\ BufferDone(Head(vidq_active))
      BY <1>9, <2>3 DEF IsrCaptureDone, DeliversImage
    <3>2. Head(vidq_active) \in fresh /\ ~capturing
      BY <1>0, <3>1 DEF ImageInv, SingleInv
    <3>3. \A b \in Buffers : vb'[b] = "done" => vb[b] = "done" \/ b = Head(vidq_active)
      BY <3>1 DEF BufferDone
    <3>4. DoneIsFresh'
      BY <1>0, <2>1, <3>2, <3>3 DEF DoneIsFresh
    <3>5. ioctl \notin {"set_stream_on", "set_bit"}
      BY <1>0, <2>1 DEF LeftInv
    <3>6. "CAPTURE_DONE" \notin irq' \cup status'
      BY <2>1, <3>1
    <3>7. irq' \subseteq irq
      BY <2>1
    <3>8. ImageInv'
      BY <1>0, <2>1, <3>2, <3>5, <3>6, <3>7 DEF ImageInv
    <3> QED
      BY <3>4, <3>8 DEF WholeImage
  <2> QED
    BY <2>2, <2>3
<1> QED
  BY <1>2, <1>3, <1>4, <1>5, <1>6, <1>7, <1>8, <1>9 DEF Isr

LEMMA ImageHw ==
  ASSUME ImageMode, SInv, WholeImage, Hw
  PROVE  WholeImage'
<1> USE DEF appVars, isrVars, dmaVars, driverVars, hwVars
<1>0. /\ TypeOK /\ StreamInv /\ SingleInv /\ ImageInv /\ DoneIsFresh /\ CaptureMode = "IMAGE"
  BY ImageFacts DEF WholeImage, ImageMode
<1>1. capturing => vb[reg] = "active" /\ reg = Head(vidq_active) /\ vidq_active # <<>>
  BY <1>0, ImageFacts DEF SingleInv, ImageInv
<1>2. CASE HwVsync
  <2>1. capturing /\ ~busy /\ armed /\ reg # NoBuf /\ "CAPTURE_DONE" \notin irq \cup status
    BY <1>0, <1>2 DEF HwVsync, ImageInv, SingleInv
  <2>2. /\ cur' = reg /\ busy' /\ irq' = irq \cup {"VSYNC"} /\ fresh' = fresh \ {reg}
        /\ UNCHANGED <<vb, vidq_active, ioctl, streaming, stream_count, isr, status, capturing,
                       reg>>
    BY <1>2, <2>1 DEF HwVsync, MayDrop
  <2>3. DoneIsFresh'
    BY <1>0, <1>1, <2>1, <2>2 DEF DoneIsFresh
  <2>4. stream_count = 1
    BY <1>0, <2>1 DEF StreamInv
  <2>5. ImageInv'
    BY <1>0, <2>1, <2>2, <2>4 DEF ImageInv
  <2> QED
    BY <2>3, <2>5 DEF WholeImage
<1>3. ASSUME FrameEnds, fresh \subseteq fresh',
             "CAPTURE_DONE" \in irq' \cup status' => reg \in fresh'
      PROVE  WholeImage'
  <2>1. /\ busy /\ ~busy' /\ ~capturing'
        /\ UNCHANGED <<vb, vidq_active, ioctl, streaming, stream_count, isr, status>>
    BY <1>0, <1>3 DEF FrameEnds
  <2>2. capturing /\ stream_count = 1
    BY <1>0, <2>1 DEF ImageInv, StreamInv
  <2>3. ImageInv'
    BY <1>0, <1>1, <1>3, <2>1, <2>2 DEF ImageInv
  <2> QED
    BY <1>0, <1>3, <2>1, <2>3 DEF WholeImage, DoneIsFresh
<1>4. busy => "CAPTURE_DONE" \notin irq \cup status /\ cur = reg /\ reg # NoBuf
  BY <1>0 DEF ImageInv, SingleInv
<1>5. CASE HwFrameEnd
  <2>1. FrameEnds /\ busy /\ fresh' = fresh \cup ({cur} \ {NoBuf})
    BY <1>5 DEF HwFrameEnd, FrameEnds
  <2> QED
    BY <1>3, <1>4, <2>1
<1>6. ASSUME NEW bit \in {"PIXEL_MISS", "LINE_MISS"}, HwMiss(bit) PROVE WholeImage'
  <2>1. FrameEnds /\ busy /\ irq' = irq \cup {bit} /\ UNCHANGED <<fresh, status>>
    BY <1>6 DEF HwMiss, FrameEnds
  <2> QED
    BY <1>3, <1>4, <2>1
<1>7. CASE HwOverflow
  <2>1. FrameEnds /\ busy /\ irq' = irq \cup {"OVERFLOW"} /\ UNCHANGED <<fresh, status>>
    BY <1>7 DEF HwOverflow, FrameEnds
  <2> QED
    BY <1>3, <1>4, <2>1
<1> QED
  BY <1>2, <1>5, <1>6, <1>7 DEF Hw

LEMMA ImageInductive ==
  ASSUME ImageMode
  PROVE  /\ Init => SInv /\ WholeImage
         /\ SInv /\ WholeImage /\ [Next]_vars => SInv' /\ WholeImage'
<1>1. SingleMode
  BY DEF ImageMode, SingleMode
<1>2. Init => SInv /\ WholeImage
  <2>1. Init => SInv
    BY <1>1, SInvInductive
  <2>2. Init => WholeImage
    BY DEF Init, WholeImage, ImageInv, DoneIsFresh
  <2> QED
    BY <2>1, <2>2
<1>3. SInv /\ WholeImage /\ [Next]_vars => SInv' /\ WholeImage'
  <2> SUFFICES ASSUME SInv, WholeImage, [Next]_vars PROVE SInv' /\ WholeImage'
    OBVIOUS
  <2>1. SInv'
    BY <1>1, SInvInductive
  <2>2. ASSUME UNCHANGED <<appVars, vidq_active, streaming, stream_count, isrVars, hwVars, fresh>>
        PROVE  WholeImage'
    BY <2>2 DEF WholeImage, ImageInv, DoneIsFresh, appVars, isrVars, hwVars, dmaVars
  <2>3. ASSUME NEW d \in Delays, DelayFrames(d) PROVE WholeImage'
    BY <2>2, <2>3 DEF DelayFrames
  <2>4. CASE UNCHANGED vars
    BY <2>1, <2>2, <2>4 DEF vars, driverVars
  <2> QED
    BY <2>1, <2>3, <2>4, ImageApp, ImageIoctl, ImageIsr, ImageHw DEF Next
<1> QED
  BY <1>2, <1>3

(* A still image is delivered whole: an end of capture is never taken for one    *)
(* of another start, and no frame goes on in a delivered buffer, whatever short   *)
(* frames, overflows and resets come between and however late vin_isr runs.  It    *)
(* rests on HwMiss and HwOverflow: a frame that ends so raises no CAPTURE_DONE.    *)
THEOREM ImageAlwaysWhole ==
  ASSUME ImageMode
  PROVE  Spec => []DoneIsFresh
<1>1. WholeImage => DoneIsFresh
  BY DEF WholeImage
<1> QED
  BY <1>1, ImageInductive, PTL DEF Spec

-----------------------------------------------------------------------------
(***************************************************************************)
(* The head that vin_isr takes                                              *)
(***************************************************************************)

(* In two-buffer mode vin_isr only rotates vidq_active.                       *)
RotatesInv ==
  streaming \/ ioctl \in {"set_stream_on", "set_bit"} => vidq_active # <<>>

(* Lists that are empty neither after a buffer has been appended nor after one   *)
(* was put behind them.                                                     *)
LEMMA NotEmpty ==
  ASSUME TypeOK
  PROVE  /\ \A b \in Buffers : Append(vidq_active, b) # <<>>
         /\ vidq_active # <<>> => Append(Tail(vidq_active), Head(vidq_active)) # <<>>
         /\ Len(queued) > 0 => vidq_active \o queued # <<>>
<1>1. /\ vidq_active \in Seq(Buffers) /\ Len(vidq_active) \in Nat
      /\ queued \in Seq(Buffers) /\ Len(queued) \in Nat /\ Len(<<>>) = 0
  BY DEF TypeOK
<1>2. ASSUME NEW s \in Seq(Buffers), NEW b \in Buffers PROVE Append(s, b) # <<>>
  <2>1. Len(Append(s, b)) = Len(s) + 1 /\ Len(s) \in Nat
    OBVIOUS
  <2> QED
    BY <1>1, <2>1
<1>3. vidq_active # <<>> => Head(vidq_active) \in Buffers /\ Tail(vidq_active) \in Seq(Buffers)
  BY <1>1
<1>4. Len(queued) > 0 => vidq_active \o queued # <<>>
  <2>1. Len(vidq_active \o queued) = Len(vidq_active) + Len(queued)
    BY <1>1
  <2> QED
    BY <1>1, <2>1
<1> QED
  BY <1>1, <1>2, <1>3, <1>4

LEMMA RotatesStep ==
  ASSUME TwoBuffer, CaptureMode = "VIDEO", MinQueued > 0, LInv, RotatesInv, [Next]_vars
  PROVE  RotatesInv'
<1> USE DEF RotatesInv, appVars, isrVars, driverVars
<1>0. TypeOK /\ (streaming => ioctl = "idle")
  BY DEF LInv, PhaseInv
<1>1. CASE Streamon
  <2>1. Len(queued) > 0
    BY <1>0, <1>1, BoundAssumption DEF Streamon, TypeOK
  <2> QED
    BY <1>0, <1>1, <2>1, NotEmpty DEF Streamon
<1>2. ASSUME NEW b \in Buffers, Qbuf(b) PROVE RotatesInv'
  BY <1>0, <1>2, NotEmpty DEF Qbuf
<1>3. CASE VsyncRecyclesHead \/ VsyncDeliversHead
  BY <1>0, <1>3, NotEmpty DEF VsyncRecyclesHead, VsyncDeliversHead
<1>4. CASE StopStreaming
  BY <1>0, <1>4 DEF StopStreaming
<1>5. ASSUME UNCHANGED vidq_active, streaming' => streaming \/ ioctl = "set_bit",
             ioctl' \in {"set_stream_on", "set_bit"} => ioctl \in {"set_stream_on", "set_bit"}
      PROVE  RotatesInv'
  BY <1>5
<1>6. CASE Reqbufs \/ Dqbuf \/ Streamoff \/ Close \/ SetStreamBit \/ QueueFree
  BY <1>5, <1>6 DEF Reqbufs, Dqbuf, Streamoff, Close, SetStreamBit, QueueFree
<1>7. ASSUME NEW b \in Buffers, QbufEarly(b) PROVE RotatesInv'
  BY <1>5, <1>7 DEF QbufEarly
<1>8. CASE SetStreamOn \/ SetStreamOnFails \/ SetStreamOff \/ SetStreamOffFails
  BY <1>5, <1>8 DEF SetStreamOn, SetStreamOnFails, SetStreamOff, SetStreamOffFails
<1>9. CASE Isr /\ ~(VsyncRecyclesHead \/ VsyncDeliversHead)
  BY <1>5, <1>9 DEF Isr, IsrIgnores, IsrEnters, IsrOverflow, IsrResets, IsrErrors, VsyncKeepsHead,
     VsyncSkipsHead, VsyncProgramsNext, IsrCaptureDone, DeliversImage
<1>10. CASE Hw
  BY <1>5, <1>10 DEF Hw, HwVsync, HwFrameEnd, HwMiss, HwOverflow, FrameEnds
<1>11. ASSUME NEW d \in Delays, DelayFrames(d) PROVE RotatesInv'
  BY <1>5, <1>11 DEF DelayFrames
<1>12. CASE UNCHANGED vars
  BY <1>5, <1>12 DEF vars
<1> QED
  BY <1>1, <1>2, <1>3, <1>4, <1>6, <1>7, <1>8, <1>9, <1>10, <1>11, <1>12
  DEF Next, App, IoctlProgress

(* vin_isr never takes the head of an empty vidq_active as long as VIN_STREAM   *)
(* is set, in any mode, however late it runs; in an ordinary video node not     *)
(* even while STREAMOFF empties the list.                                     *)
THEOREM HeadExistsUntilStop ==
  ASSUME ListsMode, MinQueued > 0, CaptureMode = "IMAGE" => "off" \notin Faults
  PROVE  Spec => [](streaming \/ (CaptureMode = "VIDEO" /\ ~TwoBuffer) => HeadExists)
<1> DEFINE HeadFound == streaming \/ (CaptureMode = "VIDEO" /\ ~TwoBuffer) => HeadExists
<1>1. CASE CaptureMode = "IMAGE"
  <2>1. ImageMode
    BY <1>1 DEF ImageMode
  <2>2. WholeImage => HeadFound
    BY <1>1 DEF WholeImage, ImageInv, HeadExists, HandsOverHead, DeliversImage
  <2> QED
    BY <2>1, <2>2, ImageInductive, PTL DEF Spec
<1>2. CASE CaptureMode = "VIDEO" /\ ~TwoBuffer
  <2>1. HeadFound
    BY <1>2 DEF HeadExists, KeepHead, DeliversImage
  <2> QED
    BY <2>1, PTL
<1>3. CASE CaptureMode = "VIDEO" /\ TwoBuffer
  <2>1. Init => RotatesInv
    BY DEF Init, RotatesInv
  <2>2. RotatesInv => HeadFound
    BY <1>3 DEF RotatesInv, HeadExists, DeliversImage
  <2> QED
    BY <1>3, <2>1, <2>2, LInvInductive, RotatesStep, PTL DEF Spec
<1> QED
  BY <1>1, <1>2, <1>3, ModeAssumption
=============================================================================
