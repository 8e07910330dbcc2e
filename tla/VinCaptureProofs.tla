--------------------------- MODULE VinCaptureProofs ---------------------------
(***************************************************************************)
(* What VinCapture satisfies for any number of buffers: the lists in every      *)
(* mode, the targets of the DMA in an ordinary video node and with one buffer. *)
(***************************************************************************)
EXTENDS VinCapture, FiniteSetTheorems, TLAPS

(* The mode of an ordinary video node: three buffers or more, a handler that   *)
(* programs the next address before the next vsync, and a set_stream(0) that   *)
(* stops the DMA.  Short frames, overflows and failing starts may happen.     *)
RingMode ==
  /\ CaptureMode = "VIDEO" /\ DmaBufNum = "NORMAL"
  /\ IsrLatency # "any" /\ "off" \notin Faults

(* The lists of the driver and of vb2 partition the buffers.                 *)
ListsInv ==
  /\ Elements(vidq_active) = {b \in Buffers : vb[b] = "active"}
  /\ Elements(queued) = {b \in Buffers : vb[b] = "queued"}
  /\ Elements(done) = {b \in Buffers : vb[b] = "done"}
  /\ Distinct(vidq_active) /\ Distinct(queued) /\ Distinct(done)

(* Between the start of VIDIOC_STREAMON and the end of stop_streaming.        *)
StreamOpen == ioctl \in {"set_bit", "set_stream_off"} \/ (ioctl = "idle" /\ streaming)

StreamInv ==
  /\ streaming => ioctl = "idle"
  /\ vidq_active # <<>> => StreamOpen \/ ioctl \in {"set_stream_on", "stop"}
  /\ stream_count \in {0, 1}
  /\ stream_count = 1 => StreamOpen
  /\ capturing => stream_count = 1

(* vin_isr has still to act on a vsync.                                      *)
VsyncPending ==
  \/ "VSYNC" \in irq
  \/ isr \in {"lock", "reset", "errors", "vsync"} /\ "VSYNC" \in status

(* Before the first frame the DMA uses the head of vidq_active only.          *)
FirstFrameInv ==
  /\ reg # NoBuf => vidq_active # <<>> /\ reg = Head(vidq_active)
  /\ cur \in {NoBuf, reg}

(* Afterwards the current frame fills one of the first two buffers and the    *)
(* next one the second; at a vsync that vin_isr has still to act on, the head  *)
(* is complete.  Once vin_isr has removed it, both addresses are the new head. *)
RingInv ==
  /\ Len(vidq_active) >= 2
  /\ isr # "program" =>
       /\ reg = vidq_active[2]
       /\ cur \in {NoBuf, vidq_active[1], vidq_active[2]}
       /\ VsyncPending => cur # vidq_active[1]
  /\ isr = "program" => reg = vidq_active[1] /\ cur \in {NoBuf, vidq_active[1]}

DmaInv ==
  /\ isr \in {"vsync", "program"} => "VSYNC" \notin irq
  /\ isr = "vsync" => "VSYNC" \in status
  /\ capturing => IF first_flag = 0 THEN FirstFrameInv ELSE RingInv

IInv == TypeOK /\ ListsInv /\ StreamInv /\ DmaInv

-----------------------------------------------------------------------------
(***************************************************************************)
(* Type correctness, in every mode                                          *)
(***************************************************************************)

LEMMA TypeInit == Init => TypeOK
<1> SUFFICES ASSUME Init PROVE TypeOK
  OBVIOUS
<1>1. vb \in [Buffers -> VbStates]
  BY DEF Init, VbStates
<1>2. /\ streaming \in BOOLEAN /\ dmaOn \in BOOLEAN /\ armed \in BOOLEAN
      /\ busy \in BOOLEAN /\ capturing \in BOOLEAN
  BY DEF Init
<1> QED
  BY <1>1, <1>2 DEF Init, TypeOK, IoctlSteps, IsrSteps

(* The ioctls keep the types.                                                *)
LEMMA TypeApp == TypeOK /\ (App \/ IoctlProgress) => TypeOK'
<1> SUFFICES ASSUME TypeOK, App \/ IoctlProgress PROVE TypeOK'
  OBVIOUS
<1> USE DEF TypeOK, VbStates, IoctlSteps, IsrSteps, appVars, isrVars, dmaVars, driverVars,
            hwVars
<1>1. CASE Reqbufs
  BY <1>1 DEF Reqbufs
<1>2. CASE Dqbuf
  BY <1>2 DEF Dqbuf
<1>3. CASE Streamon
  BY <1>3 DEF Streamon, Elements
<1>4. CASE Streamoff
  BY <1>4 DEF Streamoff
<1>5. CASE Close
  BY <1>5 DEF Close, FreeBuffers
<1>6. ASSUME NEW b \in Buffers, QbufEarly(b) PROVE TypeOK'
  BY <1>6 DEF QbufEarly
<1>7. ASSUME NEW b \in Buffers, Qbuf(b) PROVE TypeOK'
  BY <1>7 DEF Qbuf
<1>8. CASE SetStreamOn
  <2>1. /\ dmaOn' \in BOOLEAN /\ busy' \in BOOLEAN /\ capturing' \in BOOLEAN
        /\ armed' \in BOOLEAN
    BY <1>8 DEF SetStreamOn, StartDma, SetNextBufAddr
  <2> QED
    BY <1>8, <2>1 DEF SetStreamOn, StartDma, SetNextBufAddr
<1>9. CASE SetStreamOnFails
  <2>1. /\ dmaOn' \in BOOLEAN /\ busy' \in BOOLEAN /\ capturing' \in BOOLEAN
        /\ armed' \in BOOLEAN
    BY <1>9 DEF SetStreamOnFails, StopDma, SetNextBufAddr
  <2> QED
    BY <1>9, <2>1 DEF SetStreamOnFails, StopDma, SetNextBufAddr
<1>10. CASE SetStreamBit
  BY <1>10 DEF SetStreamBit
<1>11. CASE SetStreamOff
  <2>1. /\ dmaOn' \in BOOLEAN /\ busy' \in BOOLEAN /\ capturing' \in BOOLEAN
        /\ armed' \in BOOLEAN
    BY <1>11 DEF SetStreamOff, StopDma
  <2> QED
    BY <1>11, <2>1 DEF SetStreamOff, StopDma
<1>12. CASE SetStreamOffFails
  <2>1. /\ dmaOn' \in BOOLEAN /\ busy' \in BOOLEAN /\ capturing' \in BOOLEAN
        /\ armed' \in BOOLEAN
    BY <1>12 DEF SetStreamOffFails, StartDma, SetNextBufAddr
  <2> QED
    BY <1>12, <2>1 DEF SetStreamOffFails, StartDma, SetNextBufAddr
<1>13. CASE StopStreaming
  BY <1>13 DEF StopStreaming, Elements
<1>14. CASE QueueFree
  BY <1>14 DEF QueueFree, FreeBuffers
<1> QED
  BY <1>1, <1>2, <1>3, <1>4, <1>5, <1>6, <1>7, <1>8, <1>9, <1>10, <1>11, <1>12, <1>13,
     <1>14 DEF App, IoctlProgress

(* Taking the head of vidq_active for vb2 yields sequences of buffers.        *)
LEMMA DoneTypes ==
  ASSUME TypeOK, vidq_active # <<>>, BufferDone(Head(vidq_active))
  PROVE  /\ vb' \in [Buffers -> VbStates] /\ done' \in Seq(Buffers)
         /\ Tail(vidq_active) \in Seq(Buffers)
         /\ Append(Tail(vidq_active), Head(vidq_active)) \in Seq(Buffers)
<1>1. Head(vidq_active) \in Buffers /\ Tail(vidq_active) \in Seq(Buffers)
  BY DEF TypeOK
<1> QED
  BY <1>1 DEF TypeOK, BufferDone, VbStates

(* vin_isr and the DMA keep the types.                                       *)
LEMMA TypeIsrHw == TypeOK /\ (Isr \/ Hw) => TypeOK'
<1> SUFFICES ASSUME TypeOK, Isr \/ Hw PROVE TypeOK'
  OBVIOUS
<1> USE DEF TypeOK, VbStates, IoctlSteps, IsrSteps, StatusBits, appVars, isrVars, dmaVars,
            driverVars, hwVars
<1>1. CASE IsrIgnores
  BY <1>1 DEF IsrIgnores
<1>2. CASE IsrEnters
  BY <1>2 DEF IsrEnters
<1>3. CASE IsrOverflow
  BY <1>3 DEF IsrOverflow
<1>4. CASE IsrResets
  BY <1>4 DEF IsrResets
<1>5. CASE IsrErrors
  <2>1. Cardinality(status \cap {"PIXEL_MISS", "LINE_MISS"}) \in Nat
    <3>1. IsFiniteSet({"PIXEL_MISS", "LINE_MISS"})
      <4>1. IsFiniteSet({"LINE_MISS"})
        BY FS_Singleton
      <4>2. IsFiniteSet({"LINE_MISS"} \cup {"PIXEL_MISS"})
        BY <4>1, FS_AddElement
      <4>3. {"PIXEL_MISS", "LINE_MISS"} = {"LINE_MISS"} \cup {"PIXEL_MISS"}
        OBVIOUS
      <4> QED
        BY <4>2, <4>3, Zenon
    <3> QED
      BY <3>1, FS_Subset, FS_CardinalityType
  <2> QED
    BY <1>5, <2>1 DEF IsrErrors, DropsFor
<1>6. CASE VsyncKeepsHead
  BY <1>6 DEF VsyncKeepsHead
<1>7. CASE VsyncRecyclesHead
  BY <1>7 DEF VsyncRecyclesHead
<1>8. CASE VsyncDeliversHead
  <2>1. /\ dmaOn' \in BOOLEAN /\ busy' \in BOOLEAN /\ capturing' \in BOOLEAN
        /\ armed' \in BOOLEAN
    BY <1>8 DEF VsyncDeliversHead
  <2> QED
    BY <1>8, <2>1, DoneTypes DEF VsyncDeliversHead
<1>9. CASE VsyncSkipsHead
  BY <1>9 DEF VsyncSkipsHead
<1>10. CASE VsyncProgramsNext
  <2>1. /\ dmaOn' \in BOOLEAN /\ busy' \in BOOLEAN /\ capturing' \in BOOLEAN
        /\ armed' \in BOOLEAN
    BY <1>10 DEF VsyncProgramsNext
  <2> QED
    BY <1>10, <2>1 DEF VsyncProgramsNext
<1>11. CASE IsrCaptureDone
  <2>1. /\ dmaOn' \in BOOLEAN /\ busy' \in BOOLEAN /\ capturing' \in BOOLEAN
        /\ armed' \in BOOLEAN
    BY <1>11 DEF IsrCaptureDone
  <2> QED
    BY <1>11, <2>1, DoneTypes DEF IsrCaptureDone
<1>12. CASE HwVsync
  BY <1>12 DEF HwVsync
<1>13. CASE HwFrameEnd
  BY <1>13 DEF HwFrameEnd, FrameEnds
<1>14. CASE HwOverflow
  <2>1. /\ dmaOn' \in BOOLEAN /\ busy' \in BOOLEAN /\ capturing' \in BOOLEAN
        /\ armed' \in BOOLEAN
    BY <1>14 DEF HwOverflow, FrameEnds
  <2> QED
    BY <1>14, <2>1 DEF HwOverflow, FrameEnds
<1>15. ASSUME NEW bit \in {"PIXEL_MISS", "LINE_MISS"}, HwMiss(bit) PROVE TypeOK'
  <2>1. /\ dmaOn' \in BOOLEAN /\ busy' \in BOOLEAN /\ capturing' \in BOOLEAN
        /\ armed' \in BOOLEAN
    BY <1>15 DEF HwMiss, FrameEnds
  <2> QED
    BY <1>15, <2>1 DEF HwMiss, FrameEnds
<1> QED
  BY <1>1, <1>2, <1>3, <1>4, <1>5, <1>6, <1>7, <1>8, <1>9, <1>10, <1>11, <1>12, <1>13,
     <1>14, <1>15 DEF Isr, Hw

LEMMA TypeStep == TypeOK /\ [Next]_vars => TypeOK'
<1> SUFFICES ASSUME TypeOK, [Next]_vars PROVE TypeOK'
  OBVIOUS
<1>1. CASE App \/ IoctlProgress
  BY <1>1, TypeApp
<1>2. CASE Isr \/ Hw
  BY <1>2, TypeIsrHw
<1>3. ASSUME NEW d \in Delays, DelayFrames(d) PROVE TypeOK'
  BY <1>3, BoundAssumption DEF DelayFrames, TypeOK, appVars, isrVars, hwVars, dmaVars
<1>4. CASE UNCHANGED vars
  BY <1>4 DEF TypeOK, vars, appVars, isrVars, driverVars, hwVars, dmaVars
<1> QED
  BY <1>1, <1>2, <1>3, <1>4 DEF Next

(* Every variable keeps its type, in every mode and with every fault.         *)
THEOREM TypeCorrect == Spec => []TypeOK
  BY TypeInit, TypeStep, PTL DEF Spec

-----------------------------------------------------------------------------
(***************************************************************************)
(* Lists of distinct buffers                                                *)
(***************************************************************************)

(* list_add_tail of a buffer that is on no list.                             *)
LEMMA AppendElements ==
  ASSUME NEW S, NEW s \in Seq(S), NEW x \in S
  PROVE  /\ Elements(Append(s, x)) = Elements(s) \cup {x}
         /\ Distinct(s) /\ x \notin Elements(s) => Distinct(Append(s, x))
<1> DEFINE t == Append(s, x)
<1>1. /\ t \in Seq(S) /\ Len(t) = Len(s) + 1 /\ Len(s) \in Nat
      /\ DOMAIN t = 1 .. Len(s) + 1 /\ DOMAIN s = 1 .. Len(s)
      /\ \A i \in 1 .. Len(s) : t[i] = s[i]
      /\ t[Len(s) + 1] = x
  OBVIOUS
<1>2. Elements(t) = Elements(s) \cup {x}
  BY <1>1 DEF Elements
<1>3. ASSUME Distinct(s), x \notin Elements(s) PROVE Distinct(t)
  BY <1>1, <1>3 DEF Distinct, Elements
<1> QED
  BY <1>2, <1>3

(* list_del of the first buffer.                                             *)
LEMMA TailElements ==
  ASSUME NEW S, NEW s \in Seq(S), s # <<>>, Distinct(s)
  PROVE  /\ Head(s) \in S /\ Tail(s) \in Seq(S) /\ Head(s) \in Elements(s)
         /\ Elements(Tail(s)) = Elements(s) \ {Head(s)}
         /\ Distinct(Tail(s))
<1> DEFINE t == Tail(s)
<1>1. /\ t \in Seq(S) /\ Len(s) \in Nat /\ Len(s) >= 1 /\ Len(t) = Len(s) - 1
      /\ DOMAIN t = 1 .. Len(s) - 1 /\ DOMAIN s = 1 .. Len(s)
      /\ \A i \in 1 .. Len(s) - 1 : t[i] = s[i + 1]
      /\ Head(s) = s[1] /\ Head(s) \in S
  OBVIOUS
<1>2. Head(s) \in Elements(s)
  BY <1>1 DEF Elements
<1>3. Elements(t) \subseteq Elements(s) \ {Head(s)}
  BY <1>1 DEF Elements, Distinct
<1>4. ASSUME NEW x \in Elements(s), x # Head(s) PROVE x \in Elements(t)
  <2>1. PICK i \in 1 .. Len(s) : x = s[i]
    BY <1>1 DEF Elements
  <2>2. i # 1 /\ i - 1 \in 1 .. Len(s) - 1 /\ (i - 1) + 1 = i
    BY <1>1, <1>4, <2>1
  <2>3. t[i - 1] = x
    BY <1>1, <2>1, <2>2
  <2> QED
    BY <1>1, <2>2, <2>3 DEF Elements
<1>5. Distinct(t)
  BY <1>1 DEF Distinct
<1> QED
  BY <1>1, <1>2, <1>3, <1>4, <1>5

(* Handing one list over to the end of another.                              *)
LEMMA ConcatElements ==
  ASSUME NEW S, NEW s \in Seq(S), NEW t \in Seq(S)
  PROVE  /\ Elements(s \o t) = Elements(s) \cup Elements(t)
         /\ Distinct(s) /\ Distinct(t) /\ Elements(s) \cap Elements(t) = {}
              => Distinct(s \o t)
<1> DEFINE u == s \o t
<1>1. /\ u \in Seq(S) /\ Len(s) \in Nat /\ Len(t) \in Nat /\ Len(u) = Len(s) + Len(t)
      /\ DOMAIN u = 1 .. Len(s) + Len(t)
      /\ DOMAIN s = 1 .. Len(s) /\ DOMAIN t = 1 .. Len(t)
      /\ \A i \in 1 .. Len(s) + Len(t) : u[i] = IF i <= Len(s) THEN s[i] ELSE t[i - Len(s)]
  OBVIOUS
<1>2. Elements(u) \subseteq Elements(s) \cup Elements(t)
  BY <1>1 DEF Elements
<1>3. Elements(s) \subseteq Elements(u)
  BY <1>1 DEF Elements
<1>4. ASSUME NEW x \in Elements(t) PROVE x \in Elements(u)
  <2>1. PICK i \in 1 .. Len(t) : x = t[i]
    BY <1>1 DEF Elements
  <2>2. Len(s) + i \in DOMAIN u /\ u[Len(s) + i] = x
    BY <1>1, <2>1
  <2> QED
    BY <2>2 DEF Elements
<1>5. ASSUME Distinct(s), Distinct(t), Elements(s) \cap Elements(t) = {}
      PROVE  Distinct(u)
  <2> SUFFICES ASSUME NEW i \in DOMAIN u, NEW j \in DOMAIN u, u[i] = u[j] PROVE i = j
    BY DEF Distinct
  <2>1. CASE i <= Len(s) /\ j <= Len(s)
    BY <1>1, <1>5, <2>1 DEF Distinct
  <2>2. CASE i > Len(s) /\ j > Len(s)
    <3>1. i - Len(s) \in DOMAIN t /\ j - Len(s) \in DOMAIN t
      BY <1>1, <2>2
    <3>2. t[i - Len(s)] = t[j - Len(s)]
      BY <1>1, <2>2
    <3>3. i - Len(s) = j - Len(s)
      BY <1>5, <3>1, <3>2 DEF Distinct
    <3> QED
      BY <1>1, <3>3
  <2>3. CASE i <= Len(s) /\ j > Len(s)
    <3>1. u[i] \in Elements(s)
      BY <1>1, <2>3 DEF Elements
    <3>2. u[j] \in Elements(t)
      <4>1. j - Len(s) \in DOMAIN t /\ u[j] = t[j - Len(s)]
        BY <1>1, <2>3
      <4> QED
        BY <4>1 DEF Elements
    <3> QED
      BY <1>5, <3>1, <3>2
  <2>4. CASE i > Len(s) /\ j <= Len(s)
    <3>1. u[j] \in Elements(s)
      BY <1>1, <2>4 DEF Elements
    <3>2. u[i] \in Elements(t)
      <4>1. i - Len(s) \in DOMAIN t /\ u[i] = t[i - Len(s)]
        BY <1>1, <2>4
      <4> QED
        BY <4>1 DEF Elements
    <3> QED
      BY <1>5, <3>1, <3>2
  <2> QED
    BY <1>1, <2>1, <2>2, <2>3, <2>4
<1> QED
  BY <1>2, <1>3, <1>4, <1>5

LEMMA EmptyElements == Elements(<<>>) = {} /\ Distinct(<<>>)
  BY DEF Elements, Distinct

-----------------------------------------------------------------------------
(***************************************************************************)
(* The lists and the buffer states agree                                    *)
(***************************************************************************)

(* Every mode but one: IMAGE mode allocates one buffer, of which two-buffer     *)
(* mode would keep a place on vidq_active that IMAGE mode gives away.          *)
ListsMode == TwoBuffer => CaptureMode = "VIDEO"

(* The buffers on vidq_active belong to a stream.                            *)
PhaseInv ==
  /\ streaming => ioctl = "idle"
  /\ vidq_active # <<>> => StreamOpen \/ ioctl \in {"set_stream_on", "stop"}

(* As ListsInv, with the buffers of vidq_active that the driver owns.         *)
OwnersInv ==
  /\ OwnedByList = {b \in Buffers : vb[b] = "active"}
  /\ Elements(queued) = {b \in Buffers : vb[b] = "queued"}
  /\ Elements(done) = {b \in Buffers : vb[b] = "done"}
  /\ Distinct(vidq_active) /\ Distinct(queued) /\ Distinct(done)

(* In two-buffer mode the buffers that have entered vidq_active stay on it as   *)
(* long as the stream lasts.                                                *)
TwoBufferInv ==
  TwoBuffer =>
    /\ StreamOpen \/ ioctl \in {"set_stream_on", "stop"} => Elements(vidq_active) = first_qbuf
    /\ ioctl = "idle" /\ ~streaming /\ (\E b \in Buffers : vb[b] # "none") => first_qbuf = {}

LInv == TypeOK /\ PhaseInv /\ OwnersInv /\ TwoBufferInv

LEMMA PhaseKeeps ==
  ASSUME TypeOK, PhaseInv, App \/ IoctlProgress \/ Isr \/ Hw
  PROVE  PhaseInv'
<1> USE DEF PhaseInv, StreamOpen, appVars, isrVars, dmaVars, driverVars, hwVars
<1>1. CASE App
  BY <1>1 DEF App, Reqbufs, Dqbuf, Streamon, Streamoff, Close, QbufEarly, Qbuf
<1>2. CASE IoctlProgress
  BY <1>2 DEF IoctlProgress, SetStreamOn, SetStreamOnFails, SetStreamBit, SetStreamOff,
              SetStreamOffFails, StopStreaming, QueueFree
<1>3. CASE Isr
  <2>1. UNCHANGED <<ioctl, streaming>>
    BY <1>3 DEF Isr, IsrIgnores, IsrEnters, IsrOverflow, IsrResets, IsrErrors, VsyncKeepsHead,
                VsyncRecyclesHead, VsyncDeliversHead, VsyncSkipsHead, VsyncProgramsNext,
                IsrCaptureDone
  <2>2. vidq_active' # <<>> => vidq_active # <<>>
    BY <1>3 DEF Isr, IsrIgnores, IsrEnters, IsrOverflow, IsrResets, IsrErrors, VsyncKeepsHead,
                VsyncRecyclesHead, VsyncDeliversHead, VsyncSkipsHead, VsyncProgramsNext,
                IsrCaptureDone
  <2> QED
    BY <2>1, <2>2
<1>4. CASE Hw
  BY <1>4 DEF Hw, HwVsync, HwFrameEnd, HwOverflow, HwMiss, FrameEnds
<1> QED
  BY <1>1, <1>2, <1>3, <1>4

(* The ioctls move a buffer together with its state.                         *)
LEMMA OwnersApp ==
  ASSUME ListsMode, LInv, App \/ IoctlProgress
  PROVE  OwnersInv' /\ TwoBufferInv'
<1> USE DEF appVars, isrVars, dmaVars, driverVars, hwVars
<1>0. TypeOK /\ PhaseInv /\ OwnersInv /\ TwoBufferInv
  BY DEF LInv
<1>1. ASSUME UNCHANGED <<vb, queued, done, vidq_active, qbufed>> PROVE OwnersInv'
  BY <1>0, <1>1 DEF OwnersInv, OwnedByList, Elements, Distinct
<1>2. CASE Reqbufs
  <2>1. /\ vb' = [b \in Buffers |-> "dequeued"] /\ \A b \in Buffers : vb[b] = "none"
        /\ first_qbuf' = {} /\ qbufed' = {} /\ ioctl = "idle" /\ ~streaming
        /\ UNCHANGED <<queued, done, vidq_active, ioctl, streaming>>
    BY <1>2 DEF Reqbufs
  <2>2. vidq_active = <<>>
    BY <1>0, <2>1 DEF PhaseInv, StreamOpen
  <2>3. OwnedByList' = {}
    BY <2>1, <2>2, EmptyElements DEF OwnedByList
  <2>4. OwnersInv'
    BY <1>0, <2>1, <2>3 DEF OwnersInv, Distinct, Elements
  <2> QED
    BY <2>1, <2>4 DEF TwoBufferInv, StreamOpen
<1>3. ASSUME NEW b \in Buffers, QbufEarly(b) PROVE OwnersInv' /\ TwoBufferInv'
  <2>1. b \notin Elements(queued)
    BY <1>0, <1>3 DEF QbufEarly, OwnersInv
  <2>2. Elements(queued') = Elements(queued) \cup {b} /\ Distinct(queued')
    BY <1>0, <1>3, <2>1, AppendElements DEF QbufEarly, OwnersInv, TypeOK
  <2>3. UNCHANGED <<vidq_active, done, first_qbuf, qbufed, ioctl, streaming>> /\ vb[b] = "dequeued"
    BY <1>3 DEF QbufEarly
  <2>4. \A c \in Buffers : vb'[c] = IF c = b THEN "queued" ELSE vb[c]
    BY <1>0, <1>3 DEF QbufEarly, TypeOK
  <2>5. OwnersInv'
    BY <1>0, <2>2, <2>3, <2>4 DEF OwnersInv, OwnedByList
  <2>6. TwoBufferInv'
    BY <1>0, <2>3, <2>4 DEF TwoBufferInv, StreamOpen
  <2> QED
    BY <2>5, <2>6
<1>4. ASSUME NEW b \in Buffers, Qbuf(b) PROVE OwnersInv' /\ TwoBufferInv'
  <2>1. /\ ioctl = "idle" /\ streaming /\ vb[b] = "dequeued"
        /\ UNCHANGED <<queued, done, ioctl, streaming>>
    BY <1>4 DEF Qbuf
  <2>2. \A c \in Buffers : vb'[c] = IF c = b THEN "active" ELSE vb[c]
    BY <1>0, <1>4 DEF Qbuf, TypeOK
  <2>3. b \notin OwnedByList
    BY <1>0, <2>1 DEF OwnersInv
  <2>4. CASE TwoBuffer /\ b \in first_qbuf
    <3>1. /\ UNCHANGED vidq_active /\ first_qbuf' = first_qbuf /\ qbufed' = qbufed \cup {b}
          /\ b \in Elements(vidq_active)
      BY <1>0, <1>4, <2>1, <2>4 DEF Qbuf, TwoBufferInv, StreamOpen
    <3>2. OwnedByList' = OwnedByList \cup {b}
      BY <2>4, <3>1 DEF OwnedByList
    <3>3. OwnersInv'
      BY <1>0, <2>1, <2>2, <3>1, <3>2 DEF OwnersInv
    <3>4. TwoBufferInv'
      BY <1>0, <2>1, <3>1 DEF TwoBufferInv, StreamOpen
    <3> QED
      BY <3>3, <3>4
  <2>5. CASE ~TwoBuffer \/ b \notin first_qbuf
    <3>1. /\ vidq_active' = Append(vidq_active, b)
          /\ TwoBuffer => first_qbuf' = first_qbuf \cup {b} /\ qbufed' = qbufed \cup {b}
          /\ b \notin Elements(vidq_active)
      BY <1>0, <1>4, <2>1, <2>3, <2>5 DEF Qbuf, TwoBufferInv, StreamOpen, OwnedByList
    <3>2. Elements(vidq_active') = Elements(vidq_active) \cup {b} /\ Distinct(vidq_active')
      BY <1>0, <3>1, AppendElements DEF OwnersInv, TypeOK
    <3>3. OwnedByList' = OwnedByList \cup {b}
      BY <3>1, <3>2 DEF OwnedByList
    <3>4. OwnersInv'
      BY <1>0, <2>1, <2>2, <3>2, <3>3 DEF OwnersInv
    <3>5. TwoBufferInv'
      BY <1>0, <2>1, <3>1, <3>2 DEF TwoBufferInv, StreamOpen
    <3> QED
      BY <3>4, <3>5
  <2> QED
    BY <2>4, <2>5
<1>5. CASE Dqbuf
  <2>1. /\ Head(done) \in Buffers /\ Head(done) \in Elements(done)
        /\ Elements(done') = Elements(done) \ {Head(done)} /\ Distinct(done')
    BY <1>0, <1>5, TailElements DEF Dqbuf, OwnersInv, TypeOK
  <2>2. UNCHANGED <<queued, vidq_active, first_qbuf, qbufed, ioctl, streaming>>
    BY <1>5 DEF Dqbuf
  <2>3. \A c \in Buffers : vb'[c] = IF c = Head(done) THEN "dequeued" ELSE vb[c]
    BY <1>0, <1>5, <2>1 DEF Dqbuf, TypeOK
  <2>4. vb[Head(done)] = "done"
    BY <1>0, <2>1 DEF OwnersInv
  <2>5. OwnersInv'
    BY <1>0, <2>1, <2>2, <2>3, <2>4 DEF OwnersInv, OwnedByList
  <2>6. TwoBufferInv'
    BY <1>0, <2>1, <2>2, <2>3, <2>4 DEF TwoBufferInv, StreamOpen
  <2> QED
    BY <2>5, <2>6
<1>6. CASE Streamon
  <2>1. /\ ioctl = "idle" /\ ~streaming /\ vidq_active = <<>>
        /\ \E b \in Buffers : vb[b] # "none"
        /\ vidq_active' = vidq_active \o queued
        /\ queued' = <<>> /\ ioctl' = "set_stream_on" /\ UNCHANGED done
    BY <1>0, <1>6 DEF Streamon, PhaseInv, StreamOpen
  <2>2. vidq_active' = queued
    BY <1>0, <2>1 DEF TypeOK
  <2>3. TwoBuffer => /\ first_qbuf' = Elements(queued)
                     /\ qbufed' = qbufed \cup Elements(queued)
    BY <1>0, <1>6, <2>1 DEF Streamon, TwoBufferInv
  <2>4. OwnedByList' = Elements(queued) /\ OwnedByList = {}
    BY <2>1, <2>2, <2>3, EmptyElements DEF OwnedByList
  <2>5. Elements(queued') = {} /\ Distinct(queued')
    BY <2>1, EmptyElements
  <2>6. \A c \in Buffers : vb'[c] = IF vb[c] = "queued" THEN "active" ELSE vb[c]
    BY <1>0, <1>6 DEF Streamon, OwnersInv
  <2>7. OwnersInv'
    BY <1>0, <2>1, <2>2, <2>4, <2>5, <2>6 DEF OwnersInv
  <2>8. TwoBufferInv'
    BY <2>1, <2>2, <2>3 DEF TwoBufferInv
  <2> QED
    BY <2>7, <2>8
<1>7. CASE StopStreaming
  <2>1. /\ vidq_active' = <<>> /\ ioctl' = "release" /\ UNCHANGED <<queued, done>>
    BY <1>7 DEF StopStreaming
  <2>2. Elements(vidq_active') = {} /\ Distinct(vidq_active') /\ OwnedByList' = {}
    BY <2>1, EmptyElements DEF OwnedByList
  <2>3. \A c \in Buffers : vb'[c] = IF vb[c] = "active" THEN "error" ELSE vb[c]
    BY <1>0, <1>7 DEF StopStreaming, OwnersInv, OwnedByList
  <2>4. OwnersInv'
    BY <1>0, <2>1, <2>2, <2>3 DEF OwnersInv
  <2> QED
    BY <2>1, <2>4 DEF TwoBufferInv, StreamOpen
<1>8. CASE QueueFree \/ Close
  <2>1. FreeBuffers /\ vidq_active = <<>> /\ vidq_active' = <<>> /\ ioctl' = "idle" /\ ~streaming'
    BY <1>0, <1>8 DEF QueueFree, Close, PhaseInv, StreamOpen
  <2>2. /\ \A b \in Buffers : vb'[b] = "none"
        /\ Elements(queued') = {} /\ Elements(done') = {} /\ OwnedByList' = {}
        /\ Distinct(vidq_active') /\ Distinct(queued') /\ Distinct(done')
    BY <2>1, EmptyElements DEF FreeBuffers, OwnedByList
  <2>3. OwnersInv'
    BY <2>2 DEF OwnersInv
  <2> QED
    BY <2>1, <2>2, <2>3 DEF TwoBufferInv, StreamOpen
<1>9. CASE \/ Streamoff \/ SetStreamBit \/ SetStreamOn \/ SetStreamOnFails \/ SetStreamOff
           \/ SetStreamOffFails
  <2>1. /\ UNCHANGED <<vb, queued, done, vidq_active, first_qbuf, qbufed>>
        /\ StreamOpen \/ ioctl \in {"set_stream_on", "stop"}
        /\ ioctl' = "idle" => streaming'
    BY <1>9 DEF Streamoff, SetStreamBit, SetStreamOn, SetStreamOnFails, SetStreamOff,
                SetStreamOffFails, StreamOpen
  <2> QED
    BY <1>0, <1>1, <2>1 DEF TwoBufferInv
<1> QED
  BY <1>2, <1>3, <1>4, <1>5, <1>6, <1>7, <1>8, <1>9 DEF App, IoctlProgress

(* vin_isr recycles or delivers the head; the DMA touches no list.            *)
LEMMA OwnersIsrHw ==
  ASSUME ListsMode, LInv, Isr \/ Hw
  PROVE  OwnersInv' /\ TwoBufferInv'
<1> USE DEF appVars, isrVars, dmaVars, driverVars, hwVars
<1> DEFINE h == Head(vidq_active)
<1>0. TypeOK /\ PhaseInv /\ OwnersInv /\ TwoBufferInv
  BY DEF LInv
<1>1. ASSUME UNCHANGED <<appVars, vidq_active, streaming>> PROVE OwnersInv' /\ TwoBufferInv'
  BY <1>0, <1>1 DEF OwnersInv, TwoBufferInv, OwnedByList, Elements, Distinct, StreamOpen
<1>2. ASSUME vidq_active # <<>>
      PROVE  /\ h \in Buffers /\ Tail(vidq_active) \in Seq(Buffers)
             /\ h \in Elements(vidq_active)
             /\ Elements(Tail(vidq_active)) = Elements(vidq_active) \ {h}
             /\ Distinct(Tail(vidq_active))
             /\ Elements(Append(Tail(vidq_active), h)) = Elements(vidq_active)
             /\ Distinct(Append(Tail(vidq_active), h))
  <2>1. /\ h \in Buffers /\ Tail(vidq_active) \in Seq(Buffers)
        /\ h \in Elements(vidq_active)
        /\ Elements(Tail(vidq_active)) = Elements(vidq_active) \ {h}
        /\ Distinct(Tail(vidq_active))
    BY <1>0, <1>2, TailElements DEF OwnersInv, TypeOK
  <2>2. /\ Elements(Append(Tail(vidq_active), h)) = Elements(Tail(vidq_active)) \cup {h}
        /\ Distinct(Append(Tail(vidq_active), h))
    <3>1. h \in Buffers /\ h \notin Elements(Tail(vidq_active))
      BY <2>1
    <3>2. \A t \in Seq(Buffers), x \in Buffers :
            Distinct(t) /\ x \notin Elements(t) =>
              /\ Elements(Append(t, x)) = Elements(t) \cup {x}
              /\ Distinct(Append(t, x))
      BY AppendElements
    <3> HIDE DEF h
    <3> QED
      BY <2>1, <3>1, <3>2
  <2> QED
    BY <2>1, <2>2
<1>3. CASE VsyncRecyclesHead
  <2>1. /\ vidq_active # <<>> /\ vidq_active' = Append(Tail(vidq_active), h)
        /\ UNCHANGED <<appVars, streaming>>
    BY <1>3 DEF VsyncRecyclesHead
  <2>2. Elements(vidq_active') = Elements(vidq_active) /\ Distinct(vidq_active')
    BY <1>2, <2>1
  <2>3. OwnedByList' = OwnedByList
    BY <2>1, <2>2 DEF OwnedByList
  <2>4. Elements(queued') = Elements(queued) /\ Elements(done') = Elements(done)
    BY <2>1 DEF Elements
  <2> QED
    BY <1>0, <2>1, <2>2, <2>3, <2>4 DEF OwnersInv, TwoBufferInv, Distinct, StreamOpen
<1>4. ASSUME vidq_active # <<>>, h \in OwnedByList, BufferDone(h), UNCHANGED queued,
             Distinct(vidq_active'), OwnedByList' = OwnedByList \ {h}
      PROVE  OwnersInv'
  <2>1. h \in Buffers /\ vb[h] = "active"
    BY <1>0, <1>4 DEF OwnersInv
  <2>2. Elements(done') = Elements(done) \cup {h} /\ Distinct(done')
    <3>1. h \notin Elements(done)
      BY <1>0, <2>1 DEF OwnersInv
    <3> QED
      BY <1>0, <1>4, <2>1, <3>1, AppendElements DEF BufferDone, OwnersInv, TypeOK
  <2>3. \A c \in Buffers : vb'[c] = IF c = h THEN "done" ELSE vb[c]
    BY <1>0, <1>4, <2>1 DEF BufferDone, TypeOK
  <2> QED
    BY <1>0, <1>4, <2>1, <2>2, <2>3 DEF OwnersInv
<1>5. CASE VsyncDeliversHead
  <2>1. /\ vidq_active # <<>> /\ BufferDone(h)
        /\ TwoBuffer => /\ vidq_active' = Append(Tail(vidq_active), h)
                        /\ qbufed' = qbufed \ {h} /\ h \in qbufed
        /\ ~TwoBuffer => vidq_active' = Tail(vidq_active)
        /\ UNCHANGED <<queued, first_qbuf, ioctl, streaming>>
    BY <1>5 DEF VsyncDeliversHead, KeepHead
  <2>2. h \in OwnedByList /\ OwnedByList' = OwnedByList \ {h} /\ Distinct(vidq_active')
    BY <1>2, <2>1 DEF OwnedByList
  <2>3. OwnersInv'
    BY <1>4, <2>1, <2>2
  <2>4. TwoBufferInv'
    <3>1. h \in Buffers /\ vb[h] # "none"
      BY <1>0, <2>2 DEF OwnersInv
    <3> QED
      BY <1>0, <1>2, <2>1, <3>1 DEF TwoBufferInv, StreamOpen
  <2> QED
    BY <2>3, <2>4
<1>6. CASE IsrCaptureDone
  <2>1. CASE ~DeliversImage
    BY <1>1, <1>6, <2>1 DEF IsrCaptureDone
  <2>2. CASE DeliversImage
    <3>1. /\ ~TwoBuffer /\ vidq_active # <<>> /\ BufferDone(h) /\ vidq_active' = Tail(vidq_active)
          /\ UNCHANGED queued
      BY <1>6, <2>2 DEF IsrCaptureDone, DeliversImage, ListsMode
    <3>2. h \in OwnedByList /\ OwnedByList' = OwnedByList \ {h} /\ Distinct(vidq_active')
      BY <1>2, <3>1 DEF OwnedByList
    <3> QED
      BY <1>4, <3>1, <3>2 DEF TwoBufferInv
  <2> QED
    BY <2>1, <2>2
<1>7. CASE IsrIgnores \/ IsrEnters \/ IsrOverflow \/ IsrResets \/ IsrErrors
  BY <1>1, <1>7 DEF IsrIgnores, IsrEnters, IsrOverflow, IsrResets, IsrErrors
<1>8. CASE VsyncKeepsHead \/ VsyncSkipsHead \/ VsyncProgramsNext
  BY <1>1, <1>8 DEF VsyncKeepsHead, VsyncSkipsHead, VsyncProgramsNext
<1>9. CASE Hw
  BY <1>1, <1>9 DEF Hw, HwVsync, HwFrameEnd, HwOverflow, HwMiss, FrameEnds
<1> QED
  BY <1>3, <1>5, <1>6, <1>7, <1>8, <1>9 DEF Isr

LEMMA LInvInductive ==
  ASSUME ListsMode
  PROVE  /\ Init => LInv
         /\ LInv /\ [Next]_vars => LInv'
<1>1. Init => LInv
  BY TypeInit, EmptyElements DEF Init, LInv, PhaseInv, StreamOpen, OwnersInv, OwnedByList,
                                 TwoBufferInv
<1>2. LInv /\ [Next]_vars => LInv'
  <2> SUFFICES ASSUME LInv, [Next]_vars PROVE LInv'
    OBVIOUS
  <2>1. TypeOK'
    BY TypeStep DEF LInv
  <2>2. CASE App \/ IoctlProgress
    BY <2>1, <2>2, PhaseKeeps, OwnersApp DEF LInv
  <2>3. CASE Isr \/ Hw
    BY <2>1, <2>3, PhaseKeeps, OwnersIsrHw DEF LInv
  <2>4. ASSUME UNCHANGED <<appVars, vidq_active, streaming>>
        PROVE  PhaseInv' /\ OwnersInv' /\ TwoBufferInv'
    BY <2>4 DEF LInv, PhaseInv, OwnersInv, TwoBufferInv, OwnedByList, Elements, Distinct,
                StreamOpen, appVars
  <2>5. ASSUME NEW d \in Delays, DelayFrames(d) PROVE LInv'
    BY <2>1, <2>4, <2>5 DEF LInv, DelayFrames
  <2>6. CASE UNCHANGED vars
    BY <2>1, <2>4, <2>6 DEF LInv, vars, driverVars
  <2> QED
    BY <2>2, <2>3, <2>5, <2>6 DEF Next
<1> QED
  BY <1>1, <1>2

(* The lists of vb2 and of the driver agree with the state of every buffer:   *)
(* no buffer is completed twice or forgotten.  For any number of buffers, in    *)
(* VIDEO and IMAGE mode, however late vin_isr runs and whatever fails.         *)
THEOREM ListsAlwaysAgree ==
  ASSUME ListsMode
  PROVE  Spec => []ListsAgree
<1>1. LInv => ListsAgree
  BY DEF LInv, OwnersInv, ListsAgree
<1> QED
  BY <1>1, LInvInductive, PTL DEF Spec

(* In the ordinary mode the driver owns all of vidq_active.                   *)
LEMMA ListsRing ==
  ASSUME RingMode, TypeOK, StreamInv
  PROVE  ListsMode /\ (ListsInv <=> LInv) /\ (OwnersInv' => ListsInv')
BY DEF RingMode, ListsMode, TwoBuffer, ListsInv, LInv, OwnersInv, OwnedByList, TwoBufferInv,
       StreamInv, PhaseInv

LEMMA ListsApp ==
  ASSUME RingMode, TypeOK, ListsInv, StreamInv, App \/ IoctlProgress
  PROVE  ListsInv'
BY ListsRing, OwnersApp

LEMMA ListsIsrHw ==
  ASSUME RingMode, TypeOK, ListsInv, StreamInv, Isr \/ Hw
  PROVE  ListsInv'
BY ListsRing, OwnersIsrHw

-----------------------------------------------------------------------------
(***************************************************************************)
(* The course of a stream                                                   *)
(***************************************************************************)

LEMMA StreamApp ==
  ASSUME "off" \notin Faults, TypeOK, StreamInv, App \/ IoctlProgress
  PROVE  StreamInv'
<1> USE DEF StreamInv, StreamOpen, TypeOK, appVars, isrVars, dmaVars, driverVars, hwVars
<1>1. CASE Reqbufs
  BY <1>1 DEF Reqbufs
<1>2. CASE Dqbuf
  BY <1>2 DEF Dqbuf
<1>3. CASE Streamon
  BY <1>3 DEF Streamon
<1>4. CASE Streamoff
  BY <1>4 DEF Streamoff
<1>5. CASE Close
  BY <1>5 DEF Close
<1>6. ASSUME NEW b \in Buffers, QbufEarly(b) PROVE StreamInv'
  BY <1>6 DEF QbufEarly
<1>7. ASSUME NEW b \in Buffers, Qbuf(b) PROVE StreamInv'
  BY <1>7 DEF Qbuf
<1>8. CASE SetStreamOn
  BY <1>8 DEF SetStreamOn, StartDma
<1>9. CASE SetStreamOnFails
  BY <1>9 DEF SetStreamOnFails, StopDma
<1>10. CASE SetStreamBit
  BY <1>10 DEF SetStreamBit
<1>11. CASE SetStreamOff
  BY <1>11 DEF SetStreamOff, StopDma
<1>12. CASE SetStreamOffFails
  BY <1>12 DEF SetStreamOffFails
<1>13. CASE StopStreaming
  BY <1>13 DEF StopStreaming
<1>14. CASE QueueFree
  BY <1>14 DEF QueueFree
<1> QED
  BY <1>1, <1>2, <1>3, <1>4, <1>5, <1>6, <1>7, <1>8, <1>9, <1>10, <1>11, <1>12, <1>13,
     <1>14 DEF App, IoctlProgress

LEMMA StreamIsrHw ==
  ASSUME TypeOK, StreamInv, Isr \/ Hw
  PROVE  StreamInv'
<1> USE DEF StreamInv, StreamOpen, appVars, isrVars, dmaVars, driverVars, hwVars
<1>1. CASE VsyncRecyclesHead
  BY <1>1 DEF VsyncRecyclesHead
<1>2. CASE VsyncDeliversHead
  BY <1>2 DEF VsyncDeliversHead
<1>3. CASE IsrCaptureDone
  BY <1>3 DEF IsrCaptureDone
<1>4. CASE IsrIgnores \/ IsrEnters \/ IsrOverflow \/ IsrResets \/ IsrErrors
  BY <1>4 DEF IsrIgnores, IsrEnters, IsrOverflow, IsrResets, IsrErrors
<1>5. CASE VsyncKeepsHead \/ VsyncSkipsHead \/ VsyncProgramsNext
  BY <1>5 DEF VsyncKeepsHead, VsyncSkipsHead, VsyncProgramsNext
<1>6. CASE HwVsync
  BY <1>6 DEF HwVsync
<1>7. ASSUME FrameEnds PROVE StreamInv'
  BY <1>7 DEF FrameEnds, TypeOK
<1> QED
  BY <1>1, <1>2, <1>3, <1>4, <1>5, <1>6, <1>7 DEF Isr, Hw, HwFrameEnd, HwOverflow, HwMiss

-----------------------------------------------------------------------------
(***************************************************************************)
(* Where the DMA writes                                                     *)
(***************************************************************************)

(* The ioctls: VIDIOC_QBUF appends behind the buffers in use, and set_stream  *)
(* starts and stops the DMA.                                                 *)
LEMMA DmaApp ==
  ASSUME RingMode, TypeOK, StreamInv, DmaInv, App \/ IoctlProgress
  PROVE  DmaInv'
<1> DEFINE ringVars == <<isr, status, irq, capturing, first_flag, reg, cur, vidq_active>>
<1> USE DEF appVars, isrVars, dmaVars, driverVars, hwVars
<1>1. ASSUME UNCHANGED ringVars PROVE DmaInv'
  BY <1>1 DEF DmaInv, FirstFrameInv, RingInv, VsyncPending
<1>2. ASSUME ~capturing', UNCHANGED <<isr, status>>, irq' \subseteq irq PROVE DmaInv'
  BY <1>2 DEF DmaInv
<1>3. CASE Reqbufs \/ Dqbuf \/ Streamoff \/ Close \/ SetStreamBit \/ QueueFree
  BY <1>1, <1>3 DEF Reqbufs, Dqbuf, Streamoff, Close, SetStreamBit, QueueFree
<1>4. ASSUME NEW b \in Buffers, QbufEarly(b) PROVE DmaInv'
  BY <1>1, <1>4 DEF QbufEarly
<1>5. ASSUME NEW b \in Buffers, Qbuf(b) PROVE DmaInv'
  <2>1. /\ vidq_active' = Append(vidq_active, b)
        /\ UNCHANGED <<isr, status, irq, capturing, first_flag, reg, cur>>
    BY <1>5 DEF Qbuf, TwoBuffer, RingMode
  <2>2. /\ Len(vidq_active) \in Nat /\ Len(vidq_active') = Len(vidq_active) + 1
        /\ vidq_active' # <<>>
        /\ vidq_active # <<>> => Head(vidq_active') = Head(vidq_active)
        /\ Len(vidq_active) >= 2 =>
             vidq_active'[1] = vidq_active[1] /\ vidq_active'[2] = vidq_active[2]
    BY <2>1 DEF TypeOK
  <2>3. FirstFrameInv => FirstFrameInv'
    BY <2>1, <2>2 DEF FirstFrameInv
  <2>4. RingInv => RingInv'
    BY <2>1, <2>2 DEF RingInv, VsyncPending
  <2> QED
    BY <2>1, <2>3, <2>4 DEF DmaInv
<1>6. CASE Streamon
  <2>1. ~capturing' /\ UNCHANGED <<isr, status, irq>>
    BY <1>6 DEF Streamon, StreamInv, StreamOpen
  <2> QED
    BY <1>2, <2>1
<1>7. CASE SetStreamOn
  <2>1. StartDma /\ UNCHANGED <<vidq_active, isr, status>>
    BY <1>7 DEF SetStreamOn, StreamInv, StreamOpen
  <2>2. FirstFrameInv' /\ first_flag' = 0 /\ irq' = {}
    BY <2>1 DEF StartDma, SetNextBufAddr, FirstFrameInv
  <2> QED
    BY <2>1, <2>2 DEF DmaInv
<1>8. CASE SetStreamOnFails
  BY <1>2, <1>8 DEF SetStreamOnFails, StopDma
<1>9. CASE SetStreamOff
  <2>1. ~capturing' /\ irq' \subseteq irq /\ UNCHANGED <<isr, status>>
    BY <1>9 DEF SetStreamOff, StopDma, StreamInv
  <2> QED
    BY <1>2, <2>1
<1>10. CASE SetStreamOffFails
  BY <1>10 DEF SetStreamOffFails, RingMode
<1>11. CASE StopStreaming
  <2>1. ~capturing' /\ UNCHANGED <<isr, status, irq>>
    BY <1>11 DEF StopStreaming, StreamInv, StreamOpen
  <2> QED
    BY <1>2, <2>1
<1> QED
  BY <1>3, <1>4, <1>5, <1>6, <1>7, <1>8, <1>9, <1>10, <1>11 DEF App, IoctlProgress

(* vin_isr up to the point where it acts on a vsync.                         *)
LEMMA DmaIsrEntry ==
  ASSUME RingMode, TypeOK, DmaInv,
         IsrIgnores \/ IsrEnters \/ IsrOverflow \/ IsrResets \/ IsrErrors
  PROVE  DmaInv'
<1> USE DEF DmaInv, FirstFrameInv, RingInv, VsyncPending, dmaVars, driverVars, isrVars, hwVars
<1>1. CASE IsrIgnores
  BY <1>1 DEF IsrIgnores
<1>2. CASE IsrEnters
  BY <1>2 DEF IsrEnters
<1>3. CASE IsrOverflow
  BY <1>3 DEF IsrOverflow
<1>4. CASE IsrResets
  <2>1. /\ isr = "reset" /\ isr' = "errors" /\ cur' = NoBuf
        /\ UNCHANGED <<vidq_active, first_flag, status, irq, capturing, reg>>
    BY <1>4 DEF IsrResets
  <2>2. reg \in Buffers \cup {NoBuf}
    BY DEF TypeOK
  <2>3. CASE vidq_active # <<>>
    <3>1. Len(vidq_active) \in Nat /\ Len(vidq_active) >= 1 /\ vidq_active[1] \in Buffers
      BY <2>3 DEF TypeOK
    <3> QED
      BY <2>1, <2>2, <3>1, NoBufAssumption
  <2>4. CASE vidq_active = <<>>
    BY <2>1, <2>2, <2>4
  <2> QED
    BY <2>3, <2>4
<1>5. CASE IsrErrors
  BY <1>5 DEF IsrErrors
<1> QED
  BY <1>1, <1>2, <1>3, <1>4, <1>5

(* vin_isr at a vsync: the head it removes is not the buffer being filled.    *)
LEMMA DmaIsrVsync ==
  ASSUME RingMode, TypeOK, DmaInv,
         VsyncKeepsHead \/ VsyncRecyclesHead \/ VsyncDeliversHead \/ VsyncSkipsHead
  PROVE  DmaInv'
<1> USE DEF dmaVars, driverVars, isrVars, hwVars
<1>1. isr = "vsync" /\ "VSYNC" \in status /\ "VSYNC" \notin irq /\ UNCHANGED irq
  BY DEF VsyncKeepsHead, VsyncRecyclesHead, VsyncDeliversHead, VsyncSkipsHead, HandsOverHead,
         DmaInv
<1>2. CASE VsyncKeepsHead
  BY <1>1, <1>2 DEF VsyncKeepsHead, DmaInv, FirstFrameInv, RingInv, VsyncPending
<1>3. CASE VsyncRecyclesHead \/ VsyncDeliversHead
  <2> DEFINE A == vidq_active
  <2>1. /\ A # <<>> /\ Len(A) # 2 /\ first_flag # 0 /\ isr' = "program"
        /\ A' = Tail(A) \/ A' = Append(Tail(A), Head(A))
        /\ UNCHANGED <<status, first_flag, capturing, reg, cur>>
    BY <1>3 DEF VsyncRecyclesHead, VsyncDeliversHead, HandsOverHead, KeepHead, TwoBuffer,
                RingMode
  <2>2. ASSUME capturing PROVE RingInv'
    <3>1. /\ Len(A) \in Nat /\ Len(A) >= 3 /\ reg = A[2] /\ cur \in {NoBuf, A[2]}
      <4>1. RingInv /\ VsyncPending
        BY <1>1, <2>1, <2>2 DEF DmaInv, VsyncPending
      <4>2. Len(A) \in Nat
        BY DEF TypeOK
      <4>3. /\ Len(A) >= 2 /\ reg = A[2]
            /\ cur \in {NoBuf, A[1], A[2]} /\ cur # A[1]
        BY <1>1, <4>1 DEF RingInv
      <4>4. \A n \in Nat : n >= 2 /\ n # 2 => n >= 3
        OBVIOUS
      <4>5. Len(A) >= 3
        BY <2>1, <4>2, <4>3, <4>4, Zenon
      <4> QED
        BY <4>2, <4>3, <4>5
    <3>2. Len(A') >= 2 /\ A'[1] = A[2]
      <4>1. /\ Head(A) \in Buffers /\ Tail(A) \in Seq(Buffers)
            /\ Len(Tail(A)) = Len(A) - 1 /\ Tail(A)[1] = A[2]
        BY <2>1, <3>1 DEF TypeOK
      <4>2. /\ Len(Append(Tail(A), Head(A))) = Len(A)
            /\ Append(Tail(A), Head(A))[1] = A[2]
        BY <3>1, <4>1
      <4> QED
        BY <2>1, <3>1, <4>1, <4>2
    <3> QED
      BY <2>1, <3>1, <3>2 DEF RingInv
  <2> QED
    BY <1>1, <2>1, <2>2 DEF DmaInv
<1>4. CASE VsyncSkipsHead
  <2>1. /\ first_flag = 0 /\ first_flag' = 0 /\ isr' = "program"
        /\ UNCHANGED <<vidq_active, status, capturing, reg, cur>>
    BY <1>4 DEF VsyncSkipsHead, HandsOverHead, RingMode
  <2> QED
    BY <1>1, <2>1 DEF DmaInv, FirstFrameInv
<1> QED
  BY <1>2, <1>3, <1>4

(* vin_isr programs the second buffer and returns.                           *)
LEMMA DmaIsrExit ==
  ASSUME RingMode, TypeOK, DmaInv, VsyncProgramsNext \/ IsrCaptureDone
  PROVE  DmaInv'
<1> USE DEF dmaVars, driverVars, isrVars, hwVars
<1>1. CASE VsyncProgramsNext
  <2>1. /\ isr = "program" /\ isr' = "capture_done" /\ "VSYNC" \notin irq'
        /\ Len(vidq_active) \in Nat
        /\ UNCHANGED <<vidq_active, status, irq, capturing, cur>>
    BY <1>1 DEF VsyncProgramsNext, DmaInv, TypeOK
  <2>2. CASE Len(vidq_active) < 2
    BY <1>1, <2>1, <2>2 DEF VsyncProgramsNext, DmaInv, FirstFrameInv, RingInv
  <2>3. CASE Len(vidq_active) >= 2
    <3>1. reg' = vidq_active[2] /\ first_flag' = 1
      BY <1>1, <2>1, <2>3 DEF VsyncProgramsNext
    <3>2. ASSUME capturing PROVE cur \in {NoBuf, vidq_active[1]}
      BY <2>1, <2>3, <3>2 DEF DmaInv, FirstFrameInv, RingInv, TypeOK
    <3> QED
      BY <2>1, <2>3, <3>1, <3>2 DEF DmaInv, RingInv, VsyncPending
  <2> QED
    BY <2>1, <2>2, <2>3
<1>2. CASE IsrCaptureDone
  <2>1. /\ isr = "capture_done" /\ isr' = "idle" /\ irq' \subseteq irq
        /\ UNCHANGED <<vidq_active, first_flag, capturing, reg, cur>>
    BY <1>2 DEF IsrCaptureDone, DeliversImage, RingMode
  <2> QED
    BY <2>1 DEF DmaInv, FirstFrameInv, RingInv, VsyncPending
<1> QED
  BY <1>1, <1>2

(* The DMA takes the address at a vsync, which finds vin_isr not between the  *)
(* removal of the head and the next address.                                *)
LEMMA DmaHw ==
  ASSUME RingMode, TypeOK, ListsInv, DmaInv, Hw
  PROVE  DmaInv'
<1> USE DEF dmaVars, driverVars, isrVars, hwVars
<1>1. CASE HwVsync
  <2>1. /\ isr \notin {"vsync", "program"} /\ cur' \in {reg, NoBuf}
        /\ UNCHANGED <<vidq_active, first_flag, isr, status, capturing, reg>>
    BY <1>1, ModeAssumption DEF HwVsync, IsrOnTime, RingMode
  <2>2. ASSUME RingInv PROVE RingInv'
    <3>1. /\ Len(vidq_active) \in Nat /\ Len(vidq_active) >= 2
          /\ vidq_active[1] \in Buffers /\ vidq_active[1] # vidq_active[2]
      BY <2>2 DEF RingInv, TypeOK, ListsInv, Distinct
    <3> QED
      BY <2>1, <2>2, <3>1, NoBufAssumption DEF RingInv
  <2> QED
    BY <2>1, <2>2 DEF DmaInv, FirstFrameInv
<1>2. ASSUME NEW bits, "VSYNC" \notin bits, irq' = irq \cup bits, FrameEnds PROVE DmaInv'
  BY <1>2 DEF FrameEnds, DmaInv, FirstFrameInv, RingInv, VsyncPending, RingMode
<1>3. CASE HwFrameEnd
  <2>1. irq' = irq \cup {}
    BY <1>3 DEF HwFrameEnd, RingMode
  <2> QED
    BY <1>2, <1>3, <2>1 DEF HwFrameEnd
<1>4. CASE HwOverflow
  BY <1>2, <1>4 DEF HwOverflow
<1>5. ASSUME NEW bit \in {"PIXEL_MISS", "LINE_MISS"}, HwMiss(bit) PROVE DmaInv'
  BY <1>2, <1>5 DEF HwMiss
<1> QED
  BY <1>1, <1>3, <1>4, <1>5 DEF Hw

-----------------------------------------------------------------------------
(***************************************************************************)
(* The theorems                                                             *)
(***************************************************************************)

(* IInv holds at the start and every step keeps it.                          *)
LEMMA IInvInductive ==
  ASSUME RingMode
  PROVE  /\ Init => IInv
         /\ IInv /\ [Next]_vars => IInv'
<1>1. Init => IInv
  BY TypeInit, EmptyElements DEF Init, IInv, ListsInv, StreamInv, StreamOpen, DmaInv, FirstFrameInv
<1>2. ASSUME IInv, [Next]_vars PROVE IInv'
  <2> USE DEF IInv
  <2>1. CASE App \/ IoctlProgress
    BY <1>2, <2>1, TypeApp, ListsApp, StreamApp, DmaApp DEF RingMode
  <2>2. CASE Isr
    <3>1. TypeOK' /\ ListsInv' /\ StreamInv'
      BY <1>2, <2>2, TypeIsrHw, ListsIsrHw, StreamIsrHw
    <3>2. DmaInv'
      BY <1>2, <2>2, DmaIsrEntry, DmaIsrVsync, DmaIsrExit DEF Isr
    <3> QED
      BY <3>1, <3>2
  <2>3. CASE Hw
    BY <1>2, <2>3, TypeIsrHw, ListsIsrHw, StreamIsrHw, DmaHw
  <2>4. ASSUME UNCHANGED <<appVars, vidq_active, streaming, stream_count, first_flag, isrVars,
                           hwVars>>
        PROVE  ListsInv' /\ StreamInv' /\ DmaInv'
    <3> USE <1>2, <2>4 DEF appVars, isrVars, hwVars, dmaVars
    <3>1. ListsInv'
      BY DEF ListsInv, Elements, Distinct
    <3>2. StreamInv'
      BY DEF StreamInv, StreamOpen
    <3>3. DmaInv'
      BY DEF DmaInv, FirstFrameInv, RingInv, VsyncPending
    <3> QED
      BY <3>1, <3>2, <3>3
  <2>5. TypeOK'
    BY <1>2, TypeStep
  <2>6. ASSUME NEW d \in Delays, DelayFrames(d) PROVE IInv'
    BY <2>4, <2>5, <2>6 DEF DelayFrames
  <2>7. CASE UNCHANGED vars
    BY <2>4, <2>5, <2>7 DEF vars, driverVars
  <2> QED
    BY <1>2, <2>1, <2>2, <2>3, <2>6, <2>7 DEF Next
<1> QED
  BY <1>1, <1>2

(* The two addresses of the DMA are among the first two of vidq_active.       *)
LEMMA DmaTargetsOwned ==
  ASSUME RingMode
  PROVE  IInv => DmaTargetsActive
<1> SUFFICES ASSUME IInv, NEW b \in DmaTargets PROVE vb[b] = "active"
  BY DEF DmaTargetsActive
<1>1. capturing /\ b \in {reg, cur} /\ b # NoBuf
  BY DEF DmaTargets
<1>2. b \in Elements(vidq_active)
  <2>1. CASE first_flag = 0
    <3>1. vidq_active # <<>> /\ b = Head(vidq_active)
      BY <1>1, <2>1 DEF IInv, DmaInv, FirstFrameInv
    <3> QED
      BY <3>1, TailElements DEF IInv, ListsInv, TypeOK
  <2>2. CASE first_flag # 0
    <3>1. /\ 1 \in DOMAIN vidq_active /\ 2 \in DOMAIN vidq_active
          /\ b = vidq_active[1] \/ b = vidq_active[2]
      BY <1>1, <2>2 DEF IInv, DmaInv, RingInv, TypeOK
    <3> QED
      BY <3>1 DEF Elements
  <2> QED
    BY <2>1, <2>2
<1> QED
  BY <1>2 DEF IInv, ListsInv

(* The DMA writes only to buffers the driver owns, for any number of buffers.  *)
THEOREM DmaNeverLeavesDriver ==
  ASSUME RingMode
  PROVE  Spec => []DmaTargetsActive
  BY DmaTargetsOwned, IInvInductive, PTL DEF Spec

-----------------------------------------------------------------------------
(***************************************************************************)
(* STREAMOFF finds the DMA off.  Only vin_isr's reset after an overflow could *)
(* turn it on behind set_stream(0).                                         *)
(***************************************************************************)
OffInv ==
  /\ dmaOn => stream_count = 1
  /\ "OVERFLOW" \notin irq /\ "OVERFLOW" \notin status
  /\ isr # "reset"

(* The ioctls turn the DMA on and off together with the count.               *)
LEMMA OffApp ==
  ASSUME "off" \notin Faults, StreamInv, OffInv, App \/ IoctlProgress
  PROVE  OffInv'
<1> USE DEF OffInv, driverVars, isrVars, hwVars, dmaVars
<1>1. CASE App
  BY <1>1 DEF App, Reqbufs, Dqbuf, Streamon, Streamoff, Close, QbufEarly, Qbuf
<1>2. CASE SetStreamOn
  BY <1>2 DEF SetStreamOn, StartDma, SetNextBufAddr, StreamInv, StreamOpen
<1>3. CASE SetStreamOnFails
  BY <1>3 DEF SetStreamOnFails, StopDma
<1>4. CASE SetStreamOff
  BY <1>4 DEF SetStreamOff, StopDma, StreamInv
<1>5. CASE SetStreamBit \/ StopStreaming \/ QueueFree
  BY <1>5 DEF SetStreamBit, StopStreaming, QueueFree
<1>6. ~SetStreamOffFails
  BY DEF SetStreamOffFails
<1> QED
  BY <1>1, <1>2, <1>3, <1>4, <1>5, <1>6 DEF IoctlProgress

(* The handler and the DMA do neither as long as no FIFO overflows.           *)
LEMMA OffIsrHw ==
  ASSUME "overflow" \notin Faults, OffInv, Isr \/ Hw
  PROVE  OffInv'
<1> USE DEF OffInv, appVars, driverVars, isrVars, hwVars, dmaVars
<1>1. CASE IsrIgnores \/ IsrEnters \/ IsrErrors
  BY <1>1 DEF IsrIgnores, IsrEnters, IsrErrors
<1>2. ~IsrOverflow /\ ~IsrResets
  BY DEF IsrOverflow, IsrResets
<1>3. CASE VsyncKeepsHead \/ VsyncRecyclesHead \/ VsyncDeliversHead
  BY <1>3 DEF VsyncKeepsHead, VsyncRecyclesHead, VsyncDeliversHead
<1>4. CASE VsyncSkipsHead \/ VsyncProgramsNext \/ IsrCaptureDone
  BY <1>4 DEF VsyncSkipsHead, VsyncProgramsNext, IsrCaptureDone
<1>5. CASE HwVsync \/ HwFrameEnd \/ HwOverflow
  BY <1>5 DEF HwVsync, HwFrameEnd, HwOverflow, FrameEnds
<1>6. ASSUME NEW bit \in {"PIXEL_MISS", "LINE_MISS"}, HwMiss(bit) PROVE OffInv'
  BY <1>6 DEF HwMiss, FrameEnds
<1> QED
  BY <1>1, <1>2, <1>3, <1>4, <1>5, <1>6 DEF Isr, Hw

(* When stop_streaming has returned the buffers, the DMA is off, in every mode *)
(* and however late vin_isr runs: set_stream(0) stops it, as without failures  *)
(* the count never passes one user.                                          *)
THEOREM StreamoffAbortsDma ==
  ASSUME {"off", "overflow"} \cap Faults = {}
  PROVE  Spec => []StopAbortsDma
<1> DEFINE AbortInv == StreamInv /\ OffInv
<1>0. "off" \notin Faults /\ "overflow" \notin Faults
  OBVIOUS
<1>1. Init => AbortInv
  BY DEF Init, StreamInv, StreamOpen, OffInv
<1>2. ASSUME TypeOK, AbortInv, [Next]_vars PROVE AbortInv'
  <2>1. CASE App \/ IoctlProgress \/ Isr \/ Hw
    BY <1>0, <1>2, <2>1, StreamApp, StreamIsrHw, OffApp, OffIsrHw
  <2>2. ASSUME NEW d \in Delays, DelayFrames(d) PROVE AbortInv'
    BY <1>2, <2>2 DEF DelayFrames, StreamInv, StreamOpen, OffInv, appVars, isrVars, hwVars, dmaVars
  <2>3. CASE UNCHANGED vars
    BY <1>2, <2>3 DEF vars, StreamInv, StreamOpen, OffInv, appVars, driverVars, isrVars, hwVars,
                      dmaVars
  <2> QED
    BY <1>2, <2>1, <2>2, <2>3 DEF Next
<1>3. AbortInv => StopAbortsDma
  BY DEF StreamInv, StreamOpen, OffInv, StopAbortsDma
<1> QED
  BY <1>1, <1>2, <1>3, TypeCorrect, PTL DEF Spec

-----------------------------------------------------------------------------
(***************************************************************************)
(* One buffer: IMAGE mode, and the one-buffer mode of the encoder link, in    *)
(* which no address is programmed after the start.                           *)
(***************************************************************************)
SingleMode ==
  /\ CaptureMode = "IMAGE" \/ DmaBufNum = "ONE"
  /\ ListsMode /\ "off" \notin Faults

(* A stream starts without a handler of the one before.                       *)
LeftInv ==
  /\ ioctl \in {"set_stream_on", "set_bit"} => isr = "idle"
  /\ ioctl = "idle" /\ ~streaming /\ (\E b \in Buffers : vb[b] # "none") => isr = "idle"
  /\ isr = "idle" => status = {}

(* The DMA stays with the head, and the head with the driver until it is done. *)
SingleInv ==
  /\ isr # "program"
  /\ capturing =>
       /\ reg # NoBuf => vidq_active # <<>> /\ reg = Head(vidq_active)
       /\ cur \in {NoBuf, reg}
       /\ "CAPTURE_DONE" \notin irq \cup status

SInv == LInv /\ StreamInv /\ LeftInv /\ SingleInv

LEMMA SingleLists ==
  ASSUME SingleMode, LInv
  PROVE  /\ ~TwoBuffer /\ ~HandsOverHead
         /\ Elements(vidq_active) = {b \in Buffers : vb[b] = "active"}
         /\ vidq_active # <<>> =>
              /\ Head(vidq_active) \in Buffers /\ vb[Head(vidq_active)] = "active"
              /\ \A b \in Buffers : Append(vidq_active, b) # <<>>
              /\ \A b \in Buffers : Head(Append(vidq_active, b)) = Head(vidq_active)
<1>1. ~TwoBuffer /\ ~HandsOverHead
  BY DEF SingleMode, ListsMode, TwoBuffer, HandsOverHead
<1>2. Elements(vidq_active) = {b \in Buffers : vb[b] = "active"}
  BY <1>1 DEF LInv, OwnersInv, OwnedByList
<1>3. ASSUME vidq_active # <<>>
      PROVE  /\ Head(vidq_active) \in Buffers /\ vb[Head(vidq_active)] = "active"
             /\ \A b \in Buffers : Append(vidq_active, b) # <<>>
             /\ \A b \in Buffers : Head(Append(vidq_active, b)) = Head(vidq_active)
  <2>1. vidq_active \in Seq(Buffers) /\ Distinct(vidq_active)
    BY DEF LInv, TypeOK, OwnersInv
  <2>2. Head(vidq_active) \in Elements(vidq_active)
    BY <1>3, <2>1, TailElements
  <2>3. ASSUME NEW b \in Buffers PROVE Append(vidq_active, b) # <<>>
    <3>1. Len(Append(vidq_active, b)) = Len(vidq_active) + 1 /\ Len(vidq_active) \in Nat
      BY <2>1
    <3>2. Len(<<>>) = 0
      OBVIOUS
    <3> QED
      BY <3>1, <3>2
  <2>4. \A b \in Buffers : Head(Append(vidq_active, b)) = Head(vidq_active)
    BY <1>3, <2>1
  <2> QED
    BY <1>2, <2>2, <2>3, <2>4
<1> QED
  BY <1>1, <1>2, <1>3

LEMMA SingleApp ==
  ASSUME SingleMode, SInv, App \/ IoctlProgress
  PROVE  LeftInv' /\ SingleInv'
<1> USE DEF appVars, isrVars, dmaVars, driverVars, hwVars
<1>0. TypeOK /\ OwnersInv /\ StreamInv /\ LeftInv /\ SingleInv /\ ~TwoBuffer
  BY SingleLists DEF SInv, LInv
<1>1. ASSUME UNCHANGED <<isr, status, irq, capturing, reg, cur, vidq_active>> PROVE SingleInv'
  BY <1>0, <1>1 DEF SingleInv
<1>2. ASSUME UNCHANGED <<isr, status>>, ~capturing' PROVE SingleInv'
  BY <1>0, <1>2 DEF SingleInv
<1>3. CASE Reqbufs
  BY <1>0, <1>1, <1>3 DEF Reqbufs, LeftInv
<1>4. CASE Dqbuf
  <2>1. vb[Head(done)] = "done" /\ Head(done) \in Buffers
    BY <1>0, <1>4, TailElements DEF Dqbuf, OwnersInv, TypeOK
  <2> QED
    BY <1>0, <1>1, <1>4, <2>1 DEF Dqbuf, LeftInv
<1>5. ASSUME NEW b \in Buffers, QbufEarly(b) PROVE LeftInv' /\ SingleInv'
  BY <1>0, <1>1, <1>5 DEF QbufEarly, LeftInv
<1>6. ASSUME NEW b \in Buffers, Qbuf(b) PROVE LeftInv' /\ SingleInv'
  <2>1. /\ vidq_active' = Append(vidq_active, b) /\ ioctl = "idle" /\ streaming
        /\ UNCHANGED <<ioctl, streaming, isr, status, irq, capturing, reg, cur>>
    BY <1>0, <1>6 DEF Qbuf
  <2>2. vidq_active # <<>> => vidq_active' # <<>> /\ Head(vidq_active') = Head(vidq_active)
    BY <2>1, SingleLists DEF SInv
  <2> QED
    BY <1>0, <2>1, <2>2 DEF LeftInv, SingleInv
<1>7. CASE Streamon
  <2>1. ~capturing
    BY <1>0, <1>7 DEF Streamon, StreamInv, StreamOpen
  <2> QED
    BY <1>0, <1>2, <1>7, <2>1 DEF Streamon, LeftInv
<1>8. CASE Streamoff \/ SetStreamBit
  BY <1>0, <1>1, <1>8 DEF Streamoff, SetStreamBit, LeftInv
<1>9. CASE SetStreamOn
  <2>1. /\ StartDma /\ isr = "idle" /\ ioctl' = "set_bit" /\ status = {}
        /\ UNCHANGED <<vidq_active, isr, status>>
    BY <1>0, <1>9 DEF SetStreamOn, StreamInv, StreamOpen, LeftInv
  <2> QED
    BY <2>1 DEF StartDma, SetNextBufAddr, LeftInv, SingleInv
<1>10. CASE SetStreamOnFails
  <2>1. ~capturing' /\ ioctl = "set_stream_on" /\ ioctl' = "set_bit" /\ UNCHANGED <<isr, status>>
    BY <1>10 DEF SetStreamOnFails, StopDma
  <2> QED
    BY <1>0, <1>2, <2>1 DEF LeftInv
<1>11. CASE SetStreamOff
  <2>1. ~capturing' /\ ioctl' = "stop" /\ UNCHANGED <<isr, status>>
    BY <1>0, <1>11 DEF SetStreamOff, StopDma, StreamInv
  <2> QED
    BY <1>0, <1>2, <2>1 DEF LeftInv
<1>12. CASE SetStreamOffFails
  BY <1>12 DEF SetStreamOffFails, SingleMode
<1>13. CASE StopStreaming
  <2>1. ~capturing' /\ ioctl' = "release" /\ UNCHANGED <<isr, status>>
    BY <1>0, <1>13 DEF StopStreaming, StreamInv, StreamOpen
  <2> QED
    BY <1>0, <1>2, <2>1 DEF LeftInv
<1>14. CASE QueueFree \/ Close
  <2>1. /\ ~capturing' /\ ioctl' = "idle" /\ (\A b \in Buffers : vb'[b] = "none")
        /\ UNCHANGED <<isr, status>>
    BY <1>0, <1>14 DEF QueueFree, Close, FreeBuffers, StreamInv, StreamOpen
  <2> QED
    BY <1>0, <1>2, <2>1 DEF LeftInv
<1> QED
  BY <1>3, <1>4, <1>5, <1>6, <1>7, <1>8, <1>9, <1>10, <1>11, <1>12, <1>13, <1>14
  DEF App, IoctlProgress

LEMMA SingleIsrHw ==
  ASSUME SingleMode, SInv, Isr \/ Hw
  PROVE  LeftInv' /\ SingleInv'
<1> USE DEF appVars, isrVars, dmaVars, driverVars, hwVars
<1>0. TypeOK /\ StreamInv /\ LeftInv /\ SingleInv /\ ~HandsOverHead
  BY SingleLists DEF SInv, LInv
<1>1. CASE IsrIgnores \/ IsrOverflow \/ IsrErrors
  BY <1>0, <1>1 DEF IsrIgnores, IsrOverflow, IsrErrors, LeftInv, SingleInv
<1>2. CASE IsrResets
  BY <1>0, <1>2 DEF IsrResets, LeftInv, SingleInv
<1>3. CASE IsrEnters
  BY <1>0, <1>3 DEF IsrEnters, LeftInv, SingleInv, StreamInv
<1>4. CASE VsyncSkipsHead
  <2>1. isr = "vsync" /\ isr' = "capture_done"
        /\ UNCHANGED <<appVars, streaming, vidq_active, status, hwVars>>
    BY <1>4 DEF VsyncSkipsHead, SingleMode
  <2> QED
    BY <1>0, <2>1 DEF LeftInv, SingleInv
<1>5. CASE IsrCaptureDone
  <2>1. /\ isr = "capture_done" /\ isr' = "idle" /\ status' = {} /\ irq' \subseteq irq
        /\ DeliversImage \/ UNCHANGED vidq_active
        /\ UNCHANGED <<ioctl, streaming, capturing, reg, cur>>
    BY <1>5 DEF IsrCaptureDone
  <2>2. capturing => ~DeliversImage
    BY <1>0 DEF SingleInv, DeliversImage
  <2>3. SingleInv'
    BY <1>0, <2>1, <2>2 DEF SingleInv
  <2> QED
    BY <2>1, <2>3 DEF LeftInv
<1>6. ~VsyncKeepsHead /\ ~VsyncRecyclesHead /\ ~VsyncDeliversHead /\ ~VsyncProgramsNext
  BY <1>0 DEF VsyncKeepsHead, VsyncRecyclesHead, VsyncDeliversHead, VsyncProgramsNext, SingleInv
<1>7. CASE HwVsync
  BY <1>0, <1>7 DEF HwVsync, LeftInv, SingleInv
<1>8. ASSUME FrameEnds, capturing' => irq' \subseteq irq \cup {"PIXEL_MISS", "LINE_MISS", "OVERFLOW"}
      PROVE  LeftInv' /\ SingleInv'
  <2>1. /\ capturing' => capturing
        /\ UNCHANGED <<appVars, vidq_active, streaming, isrVars, cur, reg>>
    BY <1>0, <1>8 DEF FrameEnds, TypeOK
  <2> QED
    BY <1>0, <1>8, <2>1 DEF LeftInv, SingleInv
<1>9. CASE HwFrameEnd
  <2>1. FrameEnds /\ (capturing' => irq' = irq)
    BY <1>9 DEF HwFrameEnd, FrameEnds
  <2> QED
    BY <1>8, <2>1
<1>10. CASE HwOverflow
  BY <1>8, <1>10 DEF HwOverflow
<1>11. ASSUME NEW bit \in {"PIXEL_MISS", "LINE_MISS"}, HwMiss(bit) PROVE LeftInv' /\ SingleInv'
  BY <1>8, <1>11 DEF HwMiss
<1> QED
  BY <1>1, <1>2, <1>3, <1>4, <1>5, <1>6, <1>7, <1>9, <1>10, <1>11 DEF Isr, Hw

LEMMA SInvInductive ==
  ASSUME SingleMode
  PROVE  /\ Init => SInv
         /\ SInv /\ [Next]_vars => SInv'
<1>1. Init => SInv
  <2>1. Init => LInv
    BY LInvInductive DEF SingleMode
  <2>2. Init => StreamInv
    BY DEF Init, StreamInv, StreamOpen
  <2>3. Init => LeftInv /\ SingleInv
    BY DEF Init, LeftInv, SingleInv
  <2> QED
    BY <2>1, <2>2, <2>3 DEF SInv
<1>2. SInv /\ [Next]_vars => SInv'
  <2> SUFFICES ASSUME SInv, [Next]_vars PROVE SInv'
    OBVIOUS
  <2>1. LInv' /\ TypeOK /\ StreamInv
    BY LInvInductive DEF SInv, LInv, SingleMode
  <2>2. CASE App \/ IoctlProgress
    BY <2>1, <2>2, StreamApp, SingleApp DEF SInv, SingleMode
  <2>3. CASE Isr \/ Hw
    BY <2>1, <2>3, StreamIsrHw, SingleIsrHw DEF SInv
  <2>4. ASSUME UNCHANGED <<appVars, vidq_active, streaming, stream_count, isrVars, hwVars>>
        PROVE  StreamInv' /\ LeftInv' /\ SingleInv'
    BY <2>4 DEF SInv, StreamInv, StreamOpen, LeftInv, SingleInv, appVars, isrVars, hwVars, dmaVars
  <2>5. ASSUME NEW d \in Delays, DelayFrames(d) PROVE SInv'
    BY <2>1, <2>4, <2>5 DEF SInv, DelayFrames
  <2>6. CASE UNCHANGED vars
    BY <2>1, <2>4, <2>6 DEF SInv, vars, driverVars
  <2> QED
    BY <2>2, <2>3, <2>5, <2>6 DEF Next
<1> QED
  BY <1>1, <1>2

LEMMA SingleTargetsOwned ==
  ASSUME SingleMode
  PROVE  SInv => DmaTargetsActive
  BY SingleLists DEF SInv, SingleInv, DmaTargetsActive, DmaTargets

(* With one buffer the DMA writes only while the driver owns it: whatever       *)
(* reset, short frame or late handler comes between the frame and its           *)
(* delivery, and wherever STREAMOFF interrupts them.                          *)
THEOREM ImageDmaNeverLeavesDriver ==
  ASSUME SingleMode
  PROVE  Spec => []DmaTargetsActive
  BY SingleTargetsOwned, SInvInductive, PTL DEF Spec
=============================================================================
