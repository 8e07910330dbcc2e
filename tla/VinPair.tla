-------------------------------- MODULE VinPair --------------------------------
(***************************************************************************)
(* Paired large-image capture (vin-video/vin_video.c, with the parts of the   *)
(* TDM, the scaler and the CSI that take large_image, and the buffers of the   *)
(* TDM).  A full frame is too wide for one ISP: after VIDIOC_SET_DMA_MERGE on  *)
(* a main node (id % 4 = 1) its ioctls also act on the node before it, the     *)
(* bind node; each node processes one half, and both DMAs write into the      *)
(* buffers of the main node.  A 1920x1080 frame needs no pair: S_PARM refuses  *)
(* the merge for it, looking at the frame size that the node has been left     *)
(* with.                                                                    *)
(*                                                                         *)
(* The walks over a pipeline are one step each here; VinPipeline has them     *)
(* step by step.  An ioctl on a pair is two steps, the bind's and its own,    *)
(* wherever no lock is held from one to the other.                           *)
(***************************************************************************)
EXTENDS Naturals, FiniteSets

CONSTANTS
  Main, Bind,   (* /dev/video1 and /dev/video0                              *)
  NoBuffer,     (* what a DMA points to that has been given no buffer        *)
  NoRequest,    (* in place of a request: the node is closed                 *)
  Requests,     (* what applications ask for: set of [video, size, merge]    *)
  FormatFirst,  (* S_FMT comes before S_PARM; csi_test_mplane.c: after it     *)
  Faults,       (* subset of {"init_bind", "init_main", "restart", "killed",  *)
                (* "two_users", "start"}                                    *)
  MaxUses,      (* bound: no S_INPUT once the sensor has so many users        *)
  MaxHalvings   (* bound: no STREAMON of a node whose width is halved so often *)

Videos == {Bind, Main}
Sizes == {"small", "full"}   (* 1920x1080 and anything else                  *)

(* Of what a receiver is given buffers for: frame size and halvings.           *)
Images == (Sizes \cup {"unset"}) \X (0 .. MaxHalvings)

ASSUME PairAssumption ==
  /\ Main # Bind /\ NoBuffer \notin Videos \cup Images /\ NoRequest \notin Requests
  /\ MaxUses \in Nat /\ MaxHalvings \in Nat
  /\ FormatFirst \in BOOLEAN
  /\ Requests \subseteq [video : Videos, size : Sizes, merge : BOOLEAN]
  /\ Faults \subseteq {"init_bind", "init_main", "restart", "killed", "two_users", "start"}

VARIABLES
  request,        (* of the application that has opened a node                *)
  did,            (* the calls it has made since, "error" if one failed       *)
  half,           (* the call whose bind half is done and whose own is not    *)
  dma_merge_mode,
  large_image,    (* of a node, its TDM_RX, scaler and ISP: 3 or not          *)
  csi_large,      (* large_image of the shared CSI and sensor                 *)
  frame,          (* cap->frame of each node, kept over close                 *)
  halved,         (* times that TDM_RX and scaler have halved their width     *)
  lpm, streaming, (* VIN_LPM, VIN_STREAM                                      *)
  vb2_streaming,  (* the vb2 queue streams and has buffers                    *)
  irq,            (* the frame interrupts of each DMA are enabled             *)
  target,         (* whose buffers each DMA writes to                         *)
  rx_bufs,        (* the image that the buffers of a TDM_RX are allocated for *)
  has_sensor,     (* cap->pipe of the node has a sensor                       *)
  tdm_link, sensor_link,
  use_count, stream_count,  (* of the subdevices that a node has for itself   *)
  sensor_use, sensor_stream (* of the sensor, MIPI and CSI                    *)

appVars == <<request, did, half>>
modeVars == <<dma_merge_mode, large_image, csi_large, frame>>
dmaVars == <<irq, target, halved, rx_bufs>>
streamVars == <<streaming, stream_count, sensor_stream>>
powerVars == <<has_sensor, use_count, sensor_use>>
linkVars == <<tdm_link, sensor_link>>
vars == <<appVars, modeVars, dmaVars, streamVars, powerVars, linkVars, lpm, vb2_streaming>>

Calls == {"merge", "input", "parm", "fmt", "on"}

TypeOK ==
  /\ request \in [Videos -> Requests \cup {NoRequest}]
  /\ did \in [Videos -> SUBSET (Calls \cup {"error"})]
  /\ half \in [Videos -> {"none", "input", "parm", "fmt"}]
  /\ dma_merge_mode \in [Videos -> BOOLEAN] /\ large_image \in [Videos -> BOOLEAN]
  /\ csi_large \in BOOLEAN /\ frame \in [Videos -> Sizes \cup {"unset"}]
  /\ halved \in [Videos -> 0 .. MaxHalvings]
  /\ lpm \in [Videos -> BOOLEAN] /\ streaming \in [Videos -> BOOLEAN]
  /\ vb2_streaming \in [Videos -> BOOLEAN] /\ irq \in [Videos -> BOOLEAN]
  /\ target \in [Videos -> Videos \cup {NoBuffer}]
  /\ rx_bufs \in [Videos -> Images \cup {NoBuffer}]
  /\ has_sensor \in [Videos -> BOOLEAN]
  /\ tdm_link \in [Videos -> BOOLEAN] /\ sensor_link \in BOOLEAN
  /\ use_count \in [Videos -> Nat] /\ stream_count \in [Videos -> 0 .. 2]
  /\ sensor_use \in Nat /\ sensor_stream \in 0 .. 4

All(x) == [v \in Videos |-> x]

(* After boot.                                                              *)
Init ==
  /\ request = All(NoRequest) /\ did = All({}) /\ half = All("none")
  /\ dma_merge_mode = All(FALSE) /\ large_image = All(FALSE) /\ csi_large = FALSE
  /\ frame = All("unset") /\ halved = All(0)
  /\ lpm = All(FALSE) /\ streaming = All(FALSE) /\ vb2_streaming = All(FALSE)
  /\ irq = All(FALSE) /\ target = All(NoBuffer) /\ rx_bufs = All(NoBuffer)
  /\ has_sensor = All(FALSE) /\ tdm_link = All(FALSE) /\ sensor_link = FALSE
  /\ use_count = All(0) /\ stream_count = All(0) /\ sensor_use = 0 /\ sensor_stream = 0

(* Mutation: the end of a use is not counted.                                *)
LessNever(count, n) == count

(* A count that is zero stays zero.                                          *)
Less(count, n) == IF count < n THEN 0 ELSE count - n

(***************************************************************************)
(* The application: open, merge, S_INPUT, then S_PARM and S_FMT in its order,  *)
(* and so again from S_FMT after each STREAMOFF.  After an error it closes.   *)
(***************************************************************************)
Needs(v, call) ==
  CASE call = "merge" -> {}
    [] call = "input" -> IF request[v].merge THEN {"merge"} ELSE {}
    [] call = "parm"  -> IF FormatFirst THEN {"fmt"} ELSE {"input"}
    [] call = "fmt"   -> IF FormatFirst THEN {"input"} ELSE {"parm"}
    [] call = "on"    -> {"parm", "fmt"}

Calling(v, call) ==
  /\ request[v] # NoRequest /\ half[v] \in {"none", call}
  /\ did[v] \cap {call, "error"} = {} /\ Needs(v, call) \subseteq did[v]

(* The nodes that a call on v acts on.                                       *)
Nodes(v) == IF v = Main /\ dma_merge_mode[v] THEN Videos ELSE {v}

(* The node whose turn it is: the bind, then the node itself.                 *)
Turn(v, call) == IF Bind \in Nodes(v) /\ half[v] # call THEN Bind ELSE v

(* One half of the call has been done: go on with the other, or return.       *)
Return(v, call, ok) ==
  LET more == ok /\ Turn(v, call) # v
  IN  /\ half' = [half EXCEPT ![v] = IF more THEN call ELSE "none"]
      /\ did' = [did EXCEPT ![v] =
           IF more THEN @ ELSE @ \cup {IF ok THEN call ELSE "error"}]
      /\ UNCHANGED request

Open(v) ==
  /\ request[v] = NoRequest
  /\ "two_users" \in Faults \/ request = All(NoRequest)
  /\ \E r \in Requests : r.video = v /\ request' = [request EXCEPT ![v] = r]
  /\ did' = [did EXCEPT ![v] = {}] /\ lpm' = [lpm EXCEPT ![v] = TRUE]
  /\ UNCHANGED <<half, modeVars, dmaVars, streamVars, powerVars, linkVars, vb2_streaming>>

SetDmaMerge(v) ==
  /\ Calling(v, "merge") /\ request[v].merge
  /\ dma_merge_mode' = [n \in Videos |-> dma_merge_mode[n] \/ n = v \/ v = Main]
  /\ did' = [did EXCEPT ![v] = @ \cup {"merge"}]
  /\ UNCHANGED <<request, half, large_image, csi_large, frame, dmaVars, streamVars, powerVars,
                 linkVars, lpm, vb2_streaming>>

(***************************************************************************)
(* Links.  Between entities of which one streams a link cannot be changed;    *)
(* a streaming sensor, or TDM_RX, is taken to be linked.                      *)
(***************************************************************************)
TdmLinkable(n) == stream_count[n] > 0 \/ tdm_link[n] \/ sensor_stream = 0

LinksOn(n) ==
  /\ sensor_link' = (sensor_link \/ sensor_stream = 0)
  /\ tdm_link' = [tdm_link EXCEPT ![n] = TdmLinkable(n) /\ (@ \/ stream_count[n] = 0)]

LinksOff(nodes) ==
  /\ tdm_link' = [n \in Videos |->
       tdm_link[n] /\ (n \in nodes => stream_count'[n] > 0 \/ sensor_stream' > 0)]
  /\ sensor_link' = (sensor_link /\ sensor_stream' > 0)

InitFails(n) == (IF n = Bind THEN "init_bind" ELSE "init_main") \in Faults

(* __vin_s_input: link, open the pipeline, look for the sensor.                *)
SInput(v) ==
  LET n == Turn(v, "input")
  IN  /\ Calling(v, "input") /\ sensor_use < MaxUses
      /\ LinksOn(n)
      /\ IF TdmLinkable(n)
         THEN /\ has_sensor' = [has_sensor EXCEPT ![n] = sensor_link' /\ tdm_link'[n]]
              /\ use_count' = [use_count EXCEPT ![n] = @ + 1]
              /\ sensor_use' = IF has_sensor'[n] THEN sensor_use + 1 ELSE sensor_use
              /\ \E found \in {has_sensor'[n], has_sensor'[n] /\ ~InitFails(n)} :
                   lpm' = [lpm EXCEPT ![n] = @ /\ ~found] /\ Return(v, "input", found)
         ELSE UNCHANGED <<powerVars, lpm>> /\ Return(v, "input", FALSE)
      /\ UNCHANGED <<modeVars, dmaVars, streamVars, vb2_streaming>>

(* Mutation: the bypass for 1920x1080 is missing.                             *)
StitchesAlways(n) == dma_merge_mode[n]

(* __vin_s_parm refuses the merge if the frame of the node is 1920x1080, the   *)
(* frame that the last S_FMT has left.                                       *)
Stitches(n) == dma_merge_mode[n] /\ frame[n] # "small"

SParm(v) ==
  LET n == Turn(v, "parm")
  IN  /\ Calling(v, "parm")
      /\ dma_merge_mode' = [dma_merge_mode EXCEPT ![n] = Stitches(n)]
      /\ large_image' = [large_image EXCEPT ![n] = Stitches(n)]
      /\ csi_large' = IF has_sensor[n] THEN Stitches(n) ELSE csi_large
      /\ Return(v, "parm", has_sensor[n])
      /\ UNCHANGED <<frame, dmaVars, streamVars, powerVars, linkVars, lpm, vb2_streaming>>

(* Mutation: the width that the last stream has halved stays.                 *)
SFmtKeepsWidth(v) ==
  LET n == Turn(v, "fmt")
      ok == ~streaming[n] /\ has_sensor[n]
  IN  /\ Calling(v, "fmt")
      /\ frame' = [frame EXCEPT ![n] = IF ok THEN request[v].size ELSE @]
      /\ Return(v, "fmt", ok)
      /\ UNCHANGED <<dma_merge_mode, large_image, csi_large, dmaVars, streamVars, powerVars,
                     linkVars, lpm, vb2_streaming>>

(* __vin_set_fmt refuses a streaming node.                                    *)
SFmt(v) ==
  LET n == Turn(v, "fmt")
      ok == ~streaming[n] /\ has_sensor[n]
  IN  /\ Calling(v, "fmt")
      /\ frame' = [frame EXCEPT ![n] = IF ok THEN request[v].size ELSE @]
      /\ halved' = [halved EXCEPT ![n] = IF ok THEN 0 ELSE @]
      /\ Return(v, "fmt", ok)
      /\ UNCHANGED <<dma_merge_mode, large_image, csi_large, irq, target, rx_bufs, streamVars,
                     powerVars, linkVars, lpm, vb2_streaming>>

(***************************************************************************)
(* Streaming                                                                *)
(***************************************************************************)

(* Mutation: the left half is not written.                                    *)
WrittenRight(t, n) == [t EXCEPT ![n] = IF vb2_streaming'[n] THEN n ELSE NoBuffer]

(* vin_set_next_buf_addr takes the first buffer of the node, or the list head  *)
(* for a buffer when the list is empty; a main node that merges gives it to    *)
(* the DMA of the bind too.                                                  *)
Written(t, n) ==
  [m \in Videos |->
     IF m = n \/ (n = Main /\ dma_merge_mode[n])
     THEN IF vb2_streaming'[n] THEN n ELSE NoBuffer ELSE t[m]]

(* The nodes whose subdevices start: those that no other user has started.     *)
Starting(v) == {n \in Nodes(v) : has_sensor[n] /\ stream_count[n] = 0}

(* Before the walks a merging node gives its buffer; in the walks a DMA of an   *)
(* ordinary image takes a buffer of its own node.                            *)
FirstTargets(v) ==
  LET given == IF dma_merge_mode[v] THEN Written(target, v) ELSE target
      takes(n) == n \in Starting(v) /\ ~large_image[n]
      bound == IF takes(Bind) THEN Written(given, Bind) ELSE given
  IN  IF takes(Main) THEN Written(bound, Main) ELSE bound

(* A sensor that is started may answer with an error.  The bind's walk is the  *)
(* first: if it has started the sensor the other one cannot fail.             *)
StartFailures(v) ==
  IF "start" \in Faults /\ sensor_stream = 0
  THEN {failed \in SUBSET Starting(v) :
          Main \in failed /\ Bind \in Starting(v) => Bind \in failed}
  ELSE {{}}

(* The walks of the bind and the node.  VIN_STREAM is set also if one fails;   *)
(* that one stops what it has started: the scaler while the TDM still runs, so  *)
(* that nobody frees the buffers, which tdm_rx_bufs_alloc keeps whatever their *)
(* size.                                                                    *)
PipelinesStart(v, failed) ==
  LET started == {n \in Nodes(v) : has_sensor[n]} \ failed
  IN  /\ streaming' = [n \in Videos |-> streaming[n] \/ n \in Nodes(v)]
      /\ stream_count' = [n \in Videos |->
           IF n \in started THEN stream_count[n] + 1 ELSE stream_count[n]]
      /\ sensor_stream' = sensor_stream + Cardinality(started)
      /\ target' = FirstTargets(v)
      /\ irq' = [n \in Videos |->
           IF n \in Starting(v) THEN n \notin failed /\ ~(n = Bind /\ dma_merge_mode[n])
           ELSE irq[n]]
      /\ halved' = [n \in Videos |->
           IF n \in Starting(v) /\ large_image[n] THEN halved[n] + 1 ELSE halved[n]]
      /\ rx_bufs' = [n \in Videos |->
           IF n \in Starting(v) /\ rx_bufs[n] = NoBuffer
           THEN <<frame[n], halved'[n]>> ELSE rx_bufs[n]]

(* A node that streams already is refused and nothing changes.                *)
Streamon(v) ==
  LET linked == ~lpm[v] \/ TdmLinkable(v)
  IN  /\ Calling(v, "on") /\ half[v] = "none" /\ ~streaming[v]
      /\ \A n \in Nodes(v) : halved[n] < MaxHalvings
      /\ vb2_streaming' = [vb2_streaming EXCEPT ![v] = TRUE]
      /\ IF lpm[v] THEN LinksOn(v) ELSE UNCHANGED linkVars
      /\ lpm' = [lpm EXCEPT ![v] = @ /\ ~linked]
      /\ IF linked
         THEN \E failed \in StartFailures(v) :
                /\ PipelinesStart(v, failed)
                /\ did' = [did EXCEPT ![v] = @ \cup {IF v \in failed THEN "error" ELSE "on"}]
         ELSE /\ did' = [did EXCEPT ![v] = @ \cup {"error"}]
              /\ UNCHANGED <<dmaVars, streamVars>>
      /\ UNCHANGED <<request, half, modeVars, powerVars>>

(* vin_isr at the start of a frame: it serves only a node with buffers.        *)
Vsync(v) ==
  /\ irq[v] /\ streaming[v] /\ vb2_streaming[v]
  /\ UNCHANGED <<appVars, modeVars, irq, halved, rx_bufs, streamVars, powerVars, linkVars, lpm,
                 vb2_streaming>>
  /\ target' = Written(target, v)

(* Mutation: the scaler's part is missing.                                   *)
FreesWithOthers(ended) == IF \E n \in Videos : stream_count'[n] > 0 THEN ended ELSE {}

(* Whose TDM buffers are freed when the streams of some nodes end: their own    *)
(* while another receiver runs; all by the scaler when none does.             *)
Frees(ended) ==
  IF ended = {} THEN {} ELSE IF \E n \in Videos : stream_count'[n] > 0 THEN ended ELSE Videos

(* set_stream(0) of the pipelines of some nodes.                              *)
PipelinesStop(nodes) ==
  LET stopped == {n \in nodes : has_sensor[n]}
      ended == {n \in stopped : stream_count[n] = 1}
  IN  /\ streaming' = [n \in Videos |-> streaming[n] /\ n \notin nodes]
      /\ stream_count' = [n \in Videos |->
           IF n \in stopped THEN Less(stream_count[n], 1) ELSE stream_count[n]]
      /\ sensor_stream' = Less(sensor_stream, Cardinality(stopped))
      /\ irq' = [n \in Videos |-> irq[n] /\ n \notin ended]
      /\ rx_bufs' = [n \in Videos |-> IF n \in Frees(ended) THEN NoBuffer ELSE rx_bufs[n]]
      /\ UNCHANGED <<target, halved>>

Streamoff(v) ==
  /\ request[v] # NoRequest /\ half[v] = "none" /\ streaming[v]
  /\ PipelinesStop(Nodes(v)) /\ LinksOff(Nodes(v))
  /\ lpm' = [lpm EXCEPT ![v] = TRUE]
  /\ vb2_streaming' = [vb2_streaming EXCEPT ![v] = FALSE]
  /\ did' = [did EXCEPT ![v] = @ \ ({"on"} \cup IF "restart" \in Faults THEN {} ELSE {"fmt"})]
  /\ UNCHANGED <<request, half, modeVars, powerVars>>

(***************************************************************************)
(* close                                                                   *)
(***************************************************************************)
(* A killed process may close before S_INPUT has followed SET_DMA_MERGE.       *)
Closing(v) ==
  /\ request[v] # NoRequest /\ half[v] = "none"
  /\ did[v] # {"merge"} \/ "killed" \in Faults
  /\ request' = [request EXCEPT ![v] = NoRequest]
  /\ did' = [did EXCEPT ![v] = {}]
  /\ lpm' = [lpm EXCEPT ![v] = TRUE]
  /\ vb2_streaming' = [vb2_streaming EXCEPT ![v] = FALSE]
  /\ UNCHANGED <<half, large_image, csi_large, frame, has_sensor>>

(* vin_close returns early if nobody uses the sensor.                         *)
CloseUnused(v) ==
  /\ ~(has_sensor[v] /\ sensor_use > 0) /\ Closing(v)
  /\ UNCHANGED <<dma_merge_mode, dmaVars, streamVars, use_count, sensor_use, linkVars>>

(* Mutation: the bind goes on streaming.                                     *)
StopsOwn(v) == IF streaming[v] THEN {v} ELSE {}

Stops(v) == IF streaming[v] THEN Nodes(v) ELSE {}

(* Mutation: only the pipeline of the node is closed.                         *)
ReleasesOwn(v) == {v}

(* The nodes whose pipelines are closed and whose merge ends.                 *)
Releases(v) == Nodes(v)

CloseUsed(v) ==
  /\ has_sensor[v] /\ sensor_use > 0 /\ Closing(v)
  /\ PipelinesStop(Stops(v))
  /\ IF lpm[v] THEN UNCHANGED linkVars ELSE LinksOff(Nodes(v))
  /\ use_count' = [n \in Videos |->
       IF n \in Releases(v) THEN Less(use_count[n], 1) ELSE use_count[n]]
  /\ sensor_use' = Less(sensor_use, Cardinality({n \in Releases(v) : has_sensor[n]}))
  /\ dma_merge_mode' = [n \in Videos |-> dma_merge_mode[n] /\ n \notin Releases(v)]

Next ==
  \E v \in Videos :
    \/ Open(v) \/ SetDmaMerge(v) \/ SInput(v) \/ SParm(v) \/ SFmt(v)
    \/ Streamon(v) \/ Vsync(v) \/ Streamoff(v)
    \/ CloseUnused(v) \/ CloseUsed(v)

Spec == Init /\ [][Next]_vars

-----------------------------------------------------------------------------
(***************************************************************************)
(* Properties                                                              *)
(***************************************************************************)

(* STREAMON has succeeded.                                                   *)
Streams(v) == "on" \in did[v]

AsksForPair(v) == v = Main /\ request[v].merge /\ request[v].size = "full"

(* A full frame for which the main node has asked a merge is captured by both  *)
(* halves ("Full-frame capture uses the A733's paired TDM/ISP large-image     *)
(* path", README.md:9): the CSI splits the lines, both nodes take exactly one  *)
(* half of the same frame, and only the main node, which has the buffers,      *)
(* raises frame interrupts.                                                  *)
FullFrameIsPaired ==
  Streams(Main) /\ AsksForPair(Main) =>
    /\ csi_large /\ irq[Main] /\ ~irq[Bind]
    /\ \A n \in Videos :
         stream_count[n] > 0 /\ frame[n] = "full" /\ large_image[n] /\ halved[n] = 1

(* Any other stream is whole, whatever pair has been captured before and also  *)
(* if it asks for a merge that 1920x1080 is refused ("A VIN workaround that    *)
(* prevents AWISP's 2-in-1 DMA merge request from making TDM program          *)
(* half-width 1128x1080 buffers for a 1920x1080 linear stream", README.md:32): *)
(* nothing of it is halved and its frames are announced.                     *)
OtherFramesAreWhole ==
  \A v \in Videos : Streams(v) /\ ~AsksForPair(v) =>
    ~csi_large /\ ~large_image[v] /\ halved[v] = 0 /\ irq[v]

(* A running DMA writes to a buffer of a queue that streams: those of the bind  *)
(* belong to another node and are freed when its queue ends.                  *)
DmaWritesQueue ==
  \A n \in Videos : stream_count[n] > 0 =>
    target[n] # NoBuffer /\ vb2_streaming[target[n]]

(* A subdevice that streams has a user that powers it: the bind is powered     *)
(* and stopped by calls on another node.                                     *)
StreamIsPowered == \A n \in Videos : stream_count[n] > 0 => use_count[n] > 0 /\ sensor_use > 0

(* A receiver of the TDM writes the raw image that it has been started for     *)
(* into buffers of that size and number (1920x1080 takes three, for 60 frames  *)
(* per second, the full frame two), whatever has been received before, and     *)
(* also after a start that has failed ("Stop it and open the camera a second   *)
(* time; the retry produces a valid frame", README.md:36).                    *)
TdmBuffersFit ==
  \A n \in Videos : stream_count[n] > 0 =>
    /\ rx_bufs[n] # NoBuffer /\ rx_bufs[n][1] = frame[n]
    /\ rx_bufs[n][2] <= halved[n]

(* When both files are closed both pipelines are off and no merge is left to   *)
(* the next application.                                                    *)
ClosedIsUnused ==
  request = All(NoRequest) =>
    /\ sensor_use = 0 /\ sensor_stream = 0
    /\ \A n \in Videos :
         use_count[n] = 0 /\ stream_count[n] = 0 /\ ~streaming[n] /\ ~dma_merge_mode[n]
=============================================================================
