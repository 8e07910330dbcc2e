------------------------------ MODULE VinPipeline ------------------------------
(***************************************************************************)
(* The pipelines of the VIN media device (vin.c and the file operations and  *)
(* ioctls of vin-video/vin_video.c that use them): several video nodes whose *)
(* pipelines share subdevices, the counts that decide who powers and starts  *)
(* a subdevice, and the links through which a node finds its sensor.         *)
(*                                                                         *)
(* graph_mutex guards the counts and the walks over a pipeline.  The stream   *)
(* walks advance one subdevice at a time, as links are tested without the     *)
(* mutex; a power walk, which nobody can see half done, is one step, and so   *)
(* is what a call does to its own node after it has released the mutex.      *)
(* Kernel 5.15: the counts are fields of struct media_entity.                *)
(***************************************************************************)
EXTENDS Integers, Sequences, FiniteSets

CONSTANTS
  Videos,     (* the video nodes                                            *)
  NoVideo,    (* nobody: owner of a free mutex, node of a shared subdevice   *)
  Kept,       (* owner of a mutex kept by a call that has returned            *)
  Shared,     (* the kinds of subdevice that all nodes share                 *)
  StreamIdx,  (* vinc->stream_idx: 2, 3 or 4, the sensor's stream_seq + 2     *)
  Offline,    (* whether the DMA works in BK_OFFLINE mode                    *)
  Faults,     (* subset of {"on", "off", "init", "power", "no_input",         *)
              (* "two_openers", "suspend"}                                  *)
  MaxInputs,  (* bound: VIDIOC_S_INPUT calls between open and close          *)
  MaxUses     (* bound: no S_INPUT when md_use_count has reached it           *)

Kinds == {"SENSOR", "MIPI", "CSI", "TDM_RX", "ISP", "SCALER", "CAPTURE"}

ASSUME NoVideoAssumption == NoVideo \notin Videos /\ Kept \notin Videos \cup {NoVideo}
ASSUME PipelineAssumption ==
  /\ IsFiniteSet(Videos)
  /\ Shared \subseteq Kinds
  /\ StreamIdx \in 2 .. 4 /\ Offline \in BOOLEAN /\ MaxInputs \in Nat \ {0}
  /\ MaxUses \in Nat
  /\ Faults \subseteq {"on", "off", "init", "power", "no_input", "two_openers", "suspend"}

(* One camera feeds all nodes that share a sensor, through one MIPI and CSI.   *)
ASSUME SharedAssumption ==
  /\ "SENSOR" \in Shared <=> "MIPI" \in Shared
  /\ "MIPI" \in Shared <=> "CSI" \in Shared
  /\ "TDM_RX" \in Shared => "CSI" \in Shared

(* The subdevice of each kind in the pipeline of a node.                     *)
Sd(v, k) == [kind |-> k, node |-> IF k \in Shared THEN NoVideo ELSE v]

Subdevs == {Sd(v, k) : v \in Videos, k \in Kinds}

VARIABLES
  pc,            (* the step that the call on each node has reached          *)
  opening,       (* vin_open calls that have found the node not busy         *)
  files,         (* open files of each node                                  *)
  selected,      (* history: pipelines opened by VIDIOC_S_INPUT since open    *)
  busy,          (* VIN_BUSY                                                 *)
  lpm,           (* VIN_LPM                                                  *)
  streaming,     (* VIN_STREAM                                               *)
  vb2_streaming, (* the vb2 queue of the node streams                        *)
  pipe,          (* the kinds with a subdevice in cap->pipe                  *)
  use_count, stream_count,  (* of each subdevice                             *)
  powered, running,         (* what the last s_power and s_stream did         *)
  ppu,           (* runtime PM usage of each node's DMA                      *)
  md_use_count,  (* vind->use_count: clocks of the whole block                *)
  sensor_link,   (* sensor to MIPI, of each sensor                           *)
  tdm_link,      (* CSI to TDM_RX, of each TDM_RX                            *)
  graph_mutex,   (* its owner                                                *)
  walk           (* the walk over the owner's pipeline                       *)

nodeVars == <<opening, files, selected, busy>>
bitVars == <<lpm, streaming, vb2_streaming>>
powerVars == <<use_count, powered, ppu, md_use_count>>
streamVars == <<stream_count, running>>
linkVars == <<sensor_link, tdm_link>>
vars == <<pc, nodeVars, bitVars, pipe, powerVars, streamVars, linkVars, graph_mutex, walk>>

Walking == {"on_walk", "off_walk", "close_walk"}
Steps == Walking \cup {"idle", "in_csi", "in_open", "on_csi", "on_lock"}

NoWalk == [on |-> FALSE, done |-> {}, undo |-> FALSE]

TypeOK ==
  /\ pc \in [Videos -> Steps]
  /\ opening \in [Videos -> 0 .. 2] /\ files \in [Videos -> 0 .. 2]
  /\ selected \in [Videos -> 0 .. MaxInputs]
  /\ busy \in [Videos -> BOOLEAN] /\ lpm \in [Videos -> BOOLEAN]
  /\ streaming \in [Videos -> BOOLEAN] /\ vb2_streaming \in [Videos -> BOOLEAN]
  /\ pipe \in [Videos -> SUBSET Kinds]
  /\ use_count \in [Subdevs -> Nat] /\ stream_count \in [Subdevs -> Nat]
  /\ powered \in [Subdevs -> BOOLEAN] /\ running \in [Subdevs -> BOOLEAN]
  /\ ppu \in [Videos -> Int] /\ md_use_count \in Nat
  /\ sensor_link \in [Subdevs -> BOOLEAN] /\ tdm_link \in [Subdevs -> BOOLEAN]
  /\ graph_mutex \in Videos \cup {NoVideo, Kept}
  /\ walk \in [on : BOOLEAN, done : SUBSET Kinds, undo : BOOLEAN]

(* Once vin_setup_default_links has run: the links of sensors and CSI are off. *)
Init ==
  /\ pc = [v \in Videos |-> "idle"]
  /\ opening = [v \in Videos |-> 0] /\ files = [v \in Videos |-> 0]
  /\ selected = [v \in Videos |-> 0] /\ busy = [v \in Videos |-> FALSE]
  /\ lpm = [v \in Videos |-> FALSE] /\ streaming = [v \in Videos |-> FALSE]
  /\ vb2_streaming = [v \in Videos |-> FALSE]
  /\ pipe = [v \in Videos |-> {"CAPTURE", "SCALER", "ISP", "TDM_RX"}]
  /\ use_count = [s \in Subdevs |-> 0] /\ stream_count = [s \in Subdevs |-> 0]
  /\ powered = [s \in Subdevs |-> FALSE] /\ running = [s \in Subdevs |-> FALSE]
  /\ ppu = [v \in Videos |-> 0] /\ md_use_count = 0
  /\ sensor_link = [s \in Subdevs |-> FALSE] /\ tdm_link = [s \in Subdevs |-> FALSE]
  /\ graph_mutex = NoVideo /\ walk = NoWalk

Goto(v, step) == pc' = [pc EXCEPT ![v] = step]

(* mutex_lock and mutex_unlock of graph_mutex.                               *)
Lock(v) == graph_mutex = NoVideo /\ graph_mutex' = v
Unlock == graph_mutex' = NoVideo /\ walk' = NoWalk

(***************************************************************************)
(* Walks over a pipeline.                                                   *)
(***************************************************************************)
(* Mutation: the CSI is started before the DMA of the node.                   *)
StartsCsiBeforeDma(on) ==
  IF on THEN <<"TDM_RX", "MIPI", "SENSOR", "ISP", "SCALER", "CSI", "CAPTURE">>
  ELSE <<"CAPTURE", "SCALER", "ISP", "TDM_RX", "CSI", "MIPI", "SENSOR">>

(* The seq table of __vin_pipeline_s_stream.                                 *)
StreamOrder(on) ==
  CASE ~on /\ ~Offline -> <<"CAPTURE", "SCALER", "ISP", "TDM_RX", "CSI", "MIPI", "SENSOR">>
    [] ~on /\ Offline  -> <<"TDM_RX", "CSI", "MIPI", "SENSOR", "ISP", "CAPTURE", "SCALER">>
    [] on /\ StreamIdx = 2 -> <<"TDM_RX", "MIPI", "ISP", "SCALER", "CAPTURE", "CSI", "SENSOR">>
    [] on /\ StreamIdx = 3 -> <<"TDM_RX", "SENSOR", "MIPI", "ISP", "SCALER", "CAPTURE", "CSI">>
    [] on /\ StreamIdx = 4 -> <<"TDM_RX", "MIPI", "SENSOR", "ISP", "SCALER", "CAPTURE", "CSI">>

(* Kind k comes before kind l.                                               *)
Before(on, k, l) ==
  LET order == StreamOrder(on)
  IN  \E i, j \in 1 .. 7 : i < j /\ order[i] = k /\ order[j] = l

(* A pipeline without a sensor is not walked (WARN_ON in set_stream).          *)
StreamWalk(v, on) ==
  [on |-> on, undo |-> FALSE, done |-> IF "SENSOR" \in pipe[v] THEN {} ELSE Kinds]

WalkEnds(v) == IF walk.undo THEN walk.done = {} ELSE pipe[v] \subseteq walk.done

(* The owner of the mutex is at its subdevice of kind k: the first one to do,  *)
(* or, in a rollback, the last one done.                                     *)
At(v, k) ==
  /\ graph_mutex = v /\ pc[v] \in Walking
  /\ LET left == IF walk.undo THEN walk.done ELSE pipe[v] \ walk.done
     IN  k \in left /\ \A l \in left \ {k} :
           IF walk.undo THEN Before(walk.on, l, k) ELSE Before(walk.on, k, l)

Advance(k) ==
  walk' = [walk EXCEPT !.done = IF walk.undo THEN @ \ {k} ELSE @ \cup {k}]

(* The direction of a step: a rollback turns back what the walk has done.    *)
TurnsOn == walk.on # walk.undo

StepFrame == UNCHANGED <<pc, nodeVars, bitVars, pipe, powerVars, linkVars, graph_mutex>>

(* Mutation: the second user of a subdevice is not counted.                   *)
CountsFirstUser(s) ==
  stream_count' = [stream_count EXCEPT ![s] =
    IF TurnsOn THEN 1 ELSE IF @ = 0 THEN 0 ELSE @ - 1]

(* Mutation: the test of zero is missing.                                    *)
CountsBelowZero(s) == stream_count' = [stream_count EXCEPT ![s] = IF TurnsOn THEN @ + 1 ELSE @ - 1]

(* __vin_subdev_set_stream: the first user starts a subdevice, the last one    *)
(* stops it.                                                                *)
CountStream(s) ==
  stream_count' = [stream_count EXCEPT ![s] =
    IF TurnsOn THEN @ + 1 ELSE IF @ = 0 THEN 0 ELSE @ - 1]

(* Mutation: s_stream is called whatever the count.                           *)
SetStreamIgnoresOthers(v, k) ==
  /\ At(v, k) /\ CountStream(Sd(v, k))
  /\ running' = [running EXCEPT ![Sd(v, k)] = TurnsOn]
  /\ Advance(k) /\ StepFrame

SetStream(v, k) ==
  LET s == Sd(v, k)
  IN  /\ At(v, k) /\ CountStream(s)
      /\ running' = [running EXCEPT ![s] =
           IF TurnsOn THEN @ \/ stream_count[s] = 0 ELSE @ /\ stream_count[s] # 1]
      /\ Advance(k) /\ StepFrame

(* The subdevices that may refuse to start: a sensor on its bus, an ISP without *)
(* memory, a scaler or DMA that another one's online mode excludes.            *)
MayRefuse == {"SENSOR", "ISP", "SCALER", "CAPTURE"}

(* s_stream fails after the count has been changed; of those that stop, only the *)
(* sensor's.  The walk turns back, beginning with the subdevice that failed; in  *)
(* a rollback errors are ignored.                                            *)
SetStreamFails(v, k) ==
  LET s == Sd(v, k)
  IN  /\ At(v, k)
      /\ \/ TurnsOn /\ k \in MayRefuse /\ "on" \in Faults /\ stream_count[s] = 0
         \/ ~TurnsOn /\ k = "SENSOR" /\ "off" \in Faults /\ stream_count[s] = 1
      /\ CountStream(s)
      /\ IF walk.undo THEN Advance(k)
         ELSE walk' = [walk EXCEPT !.undo = TRUE, !.done = @ \cup {k}]
      /\ UNCHANGED running /\ StepFrame

(***************************************************************************)
(* Power.  __vin_subdev_set_power: the first user powers a subdevice up, the   *)
(* last one powers it down.  TDM_RX has no power of its own.                   *)
(***************************************************************************)
ToPower(v) == {Sd(v, k) : k \in pipe'[v] \ {"TDM_RX"}}

PowerUp(v) ==
  /\ use_count' = [s \in Subdevs |-> IF s \in ToPower(v) THEN use_count[s] + 1 ELSE use_count[s]]
  /\ powered' = [s \in Subdevs |-> powered[s] \/ (s \in ToPower(v) /\ use_count[s] = 0)]
  /\ ppu' = [ppu EXCEPT ![v] = @ + 1]
  /\ md_use_count' = md_use_count + 1

(* Mutation: a subdevice is powered down in spite of its other users.          *)
PowerDownIgnoresOthers(v) ==
  /\ use_count' = [s \in Subdevs |->
       IF s \in ToPower(v) /\ use_count[s] > 0 THEN use_count[s] - 1 ELSE use_count[s]]
  /\ powered' = [s \in Subdevs |-> powered[s] /\ s \notin ToPower(v)]
  /\ ppu' = [ppu EXCEPT ![v] = @ - 1]
  /\ md_use_count' = IF md_use_count = 0 THEN 0 ELSE md_use_count - 1

PowerDown(v) ==
  /\ use_count' = [s \in Subdevs |->
       IF s \in ToPower(v) /\ use_count[s] > 0 THEN use_count[s] - 1 ELSE use_count[s]]
  /\ powered' = [s \in Subdevs |-> powered[s] /\ ~(s \in ToPower(v) /\ use_count[s] = 1)]
  /\ ppu' = [ppu EXCEPT ![v] = @ - 1]
  /\ md_use_count' = IF md_use_count = 0 THEN 0 ELSE md_use_count - 1

(***************************************************************************)
(* Links.  The media core refuses (-EBUSY) to change a link between entities *)
(* of which one streams; setting it to what it is already succeeds.           *)
(***************************************************************************)
SensorLinked(v) == sensor_link[Sd(v, "SENSOR")]
TdmLinked(v) == tdm_link[Sd(v, "TDM_RX")]
Streams(v, k) == stream_count[Sd(v, k)] >= 1

(* __vin_sensor_setup_link(1): a streaming sensor is taken to be linked, else  *)
(* media_entity_setup_link takes graph_mutex for a moment.                   *)
SensorLinkOn(v) ==
  \/ Streams(v, "SENSOR") /\ UNCHANGED sensor_link
  \/ /\ ~Streams(v, "SENSOR") /\ graph_mutex = NoVideo
     /\ SensorLinked(v) \/ ~Streams(v, "MIPI")
     /\ sensor_link' = [sensor_link EXCEPT ![Sd(v, "SENSOR")] = TRUE]

SensorLinkFails(v) ==
  /\ ~Streams(v, "SENSOR") /\ graph_mutex = NoVideo
  /\ ~SensorLinked(v) /\ Streams(v, "MIPI")

(* __csi_isp_setup_link(1) tests the TDM_RX and does not take the mutex.       *)
TdmLinkOn(v) ==
  \/ Streams(v, "TDM_RX") /\ UNCHANGED tdm_link
  \/ /\ ~Streams(v, "TDM_RX")
     /\ TdmLinked(v) \/ ~Streams(v, "CSI")
     /\ tdm_link' = [tdm_link EXCEPT ![Sd(v, "TDM_RX")] = TRUE]

TdmLinkFails(v) == ~Streams(v, "TDM_RX") /\ ~TdmLinked(v) /\ Streams(v, "CSI")

(* Both with en = 0; a refusal is only logged.                               *)
LinksOff(v) ==
  /\ tdm_link' = [tdm_link EXCEPT ![Sd(v, "TDM_RX")] =
       @ /\ (Streams(v, "TDM_RX") \/ Streams(v, "CSI"))]
  /\ sensor_link' = [sensor_link EXCEPT ![Sd(v, "SENSOR")] =
       @ /\ (Streams(v, "SENSOR") \/ Streams(v, "MIPI"))]

(* vin_md_prepare_pipeline follows the enabled links up to the sensor.        *)
Prepare(v) ==
  {"CAPTURE", "SCALER", "ISP", "TDM_RX"}
    \cup (IF TdmLinked(v) THEN {"CSI", "MIPI"} ELSE {})
    \cup (IF TdmLinked(v) /\ SensorLinked(v) THEN {"SENSOR"} ELSE {})

(***************************************************************************)
(* open                                                                    *)
(***************************************************************************)

(* vin_open tests VIN_BUSY before it takes the mutex that guards its setting. *)
OpenTest(v) ==
  /\ ~busy[v]
  /\ opening[v] + files[v] < (IF "two_openers" \in Faults THEN 2 ELSE 1)
  /\ opening' = [opening EXCEPT ![v] = @ + 1]
  /\ UNCHANGED <<pc, files, selected, busy, bitVars, pipe, powerVars, streamVars, linkVars,
                 graph_mutex, walk>>

OpenLocked(v) ==
  /\ opening[v] > 0 /\ graph_mutex = NoVideo
  /\ opening' = [opening EXCEPT ![v] = @ - 1]
  /\ files' = [files EXCEPT ![v] = @ + 1]
  /\ busy' = [busy EXCEPT ![v] = TRUE]
  /\ lpm' = [lpm EXCEPT ![v] = TRUE]
  /\ UNCHANGED <<pc, selected, streaming, vb2_streaming, pipe, powerVars, streamVars, linkVars,
                 graph_mutex, walk>>

(***************************************************************************)
(* VIDIOC_S_INPUT: link the sensor, open the pipeline, initialise the sensor. *)
(* The ioctls of a node hold vdev->lock, so there is one of them at a time.   *)
(***************************************************************************)
LinkFrame == UNCHANGED <<nodeVars, streaming, pipe, powerVars, streamVars, graph_mutex, walk>>

SInput(v) ==
  /\ pc[v] = "idle" /\ files[v] > 0
  /\ selected[v] < MaxInputs /\ md_use_count < MaxUses
  /\ \/ SensorLinkOn(v) /\ Goto(v, "in_csi")
     \/ SensorLinkFails(v) /\ UNCHANGED <<pc, sensor_link>>
  /\ UNCHANGED <<lpm, vb2_streaming, tdm_link>> /\ LinkFrame

SInputLinksTdm(v) ==
  /\ pc[v] = "in_csi"
  /\ \/ TdmLinkOn(v) /\ Goto(v, "in_open")
     \/ TdmLinkFails(v) /\ UNCHANGED tdm_link /\ Goto(v, "idle")
  /\ UNCHANGED <<lpm, vb2_streaming, sensor_link>> /\ LinkFrame

(* sensor_init of the imx477 checks the chip id; without a sensor in the       *)
(* pipeline, or with another chip, the ioctl fails and leaves the power on.   *)
SensorInit(v) ==
  \/ "SENSOR" \in pipe'[v] /\ lpm' = [lpm EXCEPT ![v] = FALSE]
  \/ ("SENSOR" \notin pipe'[v] \/ "init" \in Faults) /\ UNCHANGED lpm

PipelineOpen(v) ==
  /\ pc[v] = "in_open" /\ graph_mutex = NoVideo
  /\ pipe' = [pipe EXCEPT ![v] = Prepare(v)]
  /\ PowerUp(v) /\ SensorInit(v)
  /\ selected' = [selected EXCEPT ![v] = @ + 1]
  /\ Goto(v, "idle")
  /\ UNCHANGED <<opening, files, busy, streaming, vb2_streaming, streamVars, linkVars,
                 graph_mutex, walk>>

(* s_power of a sensor that nobody uses fails.  The power walk turns back, but    *)
(* the clocks and the PPU stay on, and the ioctl returns with the mutex.         *)
PipelineOpenFails(v) ==
  /\ pc[v] = "in_open" /\ graph_mutex = NoVideo
  /\ "power" \in Faults
  /\ pipe' = [pipe EXCEPT ![v] = Prepare(v)]
  /\ "SENSOR" \in pipe'[v] /\ use_count[Sd(v, "SENSOR")] = 0
  /\ ppu' = [ppu EXCEPT ![v] = @ + 1] /\ md_use_count' = md_use_count + 1
  /\ graph_mutex' = Kept /\ Goto(v, "idle")
  /\ UNCHANGED <<nodeVars, bitVars, use_count, powered, streamVars, linkVars, walk>>

(***************************************************************************)
(* VIDIOC_STREAMON: start the vb2 queue, link again after low-power mode,      *)
(* start the pipeline.                                                      *)
(***************************************************************************)

(* A format needs a sensor in the pipeline; a careful application also calls  *)
(* VIDIOC_S_INPUT first.                                                    *)
Streamon(v) ==
  /\ pc[v] = "idle" /\ files[v] > 0 /\ ~streaming[v]
  /\ "SENSOR" \in pipe[v]
  /\ selected[v] > 0 \/ "no_input" \in Faults
  /\ vb2_streaming' = [vb2_streaming EXCEPT ![v] = TRUE]
  /\ \/ ~lpm[v] /\ UNCHANGED sensor_link /\ Goto(v, "on_lock")
     \/ lpm[v] /\ SensorLinkOn(v) /\ Goto(v, "on_csi")
     \/ lpm[v] /\ SensorLinkFails(v) /\ UNCHANGED <<pc, sensor_link>>
  /\ UNCHANGED <<lpm, tdm_link>> /\ LinkFrame

StreamonLinksTdm(v) ==
  /\ pc[v] = "on_csi"
  /\ \/ TdmLinkOn(v) /\ Goto(v, "on_lock") /\ lpm' = [lpm EXCEPT ![v] = FALSE]
     \/ TdmLinkFails(v) /\ Goto(v, "idle") /\ UNCHANGED <<lpm, tdm_link>>
  /\ UNCHANGED <<vb2_streaming, sensor_link>> /\ LinkFrame

StreamonLocked(v) ==
  /\ pc[v] = "on_lock" /\ Lock(v)
  /\ walk' = StreamWalk(v, TRUE) /\ Goto(v, "on_walk")
  /\ UNCHANGED <<nodeVars, bitVars, pipe, powerVars, streamVars, linkVars>>

(* Mutation: VIN_STREAM is set only if the pipeline has started.              *)
StreamonDoneIfStarted(v) ==
  /\ pc[v] = "on_walk" /\ WalkEnds(v)
  /\ streaming' = [streaming EXCEPT ![v] = ~walk.undo]
  /\ Unlock /\ Goto(v, "idle")
  /\ UNCHANGED <<nodeVars, lpm, vb2_streaming, pipe, powerVars, streamVars, linkVars>>

(* Mutation: the mutex is kept when the walk has been rolled back.             *)
StreamonDoneLocked(v) ==
  /\ pc[v] = "on_walk" /\ WalkEnds(v)
  /\ streaming' = [streaming EXCEPT ![v] = TRUE]
  /\ IF walk.undo THEN UNCHANGED <<graph_mutex, walk>> ELSE Unlock
  /\ Goto(v, "idle")
  /\ UNCHANGED <<nodeVars, lpm, vb2_streaming, pipe, powerVars, streamVars, linkVars>>

(* VIN_STREAM is set whatever set_stream returned.                           *)
StreamonDone(v) ==
  /\ pc[v] = "on_walk" /\ WalkEnds(v)
  /\ streaming' = [streaming EXCEPT ![v] = TRUE]
  /\ Unlock /\ Goto(v, "idle")
  /\ UNCHANGED <<nodeVars, lpm, vb2_streaming, pipe, powerVars, streamVars, linkVars>>

(***************************************************************************)
(* VIDIOC_STREAMOFF                                                         *)
(***************************************************************************)
Streamoff(v) ==
  /\ pc[v] = "idle" /\ files[v] > 0 /\ streaming[v] /\ Lock(v)
  /\ streaming' = [streaming EXCEPT ![v] = FALSE]
  /\ walk' = StreamWalk(v, FALSE) /\ Goto(v, "off_walk")
  /\ UNCHANGED <<nodeVars, lpm, vb2_streaming, pipe, powerVars, streamVars, linkVars>>

(* Enter low-power mode and take the links down; then stop the vb2 queue.      *)
StreamoffDone(v) ==
  /\ pc[v] = "off_walk" /\ WalkEnds(v)
  /\ lpm' = [lpm EXCEPT ![v] = TRUE]
  /\ LinksOff(v)
  /\ vb2_streaming' = [vb2_streaming EXCEPT ![v] = FALSE]
  /\ Unlock /\ Goto(v, "idle")
  /\ UNCHANGED <<nodeVars, streaming, pipe, powerVars, streamVars>>

(* Mutation: the sensor counts as used from the second user on.               *)
UsesTwice(v) == "SENSOR" \in pipe[v] /\ use_count[Sd(v, "SENSOR")] > 1

(***************************************************************************)
(* close.  vin_close looks at the use count of the sensor that cap->pipe      *)
(* names, which may be left from an earlier open and is shared by the nodes.  *)
(***************************************************************************)
Uses(v) == "SENSOR" \in pipe[v] /\ use_count[Sd(v, "SENSOR")] > 0

CloseOf(v) ==
  /\ pc[v] = "idle" /\ files[v] > 0
  /\ selected[v] > 0 \/ "no_input" \in Faults

(* vb2_fop_release and the end of vin_close.                                 *)
Released(v) ==
  /\ files' = [files EXCEPT ![v] = @ - 1]
  /\ busy' = [busy EXCEPT ![v] = FALSE] /\ lpm' = [lpm EXCEPT ![v] = TRUE]
  /\ selected' = [selected EXCEPT ![v] = 0]
  /\ vb2_streaming' = [vb2_streaming EXCEPT ![v] = FALSE]
  /\ Goto(v, "idle") /\ UNCHANGED opening

(* The second file of a node is closed: nothing is released.                  *)
CloseClosed(v) ==
  /\ CloseOf(v) /\ ~busy[v]
  /\ files' = [files EXCEPT ![v] = @ - 1]
  /\ UNCHANGED <<pc, opening, selected, busy, bitVars, pipe, powerVars, streamVars, linkVars,
                 graph_mutex, walk>>

(* A node found unused keeps its VIN_STREAM.                                  *)
CloseUnused(v) ==
  /\ CloseOf(v) /\ busy[v] /\ graph_mutex = NoVideo /\ ~Uses(v)
  /\ Released(v)
  /\ UNCHANGED <<streaming, pipe, powerVars, streamVars, linkVars, graph_mutex, walk>>

CloseStreaming(v) ==
  /\ CloseOf(v) /\ busy[v] /\ Uses(v) /\ streaming[v] /\ Lock(v)
  /\ streaming' = [streaming EXCEPT ![v] = FALSE]
  /\ walk' = StreamWalk(v, FALSE) /\ Goto(v, "close_walk")
  /\ UNCHANGED <<nodeVars, lpm, vb2_streaming, pipe, powerVars, streamVars, linkVars>>

(* Once nothing streams: take the links down unless that has been done, power *)
(* down, release the mutex and the node.                                     *)
PipelineClose(v) ==
  /\ IF lpm[v] THEN UNCHANGED linkVars ELSE LinksOff(v)
  /\ UNCHANGED pipe /\ PowerDown(v)
  /\ Released(v) /\ Unlock
  /\ UNCHANGED <<streaming, streamVars>>

(* Mutation: the pipeline is closed without a look at VIN_STREAM.              *)
CloseForgetsStream(v) ==
  CloseOf(v) /\ busy[v] /\ Uses(v) /\ graph_mutex = NoVideo /\ PipelineClose(v)

CloseStopped(v) ==
  CloseOf(v) /\ busy[v] /\ Uses(v) /\ ~streaming[v] /\ graph_mutex = NoVideo /\ PipelineClose(v)

CloseWalked(v) == pc[v] = "close_walk" /\ WalkEnds(v) /\ PipelineClose(v)

(* System sleep, with all tasks frozen between their calls: vin_core_suspend   *)
(* sets VIN_LPM of each node and vin_core_resume clears it, whatever it was.   *)
(* A sleep that another device refuses has done so for some of the nodes only. *)
SuspendResume(slept) ==
  /\ "suspend" \in Faults
  /\ \A v \in Videos : pc[v] = "idle" /\ opening[v] = 0
  /\ lpm' = [v \in Videos |-> lpm[v] /\ v \notin slept]
  /\ UNCHANGED <<pc, nodeVars, streaming, vb2_streaming, pipe, powerVars, streamVars, linkVars,
                 graph_mutex, walk>>

(* What goes on by itself once a call has been made.                         *)
Progress(v) ==
  \/ OpenLocked(v)
  \/ \E k \in Kinds : SetStream(v, k) \/ SetStreamFails(v, k)
  \/ SInputLinksTdm(v) \/ PipelineOpen(v) \/ PipelineOpenFails(v)
  \/ StreamonLinksTdm(v) \/ StreamonLocked(v) \/ StreamonDone(v)
  \/ StreamoffDone(v) \/ CloseWalked(v)

Call(v) ==
  \/ OpenTest(v) \/ SInput(v) \/ Streamon(v) \/ Streamoff(v)
  \/ CloseClosed(v) \/ CloseUnused(v) \/ CloseStreaming(v) \/ CloseStopped(v)

Next ==
  \/ \E v \in Videos : Call(v) \/ Progress(v)
  \/ \E slept \in SUBSET Videos : SuspendResume(slept)

Spec == Init /\ [][Next]_vars

(* A call that has been made goes on; the mutex, which is handed to its        *)
(* waiters in turn, is granted to each of them in the end.                    *)
FairSpec == Spec /\ \A v \in Videos : SF_vars(Progress(v))

-----------------------------------------------------------------------------
(***************************************************************************)
(* Properties                                                              *)
(***************************************************************************)

(* No subdevice is started, or left running, without power and clock: touching *)
(* a register of an unclocked block stops the bus.  The use counts decide     *)
(* about power and the stream counts about running, in different orders and   *)
(* for several nodes; TDM_RX has only the clock of the whole block.           *)
RunningIsPowered ==
  \A s \in Subdevs : running[s] => md_use_count > 0 /\ (powered[s] \/ s.kind = "TDM_RX")

(* Every subdevice of a streaming node runs, whatever the nodes that share     *)
(* some of them do: from the end of STREAMON to the start of STREAMOFF.       *)
StreamingRuns ==
  \A v \in Videos : streaming[v] => \A k \in pipe[v] : running[Sd(v, k)]

(* The DMA of a node runs only while its vb2 queue does: the end of the queue   *)
(* frees the buffers the DMA writes to.                                      *)
DmaHasQueue == \A v \in Videos : running[Sd(v, "CAPTURE")] => vb2_streaming[v]

(* With the mutex free, the counts are the numbers of users and say what the  *)
(* hardware does, after rollbacks too.                                       *)
Users(s, on) == {v \in Videos : on[v] /\ s.kind \in pipe[v] /\ s = Sd(v, s.kind)}

CountsAgree ==
  graph_mutex = NoVideo =>
    \A s \in Subdevs :
      /\ stream_count[s] = Cardinality(Users(s, streaming))
      /\ running[s] = (stream_count[s] > 0) /\ powered[s] = (use_count[s] > 0)

(* When every file is closed everything is off ("power off the ppu").         *)
ClosedIsOff ==
  (\A v \in Videos : files[v] = 0) /\ graph_mutex = NoVideo =>
    /\ md_use_count = 0 /\ \A v \in Videos : ppu[v] = 0
    /\ \A s \in Subdevs :
         use_count[s] = 0 /\ stream_count[s] = 0 /\ ~powered[s] /\ ~running[s]

(* An open node that is not in low-power mode has been through S_INPUT: its    *)
(* sensor is powered, and so is its DMA, whose registers the flip controls     *)
(* write after they have tested VIN_LPM and nothing else.                     *)
AwakeIsPowered ==
  \A v \in Videos : busy[v] /\ ~lpm[v] =>
    powered[Sd(v, "SENSOR")] /\ powered[Sd(v, "CAPTURE")] /\ ppu[v] > 0

(* Frames flow once sensor and CSI both run; by then everything behind them    *)
(* must run, in each of the three start orders.                              *)
SourceStartsLast ==
  [][\A v \in Videos :
       LET flows(r) == r[Sd(v, "SENSOR")] /\ r[Sd(v, "CSI")]
       IN  (\E k \in Kinds : SetStream(v, k)) /\ ~flows(running) /\ flows(running')
             => \A k \in pipe[v] : running'[Sd(v, k)]]_vars

(* A node whose STREAMON failed is not left with a running vb2 queue that      *)
(* STREAMOFF then refuses to stop ("video%d has already stream off").         *)
QueueFollowsStream ==
  \A v \in Videos : pc[v] = "idle" /\ vb2_streaming[v] => streaming[v]

(* Every call returns, through each walk, rollback and early exit, unless a       *)
(* sensor could not be powered: that exit of S_INPUT keeps graph_mutex for good.  *)
CallsReturn == \A v \in Videos : pc[v] # "idle" ~> pc[v] = "idle" \/ graph_mutex = Kept
=============================================================================
