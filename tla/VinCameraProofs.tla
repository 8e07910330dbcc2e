---------------------------- MODULE VinCameraProofs ----------------------------
(***************************************************************************)
(* What an open node finds powered, and, where every node has a camera of its *)
(* own, that every start works, in the order meant, and every close leaves     *)
(* nothing behind.                                                          *)
(***************************************************************************)
EXTENDS VinCountsProofs

(* What has left low-power mode has selected an input, with a sensor; a selected *)
(* input has taken a reference to the node's power domain.                     *)
AwakeInv ==
  \A v \in Videos :
    /\ busy[v] /\ ~lpm[v] => selected[v] > 0 /\ "SENSOR" \in pipe[v]
    /\ "CAPTURE" \in pipe[v]
    /\ ppu[v] >= selected[v]

(* The ISP, the scaler and the DMA may be shared, the camera is not, and nobody  *)
(* opens a node twice.                                                       *)
CameraMode == CountMode /\ "SENSOR" \notin Shared /\ "two_openers" \notin Faults

(* One file at a time holds the node and all that it has selected.              *)
FileInv ==
  \A v \in Videos :
    /\ opening[v] + files[v] <= 1
    /\ files[v] > 0 => busy[v]
    /\ selected[v] > 0 \/ pc[v] # "idle" => files[v] > 0

(* Nobody else streams through the links of a node, so that none is refused.    *)
LinkInv ==
  \A v \in Videos :
    /\ pc[v] \in {"in_csi", "in_open"} => SensorLinked(v)
    /\ pc[v] = "in_open" => TdmLinked(v)
    /\ selected[v] > 0 => "SENSOR" \in pipe[v]

(* The use counts are exact, and those of the clocks and of the PPUs too until a  *)
(* sensor that cannot be powered leaves them, and the mutex, taken.             *)
ExactInv ==
  /\ \A s \in Subdevs : use_count[s] = Cardinality(PowerUsers(s))
  /\ graph_mutex # Kept => /\ md_use_count = Cardinality(Selectors)
                          /\ \A v \in Videos : ppu[v] = selected[v]

(* A vb2 queue streams only for a node that streams, or starts or stops to.       *)
QueueInv == \A v \in Videos : pc[v] \notin StreamCalls /\ vb2_streaming[v] => streaming[v]

CameraInv == CountInv /\ FileInv /\ LinkInv /\ ExactInv /\ QueueInv

(* The steps of a call that neither open nor close a pipeline.                  *)
Moves(v) ==
  \/ SInput(v) \/ SInputLinksTdm(v)
  \/ Streamon(v) \/ StreamonLinksTdm(v) \/ StreamonLocked(v) \/ StreamonDone(v)
  \/ Streamoff(v) \/ StreamoffDone(v) \/ CloseStreaming(v)
  \/ \E k \in Kinds : SetStream(v, k) \/ SetStreamFails(v, k)

LEMMA MovesKeep ==
  ASSUME CountInv, NEW v \in Videos, Moves(v)
  PROVE  /\ UNCHANGED <<nodeVars, pipe, powerVars>>
         /\ \A u \in Videos \ {v} : /\ pc'[u] = pc[u] /\ streaming'[u] = streaming[u]
                                   /\ vb2_streaming'[u] = vb2_streaming[u]
         /\ files[v] > 0 \/ pc[v] # "idle"
         /\ graph_mutex = Kept => graph_mutex' = Kept
<1> USE DEF CountInv, TypeInv, TypeOK, Goto, LinkFrame, bitVars
<1>1. (\E u \in Videos \cup {NoVideo} : graph_mutex = u) \/ UNCHANGED graph_mutex
  <2>1. CASE StreamonLocked(v) \/ Streamoff(v) \/ CloseStreaming(v)
    BY <2>1 DEF StreamonLocked, Streamoff, CloseStreaming, Lock
  <2>2. CASE StreamonDone(v) \/ StreamoffDone(v)
    BY <2>2 DEF StreamonDone, StreamoffDone, CallInv, Walking
  <2>3. CASE ~(\/ StreamonLocked(v) \/ Streamoff(v) \/ CloseStreaming(v)
              \/ StreamonDone(v) \/ StreamoffDone(v))
    BY <2>3 DEF Moves, SInput, SInputLinksTdm, Streamon, StreamonLinksTdm, SetStream,
                SetStreamFails, StepFrame
  <2> QED
    BY <2>1, <2>2, <2>3
<1>2. graph_mutex = Kept => graph_mutex' = Kept
  BY <1>1, NoVideoAssumption
<1>3. CASE SInput(v) \/ SInputLinksTdm(v)
  BY <1>2, <1>3 DEF SInput, SInputLinksTdm
<1>4. CASE Streamon(v) \/ StreamonLinksTdm(v)
  BY <1>2, <1>4 DEF Streamon, StreamonLinksTdm
<1>5. CASE StreamonLocked(v) \/ StreamonDone(v)
  BY <1>2, <1>5 DEF StreamonLocked, StreamonDone
<1>6. CASE Streamoff(v) \/ StreamoffDone(v) \/ CloseStreaming(v)
  BY <1>2, <1>6 DEF Streamoff, StreamoffDone, CloseStreaming, CloseOf
<1>7. CASE \E k \in Kinds : SetStream(v, k) \/ SetStreamFails(v, k)
  BY <1>2, <1>7 DEF SetStreamFails, SetStream, StepFrame, At, Walking
<1> QED
  BY <1>3, <1>4, <1>5, <1>6, <1>7 DEF Moves

LEMMA NextSteps ==
  ASSUME Next
  PROVE  \/ \E v \in Videos :
              \/ Moves(v) \/ PipelineOpen(v) \/ PipelineOpenFails(v)
              \/ OpenTest(v) \/ OpenLocked(v)
              \/ CloseClosed(v) \/ CloseUnused(v) \/ CloseStopped(v) \/ CloseWalked(v)
         \/ \E slept \in SUBSET Videos : SuspendResume(slept)
  BY DEF Next, Call, Progress, Moves

-----------------------------------------------------------------------------
(* What is awake is powered.                                                 *)

LEMMA AwakeMoves ==
  ASSUME CountInv, AwakeInv, NEW v \in Videos, Moves(v)
  PROVE  AwakeInv'
<1>1. UNCHANGED <<busy, selected, pipe, ppu>>
  BY MovesKeep DEF nodeVars, powerVars
<1>2. \A u \in Videos : ~lpm'[u] => ~lpm[u] \/ (u = v /\ pc[v] = "on_csi")
  <2> USE DEF CountInv, TypeInv, TypeOK
  <2>1. CASE StreamonLinksTdm(v) \/ StreamoffDone(v)
    BY <2>1 DEF StreamonLinksTdm, StreamoffDone
  <2>2. CASE ~(StreamonLinksTdm(v) \/ StreamoffDone(v))
    <3>1. UNCHANGED lpm
      BY <2>2 DEF Moves, SInput, SInputLinksTdm, Streamon, StreamonLocked, StreamonDone, Streamoff,
                  CloseStreaming, SetStreamFails, SetStream, StepFrame, bitVars
    <3> QED
      BY <3>1
  <2> QED
    BY <2>1, <2>2
<1>3. pc[v] = "on_csi" => selected[v] > 0 /\ "SENSOR" \in pipe[v]
  BY DEF CountInv, CallInv, StreamCalls
<1> QED
  BY <1>1, <1>2, <1>3 DEF AwakeInv

LEMMA AwakeOpenClose ==
  ASSUME CountMode, CountInv, AwakeInv, NEW v \in Videos,
         \/ PipelineOpen(v) \/ PipelineOpenFails(v) \/ OpenTest(v) \/ OpenLocked(v)
         \/ CloseClosed(v) \/ CloseUnused(v) \/ CloseStopped(v) \/ CloseWalked(v)
  PROVE  AwakeInv'
<1> USE DEF CountInv, TypeInv, TypeOK
<1>1. CASE OpenTest(v) \/ OpenLocked(v) \/ CloseClosed(v)
  <2>1. /\ UNCHANGED <<selected, pipe, ppu>>
        /\ \A u \in Videos : busy'[u] /\ ~lpm'[u] => busy[u] /\ ~lpm[u]
    BY <1>1 DEF OpenTest, OpenLocked, CloseClosed, bitVars, powerVars
  <2> QED
    BY <2>1 DEF AwakeInv
<1>2. CASE PipelineOpen(v)
  <2>1. /\ \A u \in Videos \ {v} : /\ selected'[u] = selected[u] /\ pipe'[u] = pipe[u]
                                  /\ lpm'[u] = lpm[u] /\ ppu'[u] = ppu[u]
        /\ selected'[v] = selected[v] + 1 /\ ppu'[v] = ppu[v] + 1 /\ UNCHANGED busy
        /\ pipe'[v] = Prepare(v) /\ ("SENSOR" \in pipe'[v] \/ lpm'[v] = lpm[v])
    BY <1>2 DEF PipelineOpen, PowerUp, SensorInit
  <2>2. selected[v] = 0 /\ selected[v] \in Nat /\ ppu[v] \in Int
    BY <1>2 DEF PipelineOpen, CallInv
  <2>3. "CAPTURE" \in pipe'[v]
    BY <2>1 DEF Prepare
  <2> QED
    BY <2>1, <2>2, <2>3 DEF AwakeInv
<1>3. CASE PipelineOpenFails(v)
  <2>1. /\ \A u \in Videos \ {v} : pipe'[u] = pipe[u] /\ ppu'[u] = ppu[u]
        /\ ppu'[v] = ppu[v] + 1 /\ UNCHANGED <<busy, lpm, selected>>
        /\ "SENSOR" \in pipe'[v] /\ pipe'[v] = Prepare(v)
    BY <1>3 DEF PipelineOpenFails, nodeVars, bitVars
  <2>2. selected[v] \in Nat /\ ppu[v] \in Int /\ "CAPTURE" \in pipe'[v]
    BY <2>1 DEF Prepare
  <2> QED
    BY <2>1, <2>2 DEF AwakeInv
<1>4. CASE CloseUnused(v)
  <2>1. /\ \A u \in Videos \ {v} :
             selected'[u] = selected[u] /\ lpm'[u] = lpm[u] /\ busy'[u] = busy[u]
        /\ selected'[v] = 0 /\ lpm'[v] /\ UNCHANGED <<pipe, ppu>>
    BY <1>4 DEF CloseUnused, Released, powerVars
  <2>2. selected[v] \in Nat /\ ppu[v] \in Int
    OBVIOUS
  <2> QED
    BY <2>1, <2>2 DEF AwakeInv
<1>5. CASE CloseStopped(v) \/ CloseWalked(v)
  <2>1. PipelineClose(v) /\ selected[v] > 0
    BY <1>5, CloserSelected
  <2>2. /\ \A u \in Videos \ {v} : /\ selected'[u] = selected[u] /\ ppu'[u] = ppu[u]
                                  /\ lpm'[u] = lpm[u] /\ busy'[u] = busy[u]
        /\ selected'[v] = 0 /\ ppu'[v] = ppu[v] - 1 /\ lpm'[v] /\ UNCHANGED pipe
    BY <2>1 DEF PipelineClose, PowerDown, Released
  <2>3. selected[v] \in Nat /\ ppu[v] \in Int
    OBVIOUS
  <2> QED
    BY <2>1, <2>2, <2>3 DEF AwakeInv
<1> QED
  BY <1>1, <1>2, <1>3, <1>4, <1>5

LEMMA AwakeStep ==
  CountMode /\ "suspend" \notin Faults /\ CountInv /\ AwakeInv /\ [Next]_vars => AwakeInv'
<1> SUFFICES ASSUME CountMode, "suspend" \notin Faults, CountInv, AwakeInv, [Next]_vars
             PROVE  AwakeInv'
  OBVIOUS
<1>1. CASE Next
  BY <1>1, NextSteps, AwakeMoves, AwakeOpenClose DEF SuspendResume
<1>2. CASE UNCHANGED vars
  BY <1>2 DEF vars, nodeVars, bitVars, powerVars, AwakeInv
<1> QED
  BY <1>1, <1>2

(* For any number of nodes, however they share subdevices, and with starts and   *)
(* sensors that fail: whoever acts on VIN_LPM alone finds sensor and DMA        *)
(* powered.  Only a sleep of the system clears VIN_LPM of a node that has       *)
(* selected no input.                                                        *)
THEOREM AwakeAlwaysPowered ==
  ASSUME CountMode, "suspend" \notin Faults PROVE Spec => []AwakeIsPowered
<1>1. Init => AwakeInv
  BY DEF Init, AwakeInv
<1>2. CountInv /\ AwakeInv /\ [Next]_vars => AwakeInv'
  BY AwakeStep
<1>3. CountInv /\ AwakeInv => AwakeIsPowered
  <2> SUFFICES ASSUME CountInv, AwakeInv, NEW v \in Videos, busy[v], ~lpm[v]
               PROVE  powered[Sd(v, "SENSOR")] /\ powered[Sd(v, "CAPTURE")] /\ ppu[v] > 0
    BY DEF AwakeIsPowered
  <2>1. /\ selected[v] > 0 /\ "SENSOR" \in pipe[v] /\ "CAPTURE" \in pipe[v]
        /\ ppu[v] >= selected[v] /\ selected[v] \in Nat /\ ppu[v] \in Int
    BY DEF AwakeInv, CountInv, TypeInv, TypeOK
  <2>2. ASSUME NEW k \in {"SENSOR", "CAPTURE"} PROVE powered[Sd(v, k)]
    <3> DEFINE s == Sd(v, k)
    <3>1. s \in Subdevs /\ s.kind = k
      BY SdInSubdevs DEF Sd, Kinds
    <3>2. v \in PowerUsers(s) /\ PowerUsers(s) \in SUBSET Videos
      BY <2>1, <3>1 DEF PowerUsers
    <3>3. Cardinality(PowerUsers(s)) > 0 /\ Cardinality(PowerUsers(s)) \in Nat
      BY <3>2, NodeSets
    <3>4. /\ use_count[s] \in Nat /\ use_count[s] >= Cardinality(PowerUsers(s))
          /\ powered[s] <=> use_count[s] > 0
      BY <3>1 DEF CountInv, PowerInv, TypeInv, TypeOK
    <3>5. use_count[s] > 0
      BY <3>3, <3>4
    <3> QED
      BY <3>4, <3>5
  <2> QED
    BY <2>1, <2>2
<1>4. Spec => []CountInv
  BY CountsHold
<1> QED
  BY <1>1, <1>2, <1>3, <1>4, PTL DEF Spec

-----------------------------------------------------------------------------
(* A camera for each node.                                                   *)

(* A node that does not stream finds its links free.                           *)
LEMMA LinksFree ==
  ASSUME CameraMode, CountInv, NEW v \in Videos, Started(v) = {},
         NEW k \in {"SENSOR", "MIPI", "CSI", "TDM_RX"}
  PROVE  ~Streams(v, k)
<1> DEFINE s == Sd(v, k)
<1>1. k \notin Shared /\ k \in Kinds
  BY SharedAssumption DEF CameraMode, Kinds
<1>2. s \in Subdevs /\ s.kind = k
  BY <1>1, SdInSubdevs DEF Sd
<1>3. \A u \in Videos : s = Sd(u, k) => u = v
  BY <1>1 DEF Sd
<1>4. StreamUsers(s) = {}
  BY <1>2, <1>3 DEF StreamUsers
<1>5. stream_count[s] \in Nat /\ stream_count[s] <= 0
  BY <1>2, <1>4, FS_EmptySet DEF CountInv, StreamInv, TypeInv, TypeOK
<1> QED
  BY <1>5 DEF Streams

(* The nodes whose calls test or change links do not stream.                   *)
LEMMA LinkersFree ==
  ASSUME CameraMode, CountInv, NEW v \in Videos,
         SInput(v) \/ SInputLinksTdm(v) \/ Streamon(v) \/ StreamonLinksTdm(v)
  PROVE  ~SensorLinkFails(v) /\ ~TdmLinkFails(v) /\ ~Streams(v, "SENSOR") /\ ~Streams(v, "TDM_RX")
<1>1. Started(v) = {}
  <2>1. pc[v] \in {"idle", "in_csi", "on_csi"} /\ ~streaming[v]
    <3>1. CASE SInput(v)
      BY <3>1 DEF SInput, CountMode, CameraMode, CountInv, CallInv, TypeInv, TypeOK
    <3>2. CASE SInputLinksTdm(v)
      BY <3>2 DEF SInputLinksTdm, CountInv, CallInv
    <3>3. CASE Streamon(v) \/ StreamonLinksTdm(v)
      BY <3>3 DEF Streamon, StreamonLinksTdm, CountInv, CallInv, StreamCalls
    <3> QED
      BY <3>1, <3>2, <3>3
  <2> QED
    BY <2>1 DEF Started
<1>2. \A k \in {"SENSOR", "MIPI", "CSI", "TDM_RX"} : ~Streams(v, k)
  BY <1>1, LinksFree
<1> QED
  BY <1>2 DEF SensorLinkFails, TdmLinkFails

(* Setting the links of a node up or down concerns no other node.               *)
LEMMA LinksOwn ==
  ASSUME CameraMode, TypeInv, NEW v \in Videos, NEW u \in Videos \ {v}
  PROVE  /\ SensorLinkOn(v) \/ LinksOff(v) => SensorLinked(u)' = SensorLinked(u)
         /\ TdmLinkOn(v) \/ LinksOff(v) => TdmLinked(u)' = TdmLinked(u)
<1>1. Sd(u, "SENSOR") # Sd(v, "SENSOR") /\ Sd(u, "TDM_RX") # Sd(v, "TDM_RX")
  BY SharedAssumption DEF CameraMode, Sd
<1>2. Sd(u, "SENSOR") \in Subdevs /\ Sd(u, "TDM_RX") \in Subdevs
  BY SdInSubdevs DEF Kinds
<1> QED
  BY <1>1, <1>2
  DEF SensorLinkOn, TdmLinkOn, LinksOff, SensorLinked, TdmLinked, TypeInv, TypeOK

LEMMA CameraInit == Init => FileInv /\ LinkInv /\ ExactInv /\ QueueInv
<1> SUFFICES ASSUME Init PROVE FileInv /\ LinkInv /\ ExactInv /\ QueueInv
  OBVIOUS
<1>1. FileInv /\ LinkInv /\ QueueInv
  BY DEF Init, FileInv, LinkInv, QueueInv
<1>2. \A s \in Subdevs : PowerUsers(s) = {}
  BY DEF Init, PowerUsers
<1>3. Selectors = {}
  BY DEF Init, Selectors
<1>4. ExactInv
  BY <1>2, <1>3, FS_EmptySet DEF Init, ExactInv
<1> QED
  BY <1>1, <1>4

(* Steps that change neither files nor power leave them as they are.            *)
LEMMA ExactKept ==
  ASSUME ExactInv, UNCHANGED <<selected, pipe, powerVars>>,
         graph_mutex = Kept => graph_mutex' = Kept
  PROVE  ExactInv'
<1>1. Selectors' = Selectors /\ \A s \in Subdevs : PowerUsers(s)' = PowerUsers(s)
  BY DEF Selectors, PowerUsers
<1> QED
  BY <1>1 DEF ExactInv, powerVars

(* Nor do steps that change the counts with the users.                           *)
LEMMA ExactStays ==
  ASSUME TypeInv', ExactInv, graph_mutex # Kept, \A v \in Videos : ppu'[v] = selected'[v],
         md_use_count' - Cardinality(Selectors') = md_use_count - Cardinality(Selectors),
         \A s \in Subdevs : use_count'[s] - Cardinality(PowerUsers(s)') =
                            use_count[s] - Cardinality(PowerUsers(s))
  PROVE  ExactInv'
<1>1. md_use_count' = Cardinality(Selectors')
  <2>1. /\ Cardinality(Selectors) \in Nat /\ Cardinality(Selectors') \in Nat
        /\ md_use_count' \in Nat
    BY NodeSets, UsersAreNodes DEF TypeInv, TypeOK
  <2> QED
    BY <2>1 DEF ExactInv
<1>2. ASSUME NEW s \in Subdevs PROVE use_count'[s] = Cardinality(PowerUsers(s)')
  <2>1. /\ Cardinality(PowerUsers(s)) \in Nat /\ Cardinality(PowerUsers(s)') \in Nat
        /\ use_count'[s] \in Nat
    BY NodeSets, UsersAreNodes DEF TypeInv, TypeOK
  <2> QED
    BY <2>1 DEF ExactInv
<1> QED
  BY <1>1, <1>2 DEF ExactInv

LEMMA CameraMoves ==
  ASSUME CameraMode, CameraInv, NEW v \in Videos, Moves(v)
  PROVE  FileInv' /\ LinkInv' /\ ExactInv' /\ QueueInv'
<1> USE DEF CameraInv
<1>1. /\ UNCHANGED <<opening, files, selected, busy, pipe, powerVars>>
      /\ \A u \in Videos \ {v} : /\ pc'[u] = pc[u] /\ streaming'[u] = streaming[u]
                                /\ vb2_streaming'[u] = vb2_streaming[u]
      /\ files[v] > 0 \/ pc[v] # "idle"
      /\ graph_mutex = Kept => graph_mutex' = Kept
  BY MovesKeep DEF nodeVars
<1>2. FileInv'
  BY <1>1 DEF FileInv
<1>3. ExactInv'
  BY <1>1, ExactKept
<1>4. LinkInv' /\ QueueInv'
  <2> USE DEF CountInv, TypeInv, TypeOK, Goto, LinkFrame
  <2>1. CASE SInput(v)
    <3>1. /\ ~Streams(v, "SENSOR") /\ pc[v] = "idle" /\ SensorLinkOn(v)
          /\ pc' = [pc EXCEPT ![v] = "in_csi"] /\ UNCHANGED <<tdm_link, streaming, vb2_streaming>>
      BY <2>1, LinkersFree DEF SInput
    <3>2. SensorLinked(v)'
      BY <3>1, SdInSubdevs DEF SensorLinkOn, SensorLinked, Kinds
    <3>3. \A u \in Videos \ {v} : SensorLinked(u)' = SensorLinked(u)
      BY <3>1, LinksOwn
    <3>4. LinkInv'
      BY <1>1, <3>1, <3>2, <3>3 DEF LinkInv, TdmLinked
    <3>5. QueueInv'
      BY <1>1, <3>1 DEF QueueInv, StreamCalls, Walking
    <3> QED
      BY <3>4, <3>5
  <2>2. CASE SInputLinksTdm(v)
    <3>1. /\ ~Streams(v, "TDM_RX") /\ pc[v] = "in_csi" /\ TdmLinkOn(v)
          /\ pc' = [pc EXCEPT ![v] = "in_open"]
          /\ UNCHANGED <<sensor_link, streaming, vb2_streaming>>
      BY <2>2, LinkersFree DEF SInputLinksTdm
    <3>2. TdmLinked(v)'
      BY <3>1, SdInSubdevs DEF TdmLinkOn, TdmLinked, Kinds
    <3>3. \A u \in Videos \ {v} : TdmLinked(u)' = TdmLinked(u)
      BY <3>1, LinksOwn
    <3>4. LinkInv'
      BY <1>1, <3>1, <3>2, <3>3 DEF LinkInv, SensorLinked
    <3>5. QueueInv'
      BY <1>1, <3>1 DEF QueueInv, StreamCalls, Walking
    <3> QED
      BY <3>4, <3>5
  <2>3. CASE Streamon(v) \/ StreamonLinksTdm(v)
    <3>1. /\ pc'[v] \in {"on_csi", "on_lock"}
          /\ SensorLinkOn(v) \/ UNCHANGED sensor_link
          /\ TdmLinkOn(v) \/ UNCHANGED tdm_link
      BY <2>3, LinkersFree DEF Streamon, StreamonLinksTdm
    <3>2. \A u \in Videos \ {v} :
            SensorLinked(u)' = SensorLinked(u) /\ TdmLinked(u)' = TdmLinked(u)
      BY <3>1, LinksOwn DEF SensorLinked, TdmLinked
    <3>3. LinkInv'
      BY <1>1, <3>1, <3>2 DEF LinkInv
    <3>4. QueueInv'
      BY <1>1, <3>1 DEF QueueInv, StreamCalls
    <3> QED
      BY <3>3, <3>4
  <2>4. CASE StreamonLocked(v) \/ StreamonDone(v) \/ Streamoff(v) \/ CloseStreaming(v)
    <3>1. /\ pc'[v] \in Walking \/ (pc'[v] = "idle" /\ streaming'[v])
          /\ UNCHANGED linkVars
      BY <2>4 DEF StreamonLocked, StreamonDone, Streamoff, CloseStreaming, Walking
    <3>2. LinkInv'
      BY <1>1, <3>1 DEF LinkInv, SensorLinked, TdmLinked, linkVars, Walking
    <3>3. QueueInv'
      BY <1>1, <3>1 DEF QueueInv, StreamCalls
    <3> QED
      BY <3>2, <3>3
  <2>5. CASE StreamoffDone(v)
    <3>1. pc'[v] = "idle" /\ ~vb2_streaming'[v] /\ LinksOff(v)
      BY <2>5 DEF StreamoffDone
    <3>2. \A u \in Videos \ {v} :
            SensorLinked(u)' = SensorLinked(u) /\ TdmLinked(u)' = TdmLinked(u)
      BY <3>1, LinksOwn
    <3>3. LinkInv'
      BY <1>1, <3>1, <3>2 DEF LinkInv
    <3>4. QueueInv'
      BY <1>1, <3>1 DEF QueueInv
    <3> QED
      BY <3>3, <3>4
  <2>6. CASE \E k \in Kinds : SetStream(v, k) \/ SetStreamFails(v, k)
    <3>1. UNCHANGED <<pc, bitVars, linkVars>>
      BY <2>6 DEF SetStreamFails, SetStream, StepFrame
    <3>2. LinkInv'
      BY <1>1, <3>1 DEF LinkInv, SensorLinked, TdmLinked, linkVars
    <3>3. QueueInv'
      BY <3>1 DEF QueueInv, bitVars
    <3> QED
      BY <3>2, <3>3
  <2> QED
    BY <2>1, <2>2, <2>3, <2>4, <2>5, <2>6 DEF Moves
<1> QED
  BY <1>2, <1>3, <1>4

(* Selecting an input finds the sensor.                                       *)
LEMMA CameraOpen ==
  ASSUME CameraMode, CameraInv, NEW v \in Videos,
         PipelineOpen(v) \/ PipelineOpenFails(v) \/ OpenTest(v) \/ OpenLocked(v)
  PROVE  FileInv' /\ LinkInv' /\ ExactInv' /\ QueueInv'
<1> USE DEF CameraInv, CountInv, TypeInv, TypeOK
<1>1. CASE OpenTest(v) \/ OpenLocked(v)
  <2>1. UNCHANGED <<pc, selected, streaming, vb2_streaming, pipe, powerVars, linkVars,
                    graph_mutex>>
    BY <1>1 DEF OpenTest, OpenLocked, bitVars
  <2>2. FileInv'
    <3>1. /\ \A u \in Videos \ {v} :
               opening'[u] = opening[u] /\ files'[u] = files[u] /\ busy'[u] = busy[u]
          /\ opening'[v] + files'[v] <= 1 /\ (files[v] > 0 => files'[v] > 0)
          /\ files'[v] > 0 => busy'[v]
      BY <1>1 DEF OpenTest, OpenLocked, CameraMode, FileInv
    <3> QED
      BY <2>1, <3>1 DEF FileInv
  <2>3. LinkInv' /\ QueueInv'
    BY <2>1 DEF LinkInv, QueueInv, SensorLinked, TdmLinked, linkVars
  <2>4. ExactInv'
    BY <2>1, ExactKept
  <2> QED
    BY <2>2, <2>3, <2>4
<1>2. CASE PipelineOpen(v)
  <2>1. /\ pc[v] = "in_open" /\ pc' = [pc EXCEPT ![v] = "idle"]
        /\ selected' = [selected EXCEPT ![v] = @ + 1] /\ ppu' = [ppu EXCEPT ![v] = @ + 1]
        /\ pipe' = [pipe EXCEPT ![v] = Prepare(v)]
        /\ UNCHANGED <<opening, files, busy, streaming, vb2_streaming, linkVars>>
    BY <1>2 DEF PipelineOpen, PowerUp, Goto
  <2>2. FileInv'
    BY <2>1 DEF FileInv
  <2>3. LinkInv'
    <3>1. "SENSOR" \in Prepare(v)
      BY <2>1 DEF LinkInv, Prepare
    <3> QED
      BY <2>1, <3>1 DEF LinkInv, SensorLinked, TdmLinked, linkVars
  <2>4. QueueInv'
    BY <2>1 DEF QueueInv, StreamCalls, Walking
  <2>5. ExactInv'
    <3>1. /\ md_use_count' - Cardinality(Selectors') = md_use_count - Cardinality(Selectors)
          /\ \A s \in Subdevs : use_count'[s] - Cardinality(PowerUsers(s)') =
                                 use_count[s] - Cardinality(PowerUsers(s))
      BY <1>2, OpenCounts DEF CameraMode
    <3>2. TypeInv'
      BY <1>2, TypePipelineOpen
    <3>3. graph_mutex # Kept
      BY <1>2, NoVideoAssumption DEF PipelineOpen
    <3>4. \A u \in Videos : ppu'[u] = selected'[u]
      BY <2>1, <3>3 DEF ExactInv
    <3> QED
      BY <3>1, <3>2, <3>3, <3>4, ExactStays
  <2> QED
    BY <2>2, <2>3, <2>4, <2>5
<1>3. CASE PipelineOpenFails(v)
  <2>1. /\ pc[v] = "in_open" /\ pc' = [pc EXCEPT ![v] = "idle"]
        /\ pipe' = [pipe EXCEPT ![v] = Prepare(v)] /\ "SENSOR" \in pipe'[v]
        /\ graph_mutex' = Kept
        /\ UNCHANGED <<opening, files, selected, busy, streaming, vb2_streaming, use_count,
                       linkVars>>
    BY <1>3 DEF PipelineOpenFails, Goto, nodeVars, bitVars
  <2>2. selected[v] = 0 /\ ~streaming[v]
    BY <2>1 DEF CallInv
  <2>3. /\ pc'[v] = "idle" /\ \A u \in Videos \ {v} : pc'[u] = pc[u] /\ pipe'[u] = pipe[u]
    BY <2>1
  <2>4. FileInv'
    BY <2>1, <2>3 DEF FileInv
  <2>5. LinkInv'
    BY <2>1, <2>2, <2>3 DEF LinkInv, SensorLinked, TdmLinked, linkVars
  <2>6. QueueInv'
    BY <2>1, <2>3 DEF QueueInv, StreamCalls, Walking
  <2>7. ExactInv'
    <3>1. \A s \in Subdevs : PowerUsers(s)' = PowerUsers(s)
      BY <2>1, <2>2, <2>3 DEF PowerUsers
    <3> QED
      BY <2>1, <3>1 DEF ExactInv
  <2> QED
    BY <2>4, <2>5, <2>6, <2>7
<1> QED
  BY <1>1, <1>2, <1>3

(* Closing finds the sensor in use, and takes back all that was selected.        *)
LEMMA CameraClose ==
  ASSUME CameraMode, CameraInv, NEW v \in Videos,
         CloseClosed(v) \/ CloseUnused(v) \/ CloseStopped(v) \/ CloseWalked(v)
  PROVE  FileInv' /\ LinkInv' /\ ExactInv' /\ QueueInv'
<1> USE DEF CameraInv, CountInv, TypeInv, TypeOK
<1>1. ~CloseClosed(v)
  BY DEF CloseClosed, CloseOf, FileInv
<1>2. ~CloseUnused(v)
  <2> SUFFICES ASSUME CloseUnused(v) PROVE Uses(v)
    BY DEF CloseUnused
  <2> DEFINE s == Sd(v, "SENSOR")
  <2>1. selected[v] > 0 /\ "SENSOR" \in pipe[v]
    BY DEF CloseUnused, CloseOf, CameraMode, CountMode, LinkInv
  <2>2. s \in Subdevs /\ s.kind = "SENSOR"
    BY SdInSubdevs DEF Sd, Kinds
  <2>3. v \in PowerUsers(s) /\ PowerUsers(s) \in SUBSET Videos
    BY <2>1, <2>2 DEF PowerUsers
  <2>4. Cardinality(PowerUsers(s)) > 0
    BY <2>3, NodeSets
  <2> QED
    BY <2>1, <2>2, <2>4 DEF Uses, ExactInv
<1>3. CASE CloseStopped(v) \/ CloseWalked(v)
  <2>1. PipelineClose(v) /\ files[v] > 0 /\ selected[v] > 0 /\ ~streaming[v]
    BY <1>3, CloserSelected DEF CameraMode
  <2>2. /\ pc' = [pc EXCEPT ![v] = "idle"] /\ selected' = [selected EXCEPT ![v] = 0]
        /\ ppu' = [ppu EXCEPT ![v] = @ - 1] /\ files' = [files EXCEPT ![v] = @ - 1]
        /\ busy' = [busy EXCEPT ![v] = FALSE]
        /\ vb2_streaming' = [vb2_streaming EXCEPT ![v] = FALSE]
        /\ UNCHANGED <<opening, streaming, pipe>>
        /\ PowerDown(v) /\ (LinksOff(v) \/ UNCHANGED linkVars)
    BY <2>1 DEF PipelineClose, PowerDown, Released, Goto
  <2>3. files[v] = 1 /\ selected[v] = 1
    BY <2>1 DEF FileInv, CameraMode, CountMode
  <2>4. FileInv'
    BY <2>2, <2>3 DEF FileInv
  <2>5. LinkInv'
    <3>1. \A u \in Videos \ {v} :
            SensorLinked(u)' = SensorLinked(u) /\ TdmLinked(u)' = TdmLinked(u)
      BY <2>2, LinksOwn DEF linkVars, SensorLinked, TdmLinked
    <3> QED
      BY <2>2, <3>1 DEF LinkInv
  <2>6. QueueInv'
    BY <2>2 DEF QueueInv
  <2>7. ExactInv'
    <3>1. /\ md_use_count' - Cardinality(Selectors') = md_use_count - Cardinality(Selectors)
          /\ \A s \in Subdevs : use_count'[s] - Cardinality(PowerUsers(s)') =
                                 use_count[s] - Cardinality(PowerUsers(s))
      <4>1. \A u \in Videos : selected'[u] = IF u = v THEN 0 ELSE selected[u]
        BY <2>2
      <4> QED
        BY <2>1, <2>2, <4>1, CloseCounts
    <3>2. TypeInv'
      BY <2>1, TypePipelineClose
    <3>3. graph_mutex # Kept
      BY <1>3, NoVideoAssumption DEF CloseStopped, CloseWalked, CallInv, Walking
    <3>4. \A u \in Videos : ppu'[u] = selected'[u]
      BY <2>2, <2>3, <3>3 DEF ExactInv
    <3> QED
      BY <3>1, <3>2, <3>3, <3>4, ExactStays
  <2> QED
    BY <2>4, <2>5, <2>6, <2>7
<1> QED
  BY <1>1, <1>2, <1>3

LEMMA CameraHolds == ASSUME CameraMode PROVE Spec => []CameraInv
<1>1. Init => CameraInv
  BY TypeInit, CountInit, CameraInit DEF CameraInv, CountInv
<1>2. CameraInv /\ [Next]_vars => CameraInv'
  <2> SUFFICES ASSUME CameraInv, [Next]_vars
               PROVE  FileInv' /\ LinkInv' /\ ExactInv' /\ QueueInv'
    BY CountStep DEF CameraInv, CameraMode
  <2>1. ASSUME UNCHANGED <<pc, nodeVars, streaming, vb2_streaming, pipe, powerVars, linkVars,
                          graph_mutex>>
        PROVE  FileInv' /\ LinkInv' /\ ExactInv' /\ QueueInv'
    <3>1. ExactInv'
      BY <2>1, ExactKept DEF CameraInv, nodeVars
    <3>2. FileInv' /\ LinkInv' /\ QueueInv'
      BY <2>1 DEF CameraInv, FileInv, LinkInv, QueueInv, SensorLinked, TdmLinked, nodeVars, linkVars
    <3> QED
      BY <3>1, <3>2
  <2>2. CASE UNCHANGED vars
    BY <2>1, <2>2 DEF vars, bitVars
  <2>3. ASSUME NEW slept \in SUBSET Videos, SuspendResume(slept)
        PROVE  FileInv' /\ LinkInv' /\ ExactInv' /\ QueueInv'
    BY <2>1, <2>3 DEF SuspendResume
  <2>4. CASE Next
    BY <2>3, <2>4, NextSteps, CameraMoves, CameraOpen, CameraClose
  <2> QED
    BY <2>2, <2>4
<1> QED
  BY <1>1, <1>2, PTL DEF Spec

(* For any number of nodes with a camera each, which may share everything behind  *)
(* it: with the last file everything is off, and no count is left, whatever     *)
(* failed before and over sleeps of the system.                              *)
THEOREM ClosedAlwaysOff == ASSUME CameraMode PROVE Spec => []ClosedIsOff
<1>1. CameraInv => ClosedIsOff
  <2> SUFFICES ASSUME CameraInv, \A v \in Videos : files[v] = 0, graph_mutex = NoVideo
               PROVE  /\ md_use_count = 0 /\ \A v \in Videos : ppu[v] = 0
                      /\ \A s \in Subdevs : /\ use_count[s] = 0 /\ stream_count[s] = 0
                                           /\ ~powered[s] /\ ~running[s]
    BY DEF ClosedIsOff
  <2> USE DEF CameraInv, CountInv, TypeInv, TypeOK
  <2>1. \A v \in Videos : selected[v] = 0 /\ pc[v] = "idle" /\ ~streaming[v]
    BY DEF FileInv, CallInv
  <2>2. Selectors = {} /\ \A s : PowerUsers(s) = {} /\ StreamUsers(s) = {}
    BY <2>1 DEF Selectors, PowerUsers, StreamUsers, Started
  <2>3. md_use_count = 0 /\ \A v \in Videos : ppu[v] = 0
    BY <2>1, <2>2, FS_EmptySet, NoVideoAssumption DEF ExactInv
  <2>4. ASSUME NEW s \in Subdevs
        PROVE  /\ use_count[s] = 0 /\ stream_count[s] = 0
               /\ ~powered[s] /\ ~running[s]
    <3>1. Cardinality(PowerUsers(s)) = 0 /\ Cardinality(StreamUsers(s)) = 0
      BY <2>2, FS_EmptySet
    <3>2. use_count[s] = 0 /\ ~powered[s]
      BY <3>1 DEF ExactInv, PowerInv
    <3>3. stream_count[s] = 0 /\ ~running[s]
      BY <3>1 DEF StreamInv
    <3> QED
      BY <3>2, <3>3
  <2> QED
    BY <2>3, <2>4
<1>2. Spec => []CameraInv
  BY CameraHolds
<1> QED
  BY <1>1, <1>2, PTL

(* And no STREAMON leaves a vb2 queue running that STREAMOFF refuses to stop.     *)
THEOREM QueueAlwaysFollows == ASSUME CameraMode PROVE Spec => []QueueFollowsStream
<1>1. CameraInv => QueueFollowsStream
  BY DEF CameraInv, QueueInv, QueueFollowsStream, StreamCalls, Walking
<1>2. Spec => []CameraInv
  BY CameraHolds
<1> QED
  BY <1>1, <1>2, PTL

-----------------------------------------------------------------------------
(***************************************************************************)
(* In each of the three start orders the camera comes to send frames last.    *)
(***************************************************************************)

(* What a start has turned on comes before what it has left.                   *)
OrderInv ==
  \A v \in Videos : pc[v] = "on_walk" /\ ~walk.undo =>
    \A k \in walk.done, l \in pipe[v] \ walk.done : Before(TRUE, k, l)

(* A subdevice that did not start is counted until the rollback comes to it.      *)
Refused(s) ==
  /\ graph_mutex \in Videos /\ walk.undo /\ s.kind \in walk.done
  /\ s = Sd(graph_mutex, s.kind) /\ stream_count[s] = 1

RunInv == \A s \in Subdevs : stream_count[s] > 0 => running[s] \/ Refused(s)

(* Each subdevice that a start has done has a user, and runs.                   *)
DoneInv ==
  \A v \in Videos : pc[v] = "on_walk" => \A k \in walk.done : stream_count[Sd(v, k)] > 0

StartInv == OrderInv /\ RunInv /\ DoneInv

(* The place of a kind in a start order, of which it is the last if that is 7.    *)
LEMMA LastPlace ==
  ASSUME NEW order, NEW k, NEW l, \A i \in 1 .. 7 : order[i] = k => i = 7
  PROVE  ~\E i, j \in 1 .. 7 : i < j /\ order[i] = k /\ order[j] = l
  OBVIOUS

(* The later of CSI and sensor is the last of all, whatever stream_idx is.       *)
LEMMA SourceIsLast ==
  /\ Before(TRUE, "CSI", "SENSOR") => \A l \in Kinds : ~Before(TRUE, "SENSOR", l)
  /\ Before(TRUE, "SENSOR", "CSI") => \A l \in Kinds : ~Before(TRUE, "CSI", l)
<1> DEFINE order == StreamOrder(TRUE)
<1>1. StreamIdx = 2 \/ StreamIdx = 3 \/ StreamIdx = 4
  BY PipelineAssumption
<1>2. \A i \in 1 .. 7 : i = 1 \/ i = 2 \/ i = 3 \/ i = 4 \/ i = 5 \/ i = 6 \/ i = 7
  OBVIOUS
<1>3. CASE StreamIdx = 2
  <2>1. order = <<"TDM_RX", "MIPI", "ISP", "SCALER", "CAPTURE", "CSI", "SENSOR">>
    BY <1>3 DEF StreamOrder
  <2>2. /\ order[1] = "TDM_RX" /\ order[2] = "MIPI" /\ order[3] = "ISP" /\ order[4] = "SCALER"
        /\ order[5] = "CAPTURE" /\ order[6] = "CSI" /\ order[7] = "SENSOR"
    <3> HIDE DEF order
    <3> QED
      BY <2>1
  <2>3. \A i \in 1 .. 7 : order[i] = "SENSOR" => i = 7
    BY <1>2, <2>2
  <2>4. \A l \in Kinds : ~Before(TRUE, "SENSOR", l)
    BY <2>3, LastPlace DEF Before
  <2> QED
    BY <2>4 DEF Kinds
<1>4. CASE StreamIdx = 3
  <2>1. order = <<"TDM_RX", "SENSOR", "MIPI", "ISP", "SCALER", "CAPTURE", "CSI">>
    BY <1>4 DEF StreamOrder
  <2>2. /\ order[1] = "TDM_RX" /\ order[2] = "SENSOR" /\ order[3] = "MIPI" /\ order[4] = "ISP"
        /\ order[5] = "SCALER" /\ order[6] = "CAPTURE" /\ order[7] = "CSI"
    <3> HIDE DEF order
    <3> QED
      BY <2>1
  <2>3. \A i \in 1 .. 7 : order[i] = "CSI" => i = 7
    BY <1>2, <2>2
  <2>4. \A l \in Kinds : ~Before(TRUE, "CSI", l)
    BY <2>3, LastPlace DEF Before
  <2> QED
    BY <2>4 DEF Kinds
<1>5. CASE StreamIdx = 4
  <2>1. order = <<"TDM_RX", "MIPI", "SENSOR", "ISP", "SCALER", "CAPTURE", "CSI">>
    BY <1>5 DEF StreamOrder
  <2>2. /\ order[1] = "TDM_RX" /\ order[2] = "MIPI" /\ order[3] = "SENSOR" /\ order[4] = "ISP"
        /\ order[5] = "SCALER" /\ order[6] = "CAPTURE" /\ order[7] = "CSI"
    <3> HIDE DEF order
    <3> QED
      BY <2>1
  <2>3. \A i \in 1 .. 7 : order[i] = "CSI" => i = 7
    BY <1>2, <2>2
  <2>4. \A l \in Kinds : ~Before(TRUE, "CSI", l)
    BY <2>3, LastPlace DEF Before
  <2> QED
    BY <2>4 DEF Kinds
<1> QED
  BY <1>1, <1>3, <1>4, <1>5

LEMMA StartInit == Init => StartInv
<1> SUFFICES ASSUME Init PROVE StartInv
  OBVIOUS
<1>1. OrderInv /\ DoneInv
  BY DEF Init, OrderInv, DoneInv
<1>2. RunInv
  BY DEF Init, RunInv
<1> QED
  BY <1>1, <1>2 DEF StartInv

LEMMA StartSetStream ==
  ASSUME CountInv, StartInv, NEW v \in Videos, NEW k \in Kinds, SetStream(v, k)
  PROVE  StartInv'
<1> USE DEF CountInv, StartInv
<1> DEFINE s == Sd(v, k)
<1>1. /\ UNCHANGED <<pc, pipe, graph_mutex>> /\ graph_mutex = v /\ pc[v] \in Walking
      /\ At(v, k) /\ CountStream(s) /\ Advance(k) /\ s \in Subdevs
      /\ walk \in [on : BOOLEAN, done : SUBSET Kinds, undo : BOOLEAN]
  BY SdInSubdevs DEF SetStream, StepFrame, At, TypeInv, TypeOK
<1>2. /\ walk'.on = walk.on /\ walk'.undo = walk.undo
      /\ walk'.done = IF walk.undo THEN walk.done \ {k} ELSE walk.done \cup {k}
  BY <1>1 DEF Advance
<1>3. /\ \A u \in Videos \ {v} : pc[u] \notin Walking
      /\ TurnsOn <=> pc[v] = "on_walk" /\ ~walk.undo
      /\ walk.on <=> pc[v] = "on_walk"
  BY <1>1, NoVideoAssumption DEF CallInv, WalkInv, TurnsOn
<1>4. /\ \A t \in Subdevs \ {s} : stream_count'[t] = stream_count[t] /\ running'[t] = running[t]
      /\ TurnsOn => /\ stream_count'[s] = stream_count[s] + 1
                    /\ running'[s] <=> running[s] \/ stream_count[s] = 0
      /\ ~TurnsOn => /\ stream_count'[s] = IF stream_count[s] = 0 THEN 0 ELSE stream_count[s] - 1
                     /\ running'[s] <=> running[s] /\ stream_count[s] # 1
      /\ stream_count[s] \in Nat
  BY <1>1 DEF SetStream, CountStream, TypeInv, TypeOK
<1>5. \A l \in Kinds \ {k} : Sd(v, l) \in Subdevs \ {s}
  BY SdInSubdevs DEF Sd
<1>6. OrderInv'
  <2> SUFFICES ASSUME pc[v] = "on_walk", ~walk.undo, NEW a \in walk'.done,
                      NEW l \in pipe[v] \ walk'.done
               PROVE  Before(TRUE, a, l)
    BY <1>1, <1>2, <1>3 DEF OrderInv, Walking
  <2>1. l \in pipe[v] \ walk.done /\ l # k /\ (a \in walk.done \/ a = k)
    BY <1>2
  <2>2. Before(walk.on, k, l) /\ walk.on = TRUE
    BY <1>1, <1>3, <2>1 DEF At
  <2> QED
    BY <2>1, <2>2 DEF OrderInv
<1>7. RunInv'
  <2> SUFFICES ASSUME NEW t \in Subdevs, stream_count'[t] > 0 PROVE running'[t] \/ Refused(t)'
    BY DEF RunInv
  <2>1. CASE t # s
    <3>1. Refused(t) => Refused(t)'
      <4> SUFFICES ASSUME Refused(t) PROVE Refused(t)'
        OBVIOUS
      <4>1. t.kind \in walk.done /\ t = Sd(v, t.kind) /\ walk.undo
        BY <1>1 DEF Refused
      <4>2. t.kind # k
        BY <2>1, <4>1
      <4> QED
        BY <1>1, <1>2, <1>4, <2>1, <4>1, <4>2 DEF Refused
    <3> QED
      BY <1>4, <2>1, <3>1 DEF RunInv
  <2>2. CASE t = s
    <3>1. stream_count[s] > 0 => running[s] \/ (walk.undo /\ stream_count[s] = 1)
      BY <1>1 DEF RunInv, Refused
    <3> QED
      BY <1>3, <1>4, <2>2, <3>1
  <2> QED
    BY <2>1, <2>2
<1>8. DoneInv'
  <2> SUFFICES ASSUME pc[v] = "on_walk", NEW l \in walk'.done PROVE stream_count'[Sd(v, l)] > 0
    BY <1>1, <1>3 DEF DoneInv, Walking
  <2>1. CASE l = k
    <3>1. TurnsOn
      BY <1>2, <1>3, <2>1
    <3> QED
      BY <1>4, <2>1, <3>1
  <2>2. CASE l # k
    <3>1. l \in walk.done /\ l \in Kinds
      BY <1>1, <1>2, <2>2
    <3> QED
      BY <1>4, <1>5, <2>2, <3>1 DEF DoneInv
  <2> QED
    BY <2>1, <2>2
<1> QED
  BY <1>6, <1>7, <1>8

LEMMA StartSetStreamFails ==
  ASSUME CountMode, CountInv, StartInv, NEW v \in Videos, NEW k \in Kinds, SetStreamFails(v, k)
  PROVE  StartInv'
<1> USE DEF CountInv, StartInv
<1> DEFINE s == Sd(v, k)
<1>1. /\ UNCHANGED <<pc, pipe, graph_mutex, running>> /\ graph_mutex = v /\ pc[v] \in Walking
      /\ TurnsOn /\ stream_count[s] = 0 /\ CountStream(s) /\ s \in Subdevs
      /\ walk \in [on : BOOLEAN, done : SUBSET Kinds, undo : BOOLEAN]
  BY SdInSubdevs
  DEF SetStreamFails, StepFrame, At, CountMode, Kinds, TypeInv, TypeOK
<1>2. ~walk.undo /\ \A u \in Videos \ {v} : pc[u] \notin Walking
  BY <1>1, NoVideoAssumption DEF CallInv, WalkInv, TurnsOn
<1>3. walk'.undo /\ walk'.done = walk.done \cup {k}
  <2>1. walk' = [walk EXCEPT !.undo = TRUE, !.done = @ \cup {k}]
    BY <1>2 DEF SetStreamFails
  <2> QED
    BY <1>1, <2>1
<1>4. /\ stream_count'[s] = 1
      /\ \A t \in Subdevs \ {s} : stream_count'[t] = stream_count[t]
  BY <1>1 DEF CountStream, TypeInv, TypeOK
<1>5. OrderInv'
  BY <1>1, <1>2, <1>3 DEF OrderInv, Walking
<1>6. RunInv'
  <2>1. Refused(s)'
    <3>1. s.kind = k
      BY DEF Sd
    <3> QED
      BY <1>1, <1>3, <1>4, <3>1 DEF Refused
  <2>2. \A t \in Subdevs \ {s} : stream_count'[t] > 0 => running'[t]
    BY <1>1, <1>2, <1>4 DEF RunInv, Refused
  <2> QED
    BY <2>1, <2>2 DEF RunInv
<1>7. DoneInv'
  <2> SUFFICES ASSUME pc[v] = "on_walk", NEW l \in walk'.done PROVE stream_count'[Sd(v, l)] > 0
    BY <1>1, <1>2 DEF DoneInv, Walking
  <2>1. CASE l = k
    BY <1>4, <2>1
  <2>2. CASE l # k
    <3>1. l \in walk.done /\ Sd(v, l) \in Subdevs \ {s}
      BY <1>1, <1>3, <2>2, SdInSubdevs DEF Sd
    <3> QED
      BY <1>4, <3>1 DEF DoneInv
  <2> QED
    BY <2>1, <2>2
<1> QED
  BY <1>5, <1>6, <1>7

(* The steps that count nothing: of the mutex, of calls without it, and sleeps.    *)
LEMMA StartQuiet ==
  ASSUME StartInv, UNCHANGED <<streamVars, graph_mutex, walk>>,
         \A v \in Videos : pc'[v] = "on_walk" => pc[v] = "on_walk" /\ pipe'[v] = pipe[v]
  PROVE  StartInv'
<1> USE DEF StartInv, streamVars
<1>1. OrderInv'
  BY DEF OrderInv
<1>2. RunInv'
  BY DEF RunInv, Refused
<1>3. DoneInv'
  BY DEF DoneInv
<1> QED
  BY <1>1, <1>2, <1>3

LEMMA StartMutex ==
  ASSUME StartInv, UNCHANGED streamVars, \A s \in Subdevs : ~Refused(s),
         (\A v \in Videos : pc'[v] # "on_walk") \/ walk'.done = {}
  PROVE  StartInv'
<1> USE DEF StartInv, streamVars
<1>1. OrderInv' /\ DoneInv'
  BY DEF OrderInv, DoneInv
<1>2. RunInv'
  BY DEF RunInv
<1> QED
  BY <1>1, <1>2

LEMMA StartMoves ==
  ASSUME CountInv, StartInv, NEW v \in Videos, Moves(v),
         ~\E k \in Kinds : SetStream(v, k) \/ SetStreamFails(v, k)
  PROVE  StartInv'
<1> USE DEF CountInv
<1>1. CASE SInput(v) \/ SInputLinksTdm(v) \/ Streamon(v) \/ StreamonLinksTdm(v)
  <2>1. /\ UNCHANGED <<streamVars, graph_mutex, walk, pipe>>
        /\ pc'[v] # "on_walk" /\ \A u \in Videos \ {v} : pc'[u] = pc[u]
    BY <1>1 DEF SInput, SInputLinksTdm, Streamon, StreamonLinksTdm, LinkFrame, Goto, TypeInv, TypeOK
  <2> QED
    BY <2>1, StartQuiet
<1>2. CASE StreamonLocked(v) \/ Streamoff(v) \/ CloseStreaming(v)
  <2>1. /\ UNCHANGED streamVars /\ graph_mutex = NoVideo /\ "SENSOR" \in pipe[v]
        /\ \E on \in BOOLEAN : walk' = StreamWalk(v, on)
    BY <1>2 DEF StreamonLocked, Streamoff, CloseStreaming, Lock, CallInv, StreamCalls
  <2>2. walk'.done = {}
    BY <2>1 DEF StreamWalk
  <2> QED
    BY <2>1, <2>2, StartMutex, NoVideoAssumption DEF Refused
<1>3. CASE StreamonDone(v) \/ StreamoffDone(v)
  <2>1. /\ UNCHANGED streamVars /\ WalkEnds(v) /\ Unlock /\ pc[v] \in Walking
    BY <1>3 DEF StreamonDone, StreamoffDone, Walking
  <2>2. \A s \in Subdevs : ~Refused(s)
    BY <2>1 DEF WalkEnds, Refused
  <2>3. walk'.done = {}
    BY <2>1 DEF Unlock, NoWalk
  <2> QED
    BY <2>1, <2>2, <2>3, StartMutex
<1> QED
  BY <1>1, <1>2, <1>3 DEF Moves

LEMMA StartOpenClose ==
  ASSUME CountMode, CountInv, StartInv, NEW v \in Videos,
         \/ PipelineOpen(v) \/ PipelineOpenFails(v) \/ OpenTest(v) \/ OpenLocked(v)
         \/ CloseClosed(v) \/ CloseUnused(v) \/ CloseStopped(v) \/ CloseWalked(v)
  PROVE  StartInv'
<1> USE DEF CountInv
<1>1. CASE PipelineOpen(v) \/ OpenTest(v) \/ OpenLocked(v) \/ CloseClosed(v) \/ CloseUnused(v)
  <2>1. /\ UNCHANGED <<streamVars, graph_mutex, walk>>
        /\ \A u \in Videos \ {v} : pc'[u] = pc[u] /\ pipe'[u] = pipe[u]
        /\ pc'[v] = "idle" \/ (pc'[v] = pc[v] /\ pipe'[v] = pipe[v])
    BY <1>1 DEF PipelineOpen, OpenTest, OpenLocked, CloseClosed, CloseUnused, Released, Goto,
                TypeInv, TypeOK
  <2> QED
    BY <2>1, StartQuiet
<1>2. CASE CloseStopped(v) \/ CloseWalked(v)
  <2>1. UNCHANGED streamVars /\ Unlock
    BY <1>2 DEF CloseStopped, CloseWalked, PipelineClose
  <2>2. graph_mutex = NoVideo \/ (graph_mutex = v /\ ~walk.undo)
    BY <1>2 DEF CloseStopped, CloseWalked, CallInv, WalkInv, Walking
  <2>3. walk'.done = {}
    BY <2>1 DEF Unlock, NoWalk
  <2> QED
    BY <2>1, <2>2, <2>3, StartMutex, NoVideoAssumption DEF Refused
<1>3. CASE PipelineOpenFails(v)
  <2>1. /\ UNCHANGED <<streamVars, walk>> /\ graph_mutex = NoVideo
        /\ pc' = [pc EXCEPT ![v] = "idle"]
    BY <1>3 DEF PipelineOpenFails, Goto
  <2>2. \A u \in Videos : pc'[u] # "on_walk"
    BY <2>1, NoVideoAssumption DEF CallInv, Walking, TypeInv, TypeOK
  <2>3. \A s \in Subdevs : ~Refused(s)
    BY <2>1, NoVideoAssumption DEF Refused
  <2> QED
    BY <2>1, <2>2, <2>3, StartMutex
<1> QED
  BY <1>1, <1>2, <1>3

LEMMA StartStep == CountMode /\ CountInv /\ StartInv /\ [Next]_vars => StartInv'
<1> SUFFICES ASSUME CountMode, CountInv, StartInv, [Next]_vars PROVE StartInv'
  OBVIOUS
<1>1. CASE UNCHANGED vars
  BY <1>1, StartQuiet DEF vars
<1>2. ASSUME NEW slept \in SUBSET Videos, SuspendResume(slept) PROVE StartInv'
  BY <1>2, StartQuiet DEF SuspendResume
<1>3. ASSUME NEW v \in Videos, Moves(v) PROVE StartInv'
  BY <1>3, StartMoves, StartSetStream, StartSetStreamFails
<1>4. CASE Next
  BY <1>2, <1>3, <1>4, NextSteps, StartOpenClose
<1> QED
  BY <1>1, <1>4

-----------------------------------------------------------------------------
(* The step that makes frames flow finds everything behind the camera running.    *)
LEMMA SourceStep ==
  ASSUME CameraMode, CountInv, StartInv, StartInv', NEW v \in Videos,
         NEW k \in Kinds, SetStream(v, k),
         ~(running[Sd(v, "SENSOR")] /\ running[Sd(v, "CSI")]),
         running'[Sd(v, "SENSOR")], running'[Sd(v, "CSI")],
         NEW l \in pipe[v]
  PROVE  running'[Sd(v, l)]
<1> USE DEF CountInv
<1> DEFINE m == IF k = "SENSOR" THEN "CSI" ELSE "SENSOR"
<1>1. /\ pc[v] \in Walking /\ At(v, k) /\ UNCHANGED <<pc, pipe>> /\ Advance(k)
      /\ walk \in [on : BOOLEAN, done : SUBSET Kinds, undo : BOOLEAN]
      /\ l \in Kinds
  BY DEF SetStream, StepFrame, At, TypeInv, TypeOK
<1>2. /\ \A t \in Subdevs \ {Sd(v, k)} : running'[t] = running[t]
      /\ ~TurnsOn /\ running'[Sd(v, k)] => running[Sd(v, k)]
  BY SdInSubdevs DEF SetStream, TypeInv, TypeOK
<1>3. \A n \in Kinds \ {k} : Sd(v, n) \in Subdevs \ {Sd(v, k)}
  BY SdInSubdevs DEF Sd
<1>4. k \in {"SENSOR", "CSI"} /\ TurnsOn /\ running[Sd(v, m)]
  BY <1>2, <1>3 DEF Kinds
<1>5. pc[v] = "on_walk" /\ ~walk.undo /\ walk.on = TRUE
  <2>1. walk.on <=> pc[v] = "on_walk"
    BY <1>1 DEF WalkInv
  <2>2. walk.undo => walk.on
    BY <1>1 DEF WalkInv
  <2> QED
    BY <1>1, <1>4, <2>1, <2>2 DEF TurnsOn
<1>6. m \in walk.done
  <2> DEFINE s == Sd(v, m)
  <2>1. m \in Kinds /\ m \notin Shared
    BY SharedAssumption DEF CameraMode, Kinds
  <2>2. s \in Subdevs /\ s.kind = m /\ \A u \in Videos : s = Sd(u, m) => u = v
    BY <2>1, SdInSubdevs DEF Sd
  <2>3. stream_count[s] > 0 /\ stream_count[s] <= Cardinality(StreamUsers(s))
    BY <1>4, <2>2 DEF StreamInv
  <2>4. /\ stream_count[s] \in Nat /\ Cardinality(StreamUsers(s)) \in Nat
        /\ StreamUsers(s) \in SUBSET Videos
    BY <2>2, NodeSets, UsersAreNodes DEF TypeInv, TypeOK
  <2>5. Cardinality(StreamUsers(s)) > 0
    BY <2>3, <2>4
  <2>6. PICK u \in StreamUsers(s) : TRUE
    BY <2>4, <2>5, NodeSets
  <2>7. m \in Started(v)
    BY <2>2, <2>6 DEF StreamUsers
  <2> QED
    BY <1>5, <2>7 DEF Started
<1>7. k \in pipe[v] \ walk.done /\ \A n \in (pipe[v] \ walk.done) \ {k} : Before(TRUE, k, n)
  BY <1>1, <1>5 DEF At
<1>8. Before(TRUE, m, k)
  BY <1>5, <1>6, <1>7 DEF StartInv, OrderInv
<1>9. \A n \in Kinds : ~Before(TRUE, k, n)
  BY <1>4, <1>8, SourceIsLast
<1>10. walk'.done = walk.done \cup {k} /\ walk'.undo = FALSE
  BY <1>1, <1>5 DEF Advance
<1>11. l \in walk'.done
  BY <1>1, <1>7, <1>9, <1>10
<1>12. stream_count'[Sd(v, l)] > 0
  BY <1>1, <1>5, <1>11 DEF StartInv, DoneInv
<1> QED
  BY <1>1, <1>10, <1>12, SdInSubdevs DEF StartInv, RunInv, Refused

(* For any number of nodes with a camera each, in each of the three start orders,  *)
(* and although starts fail and are rolled back: when frames come to flow from a *)
(* camera, all of the pipeline behind it runs.                               *)
THEOREM SourceAlwaysLast == ASSUME CameraMode PROVE Spec => SourceStartsLast
<1>1. Spec => []CountInv
  BY CountsHold DEF CameraMode
<1>2. CountInv /\ StartInv /\ [Next]_vars => StartInv'
  BY StartStep DEF CameraMode
<1>3. CountInv /\ StartInv /\ StartInv' =>
        \A v \in Videos :
          LET flows(r) == r[Sd(v, "SENSOR")] /\ r[Sd(v, "CSI")]
          IN  (\E k \in Kinds : SetStream(v, k)) /\ ~flows(running) /\ flows(running')
                => \A k \in pipe[v] : running'[Sd(v, k)]
  BY SourceStep
<1> QED
  BY <1>1, <1>2, <1>3, StartInit, PTL DEF Spec, SourceStartsLast
================================================================================
