-------------------------- MODULE VinPipelineProofs --------------------------
(***************************************************************************)
(* What VinPipeline satisfies for any number of video nodes, however they     *)
(* share subdevices and whatever fails.                                     *)
(***************************************************************************)
EXTENDS VinPipeline, TLAPS

(* TypeOK bounds files and selected, which takes the steps between a test and *)
(* its effect: at most two openers pass the test of VIN_BUSY, S_INPUT counts   *)
(* its call when it opens the pipeline, and a walk of close has a file.        *)
FilesInv ==
  /\ \A v \in Videos : opening[v] + files[v] <= 2
  /\ \A v \in Videos : pc[v] \in {"in_csi", "in_open"} => selected[v] < MaxInputs
  /\ \A v \in Videos : pc[v] \in {"on_csi", "on_lock"} \cup Walking => files[v] > 0

TypeInv == TypeOK /\ FilesInv

LEMMA SdInSubdevs == \A v \in Videos, k \in Kinds : Sd(v, k) \in Subdevs
  BY DEF Subdevs

(* Every state of a walk.                                                    *)
Walks == [on : BOOLEAN, done : SUBSET Kinds, undo : BOOLEAN]

LEMMA WalksStart ==
  /\ NoWalk \in Walks
  /\ \A v \in Videos, on \in BOOLEAN : StreamWalk(v, on) \in Walks
<1>1. NoWalk \in Walks
  BY DEF NoWalk, Walks
<1>2. ASSUME NEW v \in Videos, NEW on \in BOOLEAN PROVE StreamWalk(v, on) \in Walks
  <2> DEFINE done == IF "SENSOR" \in pipe[v] THEN {} ELSE Kinds
  <2>1. done \in SUBSET Kinds
    OBVIOUS
  <2> QED
    BY <2>1 DEF StreamWalk, Walks
<1> QED
  BY <1>1, <1>2

LEMMA TypeInit == Init => TypeInv
<1> SUFFICES ASSUME Init PROVE TypeInv
  OBVIOUS
<1> USE PipelineAssumption DEF Init
<1>1. opening \in [Videos -> 0 .. 2] /\ files \in [Videos -> 0 .. 2]
  OBVIOUS
<1>2. selected \in [Videos -> 0 .. MaxInputs]
  OBVIOUS
<1>3. /\ busy \in [Videos -> BOOLEAN] /\ lpm \in [Videos -> BOOLEAN]
      /\ streaming \in [Videos -> BOOLEAN] /\ vb2_streaming \in [Videos -> BOOLEAN]
  OBVIOUS
<1>4. pc \in [Videos -> Steps] /\ pipe \in [Videos -> SUBSET Kinds]
  BY DEF Steps, Kinds
<1>5. /\ use_count \in [Subdevs -> Nat] /\ stream_count \in [Subdevs -> Nat]
      /\ powered \in [Subdevs -> BOOLEAN] /\ running \in [Subdevs -> BOOLEAN]
      /\ sensor_link \in [Subdevs -> BOOLEAN] /\ tdm_link \in [Subdevs -> BOOLEAN]
  OBVIOUS
<1>6. walk \in Walks
  BY WalksStart
<1>7. FilesInv
  BY DEF FilesInv, Walking
<1> QED
  BY <1>1, <1>2, <1>3, <1>4, <1>5, <1>6, <1>7 DEF TypeInv, TypeOK, Walks

(* The pieces of an action: what a walk, the power, a link and the end of a     *)
(* call do to the types.                                                    *)
LEMMA TypePower ==
  ASSUME TypeOK, NEW v \in Videos, PowerUp(v) \/ PowerDown(v)
  PROVE  /\ use_count' \in [Subdevs -> Nat] /\ powered' \in [Subdevs -> BOOLEAN]
         /\ ppu' \in [Videos -> Int] /\ md_use_count' \in Nat
<1>1. powered' \in [Subdevs -> BOOLEAN]
  BY DEF PowerUp, PowerDown
<1>2. use_count' \in [Subdevs -> Nat]
  BY DEF TypeOK, PowerUp, PowerDown
<1>3. ppu' \in [Videos -> Int] /\ md_use_count' \in Nat
  BY DEF TypeOK, PowerUp, PowerDown
<1> QED
  BY <1>1, <1>2, <1>3

LEMMA TypeLinks ==
  ASSUME TypeOK, NEW v \in Videos
  PROVE  /\ SensorLinkOn(v) => sensor_link' \in [Subdevs -> BOOLEAN]
         /\ TdmLinkOn(v) => tdm_link' \in [Subdevs -> BOOLEAN]
         /\ LinksOff(v) => /\ sensor_link' \in [Subdevs -> BOOLEAN]
                           /\ tdm_link' \in [Subdevs -> BOOLEAN]
<1>1. sensor_link \in [Subdevs -> BOOLEAN] /\ tdm_link \in [Subdevs -> BOOLEAN]
  BY DEF TypeOK
<1>2. SensorLinkOn(v) => sensor_link' \in [Subdevs -> BOOLEAN]
  BY <1>1 DEF SensorLinkOn
<1>3. TdmLinkOn(v) => tdm_link' \in [Subdevs -> BOOLEAN]
  BY <1>1 DEF TdmLinkOn
<1>4. LinksOff(v) => /\ sensor_link' \in [Subdevs -> BOOLEAN]
                     /\ tdm_link' \in [Subdevs -> BOOLEAN]
  BY <1>1 DEF LinksOff, Streams
<1> QED
  BY <1>2, <1>3, <1>4

LEMMA TypeWalk ==
  ASSUME TypeOK, NEW v \in Videos, NEW k \in Kinds
  PROVE  /\ CountStream(Sd(v, k)) => stream_count' \in [Subdevs -> Nat]
         /\ Advance(k) => walk' \in Walks
<1>1. CountStream(Sd(v, k)) => stream_count' \in [Subdevs -> Nat]
  BY SdInSubdevs DEF TypeOK, CountStream
<1>2. Advance(k) => walk' \in Walks
  BY DEF TypeOK, Advance, Walks
<1> QED
  BY <1>1, <1>2

LEMMA TypeRunning ==
  ASSUME TypeOK, NEW v \in Videos, NEW k \in Kinds, SetStream(v, k)
  PROVE  running' \in [Subdevs -> BOOLEAN]
  BY SdInSubdevs DEF TypeOK, SetStream, TurnsOn

-----------------------------------------------------------------------------
(* Calls and steps that leave the walk, the power and the counts alone.       *)
LEMMA TypeOpen ==
  ASSUME TypeInv, NEW v \in Videos, OpenTest(v) \/ OpenLocked(v)
  PROVE  TypeInv'
<1> USE DEF TypeInv, nodeVars, bitVars, powerVars, streamVars, linkVars
<1>1. /\ opening' \in [Videos -> 0 .. 2] /\ files' \in [Videos -> 0 .. 2]
      /\ \A u \in Videos : opening'[u] + files'[u] <= 2 /\ (files[u] > 0 => files'[u] > 0)
  BY DEF TypeOK, FilesInv, OpenTest, OpenLocked
<1>2. busy' \in [Videos -> BOOLEAN] /\ lpm' \in [Videos -> BOOLEAN]
  BY DEF TypeOK, OpenTest, OpenLocked
<1>3. UNCHANGED <<pc, selected, streaming, vb2_streaming, pipe, powerVars, streamVars, linkVars,
                  graph_mutex, walk>>
  BY DEF OpenTest, OpenLocked
<1>4. TypeOK'
  BY <1>1, <1>2, <1>3 DEF TypeOK
<1>5. FilesInv'
  BY <1>1, <1>3 DEF FilesInv
<1> QED
  BY <1>4, <1>5

(* A step of a call that opens and closes nothing.                           *)
LEMMA FilesStep ==
  ASSUME TypeInv, NEW v \in Videos, NEW step \in Steps, Goto(v, step),
         UNCHANGED <<opening, files, selected>>,
         step \in {"in_csi", "in_open"} => selected[v] < MaxInputs,
         step \in {"on_csi", "on_lock"} \cup Walking => files[v] > 0
  PROVE  FilesInv' /\ pc' \in [Videos -> Steps]
  BY DEF TypeInv, TypeOK, FilesInv, Goto

LEMMA TypeInput ==
  ASSUME TypeInv, NEW v \in Videos, SInput(v) \/ SInputLinksTdm(v)
  PROVE  TypeInv'
<1> USE DEF TypeInv, nodeVars, bitVars, powerVars, streamVars, linkVars, LinkFrame
<1>1. UNCHANGED <<nodeVars, bitVars, pipe, powerVars, streamVars, graph_mutex, walk>>
  BY DEF SInput, SInputLinksTdm
<1>2. sensor_link' \in [Subdevs -> BOOLEAN] /\ tdm_link' \in [Subdevs -> BOOLEAN]
  BY TypeLinks DEF SInput, SInputLinksTdm, TypeOK
<1>3. FilesInv' /\ pc' \in [Videos -> Steps]
  <2>1. CASE UNCHANGED pc
    BY <1>1, <2>1 DEF FilesInv, TypeOK
  <2>2. CASE Goto(v, "in_csi") /\ selected[v] < MaxInputs
    BY <1>1, <2>2, FilesStep DEF Steps, Walking
  <2>3. CASE Goto(v, "in_open") /\ pc[v] = "in_csi"
    BY <1>1, <2>3, FilesStep DEF Steps, Walking, FilesInv
  <2>4. CASE Goto(v, "idle")
    BY <1>1, <2>4, FilesStep DEF Steps, Walking
  <2> QED
    BY <2>1, <2>2, <2>3, <2>4 DEF SInput, SInputLinksTdm
<1> QED
  BY <1>1, <1>2, <1>3 DEF TypeOK

LEMMA TypePipelineOpen ==
  ASSUME TypeInv, NEW v \in Videos, PipelineOpen(v)
  PROVE  TypeInv'
<1> USE DEF TypeInv, streamVars, linkVars
<1>1. /\ use_count' \in [Subdevs -> Nat] /\ powered' \in [Subdevs -> BOOLEAN]
      /\ ppu' \in [Videos -> Int] /\ md_use_count' \in Nat
  BY TypePower DEF PipelineOpen
<1>2. /\ selected' = [selected EXCEPT ![v] = @ + 1] /\ selected[v] < MaxInputs
      /\ pc' = [pc EXCEPT ![v] = "idle"]
      /\ UNCHANGED <<opening, files, busy, streaming, vb2_streaming, streamVars, linkVars,
                     graph_mutex, walk>>
  BY DEF PipelineOpen, FilesInv, Goto
<1>3. selected' \in [Videos -> 0 .. MaxInputs] /\ pc' \in [Videos -> Steps]
  BY <1>2, PipelineAssumption DEF TypeOK, Steps
<1>4. lpm' \in [Videos -> BOOLEAN]
  BY DEF PipelineOpen, SensorInit, TypeOK
<1>5. pipe' \in [Videos -> SUBSET Kinds]
  <2>1. Prepare(v) \in SUBSET Kinds
    BY DEF Prepare, Kinds
  <2> QED
    BY <2>1 DEF PipelineOpen, TypeOK
<1>6. FilesInv'
  BY <1>2 DEF FilesInv, TypeOK, Walking
<1> QED
  BY <1>1, <1>2, <1>3, <1>4, <1>5, <1>6 DEF TypeOK

LEMMA TypeOpenFails ==
  ASSUME TypeInv, NEW v \in Videos, PipelineOpenFails(v)
  PROVE  TypeInv'
<1> USE DEF TypeInv, nodeVars, bitVars, streamVars, linkVars
<1>1. /\ pc' = [pc EXCEPT ![v] = "idle"] /\ graph_mutex' = Kept
      /\ UNCHANGED <<nodeVars, bitVars, use_count, powered, streamVars, linkVars, walk>>
  BY DEF PipelineOpenFails, Goto
<1>2. /\ ppu' \in [Videos -> Int] /\ md_use_count' \in Nat
      /\ pc' \in [Videos -> Steps]
  BY DEF PipelineOpenFails, Goto, TypeOK, Steps
<1>3. pipe' \in [Videos -> SUBSET Kinds]
  <2>1. Prepare(v) \in SUBSET Kinds
    BY DEF Prepare, Kinds
  <2> QED
    BY <2>1 DEF PipelineOpenFails, TypeOK
<1>4. FilesInv'
  BY <1>1 DEF FilesInv, TypeOK, Walking
<1> QED
  BY <1>1, <1>2, <1>3, <1>4 DEF TypeOK

LEMMA TypeStreamon ==
  ASSUME TypeInv, NEW v \in Videos, Streamon(v) \/ StreamonLinksTdm(v)
  PROVE  TypeInv'
<1> USE DEF TypeInv, nodeVars, powerVars, streamVars, LinkFrame
<1>1. UNCHANGED <<nodeVars, streaming, pipe, powerVars, streamVars, graph_mutex, walk>>
  BY DEF Streamon, StreamonLinksTdm
<1>2. sensor_link' \in [Subdevs -> BOOLEAN] /\ tdm_link' \in [Subdevs -> BOOLEAN]
  BY TypeLinks DEF Streamon, StreamonLinksTdm, TypeOK
<1>3. lpm' \in [Videos -> BOOLEAN] /\ vb2_streaming' \in [Videos -> BOOLEAN]
  BY DEF Streamon, StreamonLinksTdm, TypeOK
<1>4. FilesInv' /\ pc' \in [Videos -> Steps]
  <2>1. CASE UNCHANGED pc
    BY <1>1, <2>1 DEF FilesInv, TypeOK
  <2>2. CASE (Goto(v, "on_csi") \/ Goto(v, "on_lock")) /\ files[v] > 0
    BY <1>1, <2>2, FilesStep DEF Steps, Walking
  <2>3. CASE Goto(v, "idle")
    BY <1>1, <2>3, FilesStep DEF Steps, Walking
  <2> QED
    BY <2>1, <2>2, <2>3 DEF Streamon, StreamonLinksTdm, FilesInv
<1> QED
  BY <1>1, <1>2, <1>3, <1>4 DEF TypeOK

-----------------------------------------------------------------------------
(* The mutex and the walks.                                                 *)
LEMMA TypeWalkStarts ==
  ASSUME TypeInv, NEW v \in Videos, StreamonLocked(v) \/ Streamoff(v) \/ CloseStreaming(v)
  PROVE  TypeInv'
<1> USE DEF TypeInv, nodeVars, bitVars, powerVars, streamVars, linkVars
<1>1. UNCHANGED <<nodeVars, lpm, vb2_streaming, pipe, powerVars, streamVars, linkVars>>
  BY DEF StreamonLocked, Streamoff, CloseStreaming
<1>2. graph_mutex' \in Videos \cup {NoVideo} /\ streaming' \in [Videos -> BOOLEAN]
  BY DEF StreamonLocked, Streamoff, CloseStreaming, Lock, TypeOK
<1>3. walk' \in Walks
  BY WalksStart DEF StreamonLocked, Streamoff, CloseStreaming
<1>4. FilesInv' /\ pc' \in [Videos -> Steps]
  <2>1. /\ files[v] > 0
        /\ Goto(v, "on_walk") \/ Goto(v, "off_walk") \/ Goto(v, "close_walk")
    BY DEF StreamonLocked, Streamoff, CloseStreaming, CloseOf, FilesInv
  <2> QED
    BY <1>1, <2>1, FilesStep DEF Steps, Walking
<1> QED
  BY <1>1, <1>2, <1>3, <1>4 DEF TypeOK, Walks

LEMMA TypeSetStream ==
  ASSUME TypeInv, NEW v \in Videos,
         \E k \in Kinds : SetStream(v, k) \/ SetStreamFails(v, k)
  PROVE  TypeInv'
<1> USE DEF TypeInv, StepFrame, nodeVars, bitVars, powerVars, linkVars
<1>1. UNCHANGED <<pc, nodeVars, bitVars, pipe, powerVars, linkVars, graph_mutex>>
  BY DEF SetStream, SetStreamFails
<1>2. stream_count' \in [Subdevs -> Nat] /\ running' \in [Subdevs -> BOOLEAN]
  <2>1. ASSUME NEW k \in Kinds, SetStream(v, k)
        PROVE  stream_count' \in [Subdevs -> Nat] /\ running' \in [Subdevs -> BOOLEAN]
    BY <2>1, TypeWalk, TypeRunning DEF SetStream
  <2>2. ASSUME NEW k \in Kinds, SetStreamFails(v, k)
        PROVE  stream_count' \in [Subdevs -> Nat] /\ running' \in [Subdevs -> BOOLEAN]
    BY <2>2, TypeWalk DEF SetStreamFails, TypeOK
  <2> QED
    BY <2>1, <2>2
<1>3. walk' \in Walks
  <2>1. ASSUME NEW k \in Kinds, SetStream(v, k)
        PROVE  walk' \in Walks
    BY <2>1, TypeWalk DEF SetStream
  <2>2. ASSUME NEW k \in Kinds, walk' = [walk EXCEPT !.undo = TRUE, !.done = @ \cup {k}]
        PROVE  walk' \in Walks
    BY <2>2 DEF TypeOK, Walks
  <2>3. ASSUME NEW k \in Kinds, SetStreamFails(v, k)
        PROVE  walk' \in Walks
    BY <2>2, <2>3, TypeWalk DEF SetStreamFails
  <2> QED
    BY <2>1, <2>3
<1>4. FilesInv'
  BY <1>1 DEF FilesInv
<1> QED
  BY <1>1, <1>2, <1>3, <1>4 DEF TypeOK, Walks

LEMMA TypeStreamDone ==
  ASSUME TypeInv, NEW v \in Videos, StreamonDone(v) \/ StreamoffDone(v)
  PROVE  TypeInv'
<1> USE DEF TypeInv, nodeVars, powerVars, streamVars, linkVars
<1>1. UNCHANGED <<nodeVars, pipe, powerVars, streamVars>>
  BY DEF StreamonDone, StreamoffDone
<1>2. sensor_link' \in [Subdevs -> BOOLEAN] /\ tdm_link' \in [Subdevs -> BOOLEAN]
  BY TypeLinks DEF StreamonDone, StreamoffDone, TypeOK
<1>3. /\ lpm' \in [Videos -> BOOLEAN] /\ streaming' \in [Videos -> BOOLEAN]
      /\ vb2_streaming' \in [Videos -> BOOLEAN]
  BY DEF StreamonDone, StreamoffDone, TypeOK
<1>4. /\ graph_mutex' \in Videos \cup {NoVideo}
      /\ walk' \in Walks
  BY WalksStart DEF StreamonDone, StreamoffDone, Unlock
<1>5. Goto(v, "idle")
  BY DEF StreamonDone, StreamoffDone
<1>6. FilesInv' /\ pc' \in [Videos -> Steps]
  BY <1>1, <1>5, FilesStep DEF Steps, Walking
<1> QED
  BY <1>1, <1>2, <1>3, <1>4, <1>6 DEF TypeOK, Walks

-----------------------------------------------------------------------------
(* close, and the theorem.                                                  *)
LEMMA TypeReleased ==
  ASSUME TypeInv, NEW v \in Videos, Released(v), files[v] > 0
  PROVE  /\ FilesInv' /\ pc' \in [Videos -> Steps]
         /\ opening' \in [Videos -> 0 .. 2] /\ files' \in [Videos -> 0 .. 2]
         /\ selected' \in [Videos -> 0 .. MaxInputs]
         /\ busy' \in [Videos -> BOOLEAN] /\ lpm' \in [Videos -> BOOLEAN]
         /\ vb2_streaming' \in [Videos -> BOOLEAN]
<1> USE DEF TypeInv, TypeOK, Released, Goto
<1>1. /\ busy' \in [Videos -> BOOLEAN] /\ lpm' \in [Videos -> BOOLEAN]
      /\ vb2_streaming' \in [Videos -> BOOLEAN]
  OBVIOUS
<1>2. /\ opening' = opening /\ files' = [files EXCEPT ![v] = @ - 1]
      /\ selected' = [selected EXCEPT ![v] = 0] /\ pc' = [pc EXCEPT ![v] = "idle"]
  OBVIOUS
<1>3. /\ opening' \in [Videos -> 0 .. 2] /\ files' \in [Videos -> 0 .. 2]
      /\ selected' \in [Videos -> 0 .. MaxInputs] /\ pc' \in [Videos -> Steps]
  BY <1>2, PipelineAssumption DEF Steps
<1>4. FilesInv'
  BY <1>2 DEF FilesInv, Walking
<1> QED
  BY <1>1, <1>3, <1>4

LEMMA TypePipelineClose ==
  ASSUME TypeInv, NEW v \in Videos, PipelineClose(v), files[v] > 0
  PROVE  TypeInv'
<1>1. /\ use_count' \in [Subdevs -> Nat] /\ powered' \in [Subdevs -> BOOLEAN]
      /\ ppu' \in [Videos -> Int] /\ md_use_count' \in Nat
  BY TypePower DEF TypeInv, PipelineClose
<1>2. sensor_link' \in [Subdevs -> BOOLEAN] /\ tdm_link' \in [Subdevs -> BOOLEAN]
  BY TypeLinks DEF TypeInv, TypeOK, PipelineClose, linkVars
<1>3. graph_mutex' \in Videos \cup {NoVideo} /\ walk' \in Walks
  BY WalksStart DEF PipelineClose, Unlock
<1>4. UNCHANGED <<streaming, pipe, stream_count, running>>
  BY DEF PipelineClose, streamVars
<1>5. Released(v)
  BY DEF PipelineClose
<1> QED
  BY <1>1, <1>2, <1>3, <1>4, <1>5, TypeReleased DEF TypeInv, TypeOK, Walks

LEMMA TypeClose ==
  ASSUME TypeInv, NEW v \in Videos,
         CloseClosed(v) \/ CloseUnused(v) \/ CloseStopped(v) \/ CloseWalked(v)
  PROVE  TypeInv'
<1>1. CASE CloseClosed(v)
  <2> USE DEF TypeInv
  <2>1. /\ files[v] > 0 /\ pc[v] = "idle" /\ files' = [files EXCEPT ![v] = @ - 1]
        /\ UNCHANGED <<pc, opening, selected, busy, bitVars, pipe, powerVars, streamVars,
                       linkVars, graph_mutex, walk>>
    BY <1>1 DEF CloseClosed, CloseOf
  <2>2. files' \in [Videos -> 0 .. 2]
    BY <2>1 DEF TypeOK
  <2>3. FilesInv'
    BY <2>1 DEF FilesInv, TypeOK, Walking
  <2> QED
    BY <2>1, <2>2, <2>3 DEF TypeOK, bitVars, powerVars, streamVars, linkVars
<1>2. CASE CloseUnused(v)
  <2>1. Released(v) /\ files[v] > 0
    BY <1>2 DEF CloseUnused, CloseOf
  <2> QED
    BY <1>2, <2>1, TypeReleased
    DEF CloseUnused, TypeInv, TypeOK, powerVars, streamVars, linkVars
<1>3. CASE CloseStopped(v) \/ CloseWalked(v)
  <2>1. PipelineClose(v) /\ files[v] > 0
    BY <1>3 DEF CloseStopped, CloseWalked, CloseOf, TypeInv, FilesInv, Walking
  <2> QED
    BY <2>1, TypePipelineClose
<1> QED
  BY <1>1, <1>2, <1>3

LEMMA TypeStep == TypeInv /\ [Next]_vars => TypeInv'
<1> SUFFICES ASSUME TypeInv, [Next]_vars PROVE TypeInv'
  OBVIOUS
<1>1. ASSUME NEW v \in Videos, Call(v) PROVE TypeInv'
  BY <1>1, TypeOpen, TypeInput, TypeStreamon, TypeWalkStarts, TypeClose DEF Call
<1>2. ASSUME NEW v \in Videos, Progress(v) PROVE TypeInv'
  BY <1>2, TypeOpen, TypeInput, TypePipelineOpen, TypeOpenFails, TypeStreamon, TypeWalkStarts,
     TypeSetStream, TypeStreamDone, TypeClose DEF Progress
<1>3. CASE UNCHANGED vars
  BY <1>3 DEF vars, nodeVars, bitVars, powerVars, streamVars, linkVars, TypeInv, TypeOK, FilesInv
<1>4. ASSUME NEW slept \in SUBSET Videos, SuspendResume(slept) PROVE TypeInv'
  <2>1. lpm' \in [Videos -> BOOLEAN]
    BY <1>4 DEF SuspendResume
  <2> QED
    BY <1>4, <2>1
    DEF SuspendResume, nodeVars, powerVars, streamVars, linkVars, TypeInv, TypeOK, FilesInv
<1> QED
  BY <1>1, <1>2, <1>3, <1>4 DEF Next

(* The variables keep their types, for any number of nodes, whatever they      *)
(* share and with every fault; counts never go below zero.                    *)
THEOREM TypeCorrect == Spec => []TypeOK
<1>1. TypeInv => TypeOK
  BY DEF TypeInv
<1> QED
  BY <1>1, TypeInit, TypeStep, PTL DEF Spec
=============================================================================
