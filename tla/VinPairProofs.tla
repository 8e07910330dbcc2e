---------------------------- MODULE VinPairProofs ----------------------------
(***************************************************************************)
(* What the pair keeps whatever its applications ask for, one at a time.       *)
(* PairInv holds in whichever order they call S_PARM and S_FMT, and whether or  *)
(* not the sensor is found, the format is set again, or a process is killed;   *)
(* FullInv adds what a full frame needs (S_FMT first), and CareInv what the    *)
(* next application needs (merges are asked for where they are meant).          *)
(***************************************************************************)
EXTENDS VinPair, FiniteSetTheorems, TLAPS

(* No start fails, and no two applications use the nodes at the same time.     *)
PairMode == {"start", "two_users"} \cap Faults = {}

(* One application at a time calls in the order that it needs.                 *)
SessionInv ==
  /\ \A v, w \in Videos : request[v] # NoRequest /\ request[w] # NoRequest => v = w
  /\ \A v \in Videos :
       /\ request[v] = NoRequest => did[v] = {} /\ half[v] = "none"
       /\ {"parm", "fmt"} \cap did[v] # {} => "input" \in did[v]
       /\ "on" \in did[v] => {"parm", "fmt"} \subseteq did[v]
       /\ "input" \in did[v] /\ request[v].merge => "merge" \in did[v]

(* S_INPUT has found the sensor and powered the nodes that the session acts on;  *)
(* half-way through it has done so for the bind.                              *)
InputInv ==
  \A v \in Videos :
    /\ "input" \in did[v] =>
         sensor_use > 0 /\ \A n \in Nodes(v) : has_sensor[n] /\ use_count[n] > 0
    /\ half[v] = "input" => sensor_use > 0 /\ has_sensor[Bind] /\ use_count[Bind] > 0

(* The nodes that stream are those of the application that has started them;    *)
(* they are counted once, and their receivers have the buffers of their image.  *)
StreamInv ==
  /\ \A n \in Videos :
       /\ streaming[n] => \E v \in Videos : "on" \in did[v] /\ n \in Nodes(v)
       /\ stream_count[n] = IF streaming[n] THEN 1 ELSE 0
       /\ rx_bufs[n] = IF streaming[n] THEN <<frame[n], halved[n]>> ELSE NoBuffer
  /\ \A v \in Videos : "on" \in did[v] => \A n \in Nodes(v) : streaming[n]
  /\ sensor_stream = Cardinality({n \in Videos : streaming[n]})

PairInv == TypeOK /\ SessionInv /\ InputInv /\ StreamInv

-----------------------------------------------------------------------------
LEMMA CountNodes ==
  /\ Cardinality({}) = 0
  /\ \A S \in SUBSET Videos : IsFiniteSet(S) /\ Cardinality(S) \in 0 .. 2
<1>1. IsFiniteSet(Videos) /\ Cardinality(Videos) <= 2
  <2>1. IsFiniteSet({Bind}) /\ Cardinality({Bind}) = 1
    BY FS_Singleton
  <2>2. Videos = {Bind} \cup {Main}
    BY DEF Videos
  <2> QED
    BY <2>1, <2>2, FS_AddElement
<1>2. ASSUME NEW S \in SUBSET Videos PROVE IsFiniteSet(S) /\ Cardinality(S) \in 0 .. 2
  <2>1. IsFiniteSet(S) /\ Cardinality(S) <= Cardinality(Videos)
    BY <1>1, FS_Subset
  <2> QED
    BY <1>1, <2>1, FS_CardinalityType
<1> QED
  BY <1>2, FS_EmptySet

LEMMA PairInit == Init => PairInv
<1> SUFFICES ASSUME Init PROVE PairInv
  OBVIOUS
<1> USE DEF Init, All
<1>1. TypeOK
  <2>1. 0 \in 0 .. MaxHalvings
    BY PairAssumption
  <2>2. half \in [Videos -> {"none", "input", "parm", "fmt"}]
    OBVIOUS
  <2>3. frame \in [Videos -> Sizes \cup {"unset"}] /\ halved \in [Videos -> 0 .. MaxHalvings]
    BY <2>1
  <2>4. /\ request \in [Videos -> Requests \cup {NoRequest}]
        /\ did \in [Videos -> SUBSET (Calls \cup {"error"})]
    OBVIOUS
  <2>5. /\ target \in [Videos -> Videos \cup {NoBuffer}]
        /\ rx_bufs \in [Videos -> Images \cup {NoBuffer}]
    OBVIOUS
  <2>6. /\ dma_merge_mode \in [Videos -> BOOLEAN] /\ large_image \in [Videos -> BOOLEAN]
        /\ lpm \in [Videos -> BOOLEAN] /\ streaming \in [Videos -> BOOLEAN]
        /\ vb2_streaming \in [Videos -> BOOLEAN] /\ irq \in [Videos -> BOOLEAN]
        /\ has_sensor \in [Videos -> BOOLEAN] /\ tdm_link \in [Videos -> BOOLEAN]
        /\ csi_large \in BOOLEAN /\ sensor_link \in BOOLEAN
    OBVIOUS
  <2>7. /\ use_count \in [Videos -> Nat] /\ stream_count \in [Videos -> 0 .. 2]
        /\ sensor_use \in Nat /\ sensor_stream \in 0 .. 4
    OBVIOUS
  <2> HIDE DEF Init, All
  <2> QED
    BY <2>2, <2>3, <2>4, <2>5, <2>6, <2>7 DEF TypeOK
<1>2. SessionInv /\ InputInv
  BY DEF SessionInv, InputInv
<1>3. {n \in Videos : streaming[n]} = {}
  OBVIOUS
<1>4. StreamInv
  BY <1>3, CountNodes DEF StreamInv
<1> QED
  BY <1>1, <1>2, <1>4 DEF PairInv

(* Nobody streams while the application that is there has not started to.       *)
LEMMA NotStreaming ==
  ASSUME SessionInv, StreamInv, NEW v \in Videos, request[v] # NoRequest, "on" \notin did[v]
  PROVE  \A n \in Videos : ~streaming[n]
  BY DEF SessionInv, StreamInv

(* Between two calls nobody is left with a session.                           *)
LEMMA OthersIdle ==
  ASSUME SessionInv, NEW v \in Videos, request[v] # NoRequest
  PROVE  \A w \in Videos \ {v} : request[w] = NoRequest /\ did[w] = {} /\ half[w] = "none"
  BY DEF SessionInv

-----------------------------------------------------------------------------
(* Every action but those that start and stop streams.                        *)

LEMMA OpenKeeps ==
  ASSUME PairMode, PairInv, NEW v \in Videos, Open(v)
  PROVE  PairInv'
<1> USE DEF PairInv, Open, modeVars, dmaVars, streamVars, powerVars, linkVars
<1>1. TypeOK'
  <2>1. request'[v] \in Requests /\ request' = [request EXCEPT ![v] = request'[v]]
    BY DEF TypeOK
  <2> QED
    BY <2>1 DEF TypeOK
<1>2. \A w \in Videos : request[w] = NoRequest
  BY DEF PairMode, All
<1>3. did' = did
  BY <1>2 DEF SessionInv, TypeOK
<1>4. SessionInv'
  BY <1>2, <1>3 DEF SessionInv, TypeOK
<1>5. InputInv' /\ StreamInv'
  BY <1>3 DEF InputInv, StreamInv, Nodes
<1> QED
  BY <1>1, <1>4, <1>5

LEMMA SetDmaMergeKeeps ==
  ASSUME PairInv, NEW v \in Videos, SetDmaMerge(v)
  PROVE  PairInv'
<1> USE DEF PairInv, SetDmaMerge, Calling, dmaVars, streamVars, powerVars, linkVars
<1>1. TypeOK'
  BY DEF TypeOK, Calls
<1>2. SessionInv'
  BY DEF SessionInv, TypeOK
<1>3. "input" \notin did[v] /\ "on" \notin did[v]
  BY DEF SessionInv
<1>4. \A w \in Videos : "input" \notin did'[w] /\ "on" \notin did'[w]
  BY <1>3, OthersIdle DEF TypeOK
<1>5. \A n \in Videos : ~streaming[n]
  BY <1>3, NotStreaming
<1>6. InputInv' /\ StreamInv'
  BY <1>4, <1>5 DEF InputInv, StreamInv
<1> QED
  BY <1>1, <1>2, <1>6

(* What a call whose bind half or whose own half is done leaves of a session.    *)
LEMMA ReturnKeeps ==
  ASSUME TypeOK, SessionInv, NEW v \in Videos, NEW ok \in BOOLEAN,
         NEW call \in {"input", "parm", "fmt"}, Calling(v, call), Return(v, call, ok)
  PROVE  /\ SessionInv' /\ "on" \notin did[v]
         /\ did' \in [Videos -> SUBSET (Calls \cup {"error"})]
         /\ half' \in [Videos -> {"none", "input", "parm", "fmt"}]
         /\ request' = request
         /\ \A w \in Videos : "on" \in did'[w] <=> "on" \in did[w]
<1> USE DEF TypeOK, Calling, Return
<1>1. did' \in [Videos -> SUBSET (Calls \cup {"error"})]
  BY DEF Calls
<1>2. half' \in [Videos -> {"none", "input", "parm", "fmt"}]
  OBVIOUS
<1>3. "on" \notin did[v] \/ call = "input"
  BY DEF SessionInv
<1>4. "on" \notin did[v]
  BY <1>3 DEF SessionInv
<1>5. \A w \in Videos : w # v => did'[w] = did[w] /\ half'[w] = half[w]
  OBVIOUS
<1>6. did[v] \subseteq did'[v] /\ did'[v] \subseteq did[v] \cup {call, "error"}
  OBVIOUS
<1>7. "on" \notin did'[v]
  BY <1>4, <1>6
<1>8. {"parm", "fmt"} \cap did'[v] # {} => "input" \in did'[v]
  BY <1>6 DEF SessionInv, Needs
<1>9. "input" \in did'[v] /\ request[v].merge => "merge" \in did'[v]
  BY <1>6 DEF SessionInv, Needs
<1>10. SessionInv'
  BY <1>5, <1>7, <1>8, <1>9 DEF SessionInv
<1> QED
  BY <1>1, <1>2, <1>4, <1>5, <1>7, <1>10

(* S_INPUT succeeds only if the sensor is found and its users are counted.        *)
LEMMA SInputReturns ==
  ASSUME TypeOK, NEW v \in Videos, SInput(v)
  PROVE  \E ok \in BOOLEAN :
           /\ Calling(v, "input") /\ Return(v, "input", ok)
           /\ ok => LET n == Turn(v, "input")
                    IN  has_sensor'[n] /\ use_count'[n] > 0 /\ sensor_use' > 0
<1> DEFINE n == Turn(v, "input")
<1>0. n \in Videos
  BY DEF Turn, Videos
<1>1. CASE TdmLinkable(n)
  <2>1. PICK found \in {has_sensor'[n], has_sensor'[n] /\ ~InitFails(n)} :
          Return(v, "input", found)
    BY <1>1 DEF SInput
  <2>2. has_sensor'[n] \in BOOLEAN /\ use_count'[n] = use_count[n] + 1
    BY <1>0, <1>1 DEF SInput, LinksOn, TypeOK
  <2>3. has_sensor'[n] => sensor_use' = sensor_use + 1
    BY <1>1 DEF SInput
  <2>4. found \in BOOLEAN /\ (found => has_sensor'[n])
    BY <2>2
  <2>5. found => use_count'[n] > 0 /\ sensor_use' > 0
    BY <1>0, <2>2, <2>3, <2>4 DEF TypeOK
  <2> QED
    BY <2>1, <2>4, <2>5 DEF SInput
<1>2. CASE ~TdmLinkable(n)
  BY <1>2 DEF SInput
<1> QED
  BY <1>1, <1>2

LEMMA SInputKeeps ==
  ASSUME PairInv, NEW v \in Videos, SInput(v)
  PROVE  PairInv'
<1> DEFINE n == Turn(v, "input")
<1> USE DEF PairInv, modeVars, dmaVars, streamVars
<1>1. n \in Videos
  BY DEF Turn, Videos
<1>2. PICK ok \in BOOLEAN :
        /\ Calling(v, "input") /\ Return(v, "input", ok)
        /\ ok => has_sensor'[n] /\ use_count'[n] > 0 /\ sensor_use' > 0
  BY SInputReturns
<1>3. /\ tdm_link' \in [Videos -> BOOLEAN] /\ sensor_link' \in BOOLEAN
      /\ has_sensor' \in [Videos -> BOOLEAN] /\ use_count' \in [Videos -> Nat]
      /\ sensor_use' \in Nat /\ lpm' \in [Videos -> BOOLEAN]
  <2>1. sensor_link' \in BOOLEAN /\ tdm_link' \in [Videos -> BOOLEAN]
    BY <1>1 DEF SInput, LinksOn, TdmLinkable, TypeOK
  <2>2. CASE TdmLinkable(n)
    <3>1. has_sensor' \in [Videos -> BOOLEAN]
      <4> DEFINE seen == sensor_link' /\ tdm_link'[n]
      <4>1. has_sensor' = [has_sensor EXCEPT ![n] = seen]
        BY <2>2 DEF SInput
      <4>2. seen \in BOOLEAN
        OBVIOUS
      <4> HIDE DEF seen
      <4> QED
        BY <4>1, <4>2 DEF TypeOK
    <3>2. use_count' \in [Videos -> Nat]
      BY <1>1, <2>2 DEF SInput, TypeOK
    <3>3. sensor_use' \in Nat
      BY <2>2 DEF SInput, TypeOK
    <3>4. lpm' \in [Videos -> BOOLEAN]
      <4>1. PICK found : lpm' = [lpm EXCEPT ![n] = @ /\ ~found]
        BY <2>2 DEF SInput
      <4> DEFINE low == lpm[n] /\ ~found
      <4>2. lpm' = [lpm EXCEPT ![n] = low] /\ low \in BOOLEAN
        BY <4>1
      <4> HIDE DEF low
      <4> QED
        BY <4>2 DEF TypeOK
    <3> QED
      BY <2>1, <3>1, <3>2, <3>3, <3>4
  <2>3. CASE ~TdmLinkable(n)
    BY <2>1, <2>3 DEF SInput, powerVars, TypeOK
  <2> QED
    BY <2>2, <2>3
<1>4. /\ SessionInv' /\ "on" \notin did[v]
      /\ did' \in [Videos -> SUBSET (Calls \cup {"error"})]
      /\ half' \in [Videos -> {"none", "input", "parm", "fmt"}]
      /\ request' = request
      /\ \A w \in Videos : "on" \in did'[w] <=> "on" \in did[w]
  BY <1>2, ReturnKeeps
<1>5. UNCHANGED <<modeVars, dmaVars, streamVars, vb2_streaming>>
  BY DEF SInput
<1>6. TypeOK'
  BY <1>3, <1>4, <1>5 DEF TypeOK
<1>7. \A w \in Videos : Nodes(w)' = Nodes(w)
  BY <1>5 DEF Nodes
<1>8. StreamInv'
  BY <1>4, <1>5, <1>7 DEF StreamInv
<1>9. InputInv'
  <2>1. "input" \notin did[v] /\ request[v] # NoRequest /\ half[v] \in {"none", "input"}
    BY <1>2 DEF Calling
  <2>2. \A w \in Videos \ {v} : did'[w] = {} /\ half'[w] = "none"
    BY <1>2, <2>1, OthersIdle DEF Return, TypeOK
  <2>3. ASSUME "input" \in did'[v]
        PROVE  sensor_use' > 0 /\ \A m \in Nodes(v) : has_sensor'[m] /\ use_count'[m] > 0
    <3>1. ok /\ n = v
      BY <1>2, <2>1, <2>3 DEF Return, TypeOK
    <3>2. has_sensor'[v] /\ use_count'[v] > 0 /\ sensor_use' > 0
      BY <1>2, <3>1
    <3>3. CASE Nodes(v) = {v}
      BY <3>2, <3>3
    <3>4. CASE Nodes(v) = Videos /\ v = Main
      <4>1. half[v] = "input"
        BY <3>1, <3>4, PairAssumption DEF Turn, Videos
      <4>2. has_sensor[Bind] /\ use_count[Bind] > 0
        BY <4>1 DEF InputInv
      <4>3. has_sensor'[Bind] = has_sensor[Bind] /\ use_count'[Bind] = use_count[Bind]
        BY <3>1, <3>4, PairAssumption DEF SInput, powerVars, TypeOK, Videos
      <4> QED
        BY <3>2, <3>4, <4>2, <4>3 DEF Videos
    <3> QED
      BY <3>3, <3>4 DEF Nodes
  <2>4. ASSUME half'[v] = "input"
        PROVE  sensor_use' > 0 /\ has_sensor'[Bind] /\ use_count'[Bind] > 0
    <3>1. ok /\ n # v
      BY <1>2, <2>4 DEF Return, TypeOK
    <3>2. n = Bind
      BY <3>1 DEF Turn
    <3> QED
      BY <1>2, <3>1, <3>2
  <2> QED
    BY <1>7, <2>2, <2>3, <2>4 DEF InputInv
<1> QED
  BY <1>4, <1>6, <1>8, <1>9

LEMMA SParmKeeps ==
  ASSUME PairInv, NEW v \in Videos, SParm(v)
  PROVE  PairInv'
<1> DEFINE n == Turn(v, "parm")
<1> USE DEF PairInv, dmaVars, streamVars, powerVars, linkVars
<1>1. n \in Videos
  BY DEF Turn, Videos
<1>2. Calling(v, "parm") /\ Return(v, "parm", has_sensor[n]) /\ has_sensor[n] \in BOOLEAN
  BY <1>1 DEF SParm, TypeOK
<1>3. /\ SessionInv' /\ "on" \notin did[v]
      /\ did' \in [Videos -> SUBSET (Calls \cup {"error"})]
      /\ half' \in [Videos -> {"none", "input", "parm", "fmt"}]
      /\ request' = request
      /\ \A w \in Videos : "on" \in did'[w] <=> "on" \in did[w]
  BY <1>2, ReturnKeeps
<1>4. UNCHANGED <<frame, dmaVars, streamVars, powerVars, linkVars, lpm, vb2_streaming>>
  BY DEF SParm
<1>5. Stitches(n) \in BOOLEAN
  BY <1>1 DEF Stitches, TypeOK
<1>6. /\ dma_merge_mode' = [dma_merge_mode EXCEPT ![n] = Stitches(n)]
      /\ large_image' = [large_image EXCEPT ![n] = Stitches(n)]
      /\ csi_large' \in BOOLEAN
  BY <1>5 DEF SParm, TypeOK
<1>7. TypeOK'
  BY <1>3, <1>4, <1>5, <1>6 DEF TypeOK
<1>8. request[v] # NoRequest /\ half[v] \in {"none", "parm"}
  BY <1>2 DEF Calling
<1>9. \A w \in Videos : ~streaming[w] /\ "on" \notin did[w]
  BY <1>3, <1>8, NotStreaming, OthersIdle
<1>10. StreamInv'
  BY <1>3, <1>4, <1>9 DEF StreamInv
<1>11. \A w \in Videos : "input" \in did'[w] <=> "input" \in did[w]
  BY <1>2 DEF Return, TypeOK
<1>12. \A w \in Videos : half'[w] # "input"
  BY <1>2, <1>8, OthersIdle DEF Return, TypeOK
<1>13. \A w \in Videos : Nodes(w)' \subseteq Nodes(w)
  BY <1>6 DEF Nodes, Stitches, TypeOK, Videos
<1>14. InputInv'
  BY <1>4, <1>11, <1>12, <1>13 DEF InputInv
<1> QED
  BY <1>3, <1>7, <1>10, <1>14

LEMMA SFmtKeeps ==
  ASSUME PairInv, NEW v \in Videos, SFmt(v)
  PROVE  PairInv'
<1> DEFINE n == Turn(v, "fmt")
           ok == ~streaming[n] /\ has_sensor[n]
<1> USE DEF PairInv, streamVars, powerVars, linkVars
<1>1. n \in Videos
  BY DEF Turn, Videos
<1>2. Calling(v, "fmt") /\ Return(v, "fmt", ok) /\ ok \in BOOLEAN
  BY <1>1 DEF SFmt, TypeOK
<1>3. /\ SessionInv' /\ "on" \notin did[v]
      /\ did' \in [Videos -> SUBSET (Calls \cup {"error"})]
      /\ half' \in [Videos -> {"none", "input", "parm", "fmt"}]
      /\ request' = request
      /\ \A w \in Videos : "on" \in did'[w] <=> "on" \in did[w]
  BY <1>2, ReturnKeeps
<1>4. /\ UNCHANGED <<dma_merge_mode, large_image, csi_large, irq, target, rx_bufs>>
      /\ UNCHANGED <<streamVars, powerVars, linkVars, lpm, vb2_streaming>>
  BY DEF SFmt
<1>5. request[v] \in Requests
  BY <1>2 DEF Calling, TypeOK
<1>6. request[v].size \in Sizes
  BY <1>5, PairAssumption
<1>7. frame' \in [Videos -> Sizes \cup {"unset"}] /\ halved' \in [Videos -> 0 .. MaxHalvings]
  BY <1>1, <1>6, PairAssumption DEF SFmt, TypeOK
<1>8. TypeOK'
  BY <1>3, <1>4, <1>7 DEF TypeOK
<1>9. request[v] # NoRequest /\ half[v] \in {"none", "fmt"}
  BY <1>2 DEF Calling
<1>10. \A w \in Videos : ~streaming[w] /\ "on" \notin did[w]
  BY <1>3, <1>9, NotStreaming, OthersIdle
<1>11. StreamInv'
  BY <1>3, <1>4, <1>10 DEF StreamInv
<1>12. \A w \in Videos : "input" \in did'[w] <=> "input" \in did[w]
  BY <1>2 DEF Return, TypeOK
<1>13. \A w \in Videos : half'[w] # "input"
  BY <1>2, <1>9, OthersIdle DEF Return, TypeOK
<1>14. InputInv'
  BY <1>4, <1>12, <1>13 DEF InputInv, Nodes
<1> QED
  BY <1>3, <1>8, <1>11, <1>14

LEMMA VsyncKeeps ==
  ASSUME PairInv, NEW v \in Videos, Vsync(v)
  PROVE  PairInv'
<1> USE DEF PairInv, Vsync, appVars, modeVars, streamVars, powerVars, linkVars
<1>1. target' \in [Videos -> Videos \cup {NoBuffer}]
  BY DEF Written, TypeOK
<1>2. TypeOK'
  BY <1>1 DEF TypeOK
<1>3. SessionInv' /\ InputInv' /\ StreamInv'
  BY DEF SessionInv, InputInv, StreamInv, Nodes
<1> QED
  BY <1>2, <1>3

-----------------------------------------------------------------------------
(* Starting and stopping.                                                    *)

LEMMA StreamonReturns ==
  ASSUME NEW v \in Videos, Streamon(v)
  PROVE  \E call \in {"on", "error"} :
           /\ did' = [did EXCEPT ![v] = @ \cup {call}]
           /\ call = "on" => ~lpm[v] \/ TdmLinkable(v)
<1>1. CASE ~lpm[v] \/ TdmLinkable(v)
  BY <1>1 DEF Streamon
<1>2. CASE ~(~lpm[v] \/ TdmLinkable(v))
  BY <1>2 DEF Streamon
<1> QED
  BY <1>1, <1>2

LEMMA StreamonKeeps ==
  ASSUME PairMode, PairInv, NEW v \in Videos, Streamon(v)
  PROVE  PairInv'
<1> DEFINE linked == ~lpm[v] \/ TdmLinkable(v)
<1> USE DEF PairInv
<1>1. /\ Calling(v, "on") /\ half[v] = "none" /\ \A n \in Nodes(v) : halved[n] < MaxHalvings
      /\ vb2_streaming' = [vb2_streaming EXCEPT ![v] = TRUE]
      /\ UNCHANGED <<request, half, modeVars, powerVars>>
  BY DEF Streamon
<1>2. request[v] # NoRequest /\ "on" \notin did[v] /\ {"parm", "fmt"} \subseteq did[v]
  BY <1>1 DEF Calling, Needs
<1>3. "input" \in did[v]
  BY <1>2 DEF SessionInv
<1>4. \A w \in Videos : ~streaming[w]
  BY <1>2, NotStreaming
<1>5. \A w \in Videos \ {v} : did[w] = {}
  BY <1>2, OthersIdle
<1>6. \A w \in Videos : Nodes(w)' = Nodes(w)
  BY <1>1 DEF modeVars, Nodes
<1>7. PICK call \in {"on", "error"} :
        /\ did' = [did EXCEPT ![v] = @ \cup {call}]
        /\ call = "on" => linked
  BY StreamonReturns
<1>8. SessionInv'
  BY <1>1, <1>2, <1>3, <1>7 DEF SessionInv, TypeOK
<1>9. InputInv'
  BY <1>1, <1>6, <1>7 DEF InputInv, TypeOK, powerVars
<1>10. /\ did' \in [Videos -> SUBSET (Calls \cup {"error"})]
       /\ tdm_link' \in [Videos -> BOOLEAN] /\ sensor_link' \in BOOLEAN
       /\ lpm' \in [Videos -> BOOLEAN] /\ vb2_streaming' \in [Videos -> BOOLEAN]
  <2>1. did' \in [Videos -> SUBSET (Calls \cup {"error"})]
    BY <1>7 DEF TypeOK, Calls
  <2>2. tdm_link' \in [Videos -> BOOLEAN] /\ sensor_link' \in BOOLEAN
    BY DEF Streamon, LinksOn, TdmLinkable, TypeOK, linkVars
  <2>3. lpm' \in [Videos -> BOOLEAN]
    BY DEF Streamon, TypeOK
  <2> QED
    BY <1>1, <2>1, <2>2, <2>3 DEF TypeOK
<1>11. CASE ~linked
  <2>1. UNCHANGED <<dmaVars, streamVars>> /\ call = "error"
    BY <1>7, <1>11 DEF Streamon
  <2>2. TypeOK'
    BY <1>1, <1>10, <2>1 DEF TypeOK, dmaVars, streamVars, modeVars, powerVars
  <2>3. StreamInv'
    BY <1>1, <1>4, <1>5, <1>6, <1>7, <2>1 DEF StreamInv, TypeOK, dmaVars, streamVars, modeVars
  <2> QED
    BY <1>8, <1>9, <2>2, <2>3
<1>12. CASE linked
  <2>1. PipelinesStart(v, {}) /\ did' = [did EXCEPT ![v] = @ \cup {"on"}]
    <3>1. StartFailures(v) = {{}}
      BY DEF StartFailures, PairMode
    <3>2. PICK failed \in StartFailures(v) :
            /\ PipelinesStart(v, failed)
            /\ did' = [did EXCEPT ![v] = @ \cup {IF v \in failed THEN "error" ELSE "on"}]
      BY <1>12 DEF Streamon
    <3> QED
      BY <3>1, <3>2
  <2>2. Starting(v) = Nodes(v) /\ {n \in Nodes(v) : has_sensor[n]} = Nodes(v)
    BY <1>3, <1>4 DEF Starting, InputInv, StreamInv, Nodes, Videos
  <2>3. Nodes(v) \subseteq Videos /\ v \in Nodes(v)
    BY DEF Nodes
  <2>4. /\ streaming' = [n \in Videos |-> n \in Nodes(v)]
        /\ stream_count' = [n \in Videos |-> IF n \in Nodes(v) THEN 1 ELSE 0]
    <3>1. streaming' = [n \in Videos |-> n \in Nodes(v)]
      BY <1>4, <2>1 DEF PipelinesStart, TypeOK
    <3>2. stream_count' = [n \in Videos |->
            IF n \in Nodes(v) THEN stream_count[n] + 1 ELSE stream_count[n]]
      BY <2>1, <2>2 DEF PipelinesStart
    <3>3. \A n \in Videos : stream_count[n] = 0
      BY <1>4 DEF StreamInv
    <3> QED
      BY <3>1, <3>2, <3>3
  <2>5. sensor_stream' = Cardinality(Nodes(v))
    <3>1. {n \in Videos : streaming[n]} = {}
      BY <1>4
    <3>2. sensor_stream = 0
      BY <3>1, CountNodes DEF StreamInv
    <3> QED
      BY <2>1, <2>2, <2>3, <3>2, CountNodes DEF PipelinesStart
  <2>6. {n \in Videos : streaming'[n]} = Nodes(v)
    BY <2>3, <2>4
  <2>7. halved' \in [Videos -> 0 .. MaxHalvings]
    <3>1. \A n \in Videos :
            halved'[n] = IF n \in Nodes(v) /\ large_image[n] THEN halved[n] + 1 ELSE halved[n]
      BY <2>1, <2>2 DEF PipelinesStart
    <3>2. halved' = [n \in Videos |-> halved'[n]]
      BY <2>1 DEF PipelinesStart
    <3>3. \A n \in Videos : halved'[n] \in 0 .. MaxHalvings
      BY <1>1, <3>1, PairAssumption DEF TypeOK
    <3> QED
      BY <3>2, <3>3
  <2>8. /\ UNCHANGED frame
        /\ rx_bufs' = [n \in Videos |->
             IF n \in Nodes(v) THEN <<frame[n], halved'[n]>> ELSE NoBuffer]
    <3>1. \A n \in Videos : rx_bufs[n] = NoBuffer
      BY <1>4 DEF StreamInv
    <3> QED
      BY <1>1, <2>1, <2>2, <3>1 DEF PipelinesStart, modeVars
  <2>9. StreamInv'
    <3>1. \A n \in Videos :
            /\ streaming'[n] => \E w \in Videos : "on" \in did'[w] /\ n \in Nodes(w)'
            /\ stream_count'[n] = IF streaming'[n] THEN 1 ELSE 0
            /\ rx_bufs'[n] = IF streaming'[n] THEN <<frame'[n], halved'[n]>> ELSE NoBuffer
      <4>1. ASSUME NEW n \in Videos, streaming'[n]
            PROVE  \E w \in Videos : "on" \in did'[w] /\ n \in Nodes(w)'
        <5>1. n \in Nodes(v)' /\ "on" \in did'[v]
          BY <1>6, <2>1, <2>4, <4>1 DEF TypeOK
        <5> QED
          BY <5>1
      <4>2. \A n \in Videos :
              /\ stream_count'[n] = IF streaming'[n] THEN 1 ELSE 0
              /\ rx_bufs'[n] = IF streaming'[n] THEN <<frame'[n], halved'[n]>> ELSE NoBuffer
        BY <2>4, <2>8
      <4> QED
        BY <4>1, <4>2
    <3>2. \A w \in Videos : "on" \in did'[w] => \A n \in Nodes(w)' : streaming'[n]
      BY <1>5, <1>6, <2>1, <2>3, <2>4 DEF TypeOK
    <3> QED
      BY <2>5, <2>6, <3>1, <3>2 DEF StreamInv
  <2>10. TypeOK'
    <3>1. \A n \in Videos : <<frame[n], halved'[n]>> \in Images
      BY <2>7 DEF Images, TypeOK
    <3>2. rx_bufs' \in [Videos -> Images \cup {NoBuffer}]
      BY <2>8, <3>1
    <3>3. target' \in [Videos -> Videos \cup {NoBuffer}]
      <4>1. \A t \in [Videos -> Videos \cup {NoBuffer}], n \in Videos :
              Written(t, n) \in [Videos -> Videos \cup {NoBuffer}]
        BY DEF Written
      <4>2. FirstTargets(v) \in [Videos -> Videos \cup {NoBuffer}]
        BY <4>1 DEF FirstTargets, TypeOK, Videos
      <4> QED
        BY <2>1, <4>2 DEF PipelinesStart
    <3>4. irq' \in [Videos -> BOOLEAN]
      BY <2>1 DEF PipelinesStart, TypeOK
    <3>5. /\ streaming' \in [Videos -> BOOLEAN] /\ stream_count' \in [Videos -> 0 .. 2]
          /\ sensor_stream' \in 0 .. 4
      BY <2>3, <2>4, <2>5, CountNodes
    <3> QED
      BY <1>1, <1>10, <2>7, <3>2, <3>3, <3>4, <3>5 DEF TypeOK, modeVars, powerVars
  <2> QED
    BY <1>8, <1>9, <2>9, <2>10
<1> QED
  BY <1>11, <1>12

(* set_stream(0) of the nodes of the session that streams, or of none.           *)
LEMMA PipelinesStopKeeps ==
  ASSUME PairInv, NEW nodes \in SUBSET Videos, PipelinesStop(nodes),
         \A n \in Videos : streaming[n] <=> n \in nodes,
         \A n \in nodes : has_sensor[n]
  PROVE  /\ \A n \in Videos : ~streaming'[n] /\ stream_count'[n] = 0 /\ rx_bufs'[n] = NoBuffer
         /\ sensor_stream' = 0
         /\ streaming' \in [Videos -> BOOLEAN] /\ stream_count' \in [Videos -> 0 .. 2]
         /\ irq' \in [Videos -> BOOLEAN] /\ rx_bufs' \in [Videos -> Images \cup {NoBuffer}]
         /\ UNCHANGED <<target, halved>>
<1> USE DEF PairInv
<1>1. {n \in nodes : has_sensor[n]} = nodes /\ {n \in nodes : stream_count[n] = 1} = nodes
  BY DEF StreamInv
<1>2. {n \in Videos : streaming[n]} = nodes
  OBVIOUS
<1>3. \A n \in Videos : stream_count'[n] = 0
  <2>1. stream_count' = [n \in Videos |->
          IF n \in nodes THEN Less(stream_count[n], 1) ELSE stream_count[n]]
    BY <1>1 DEF PipelinesStop
  <2>2. \A n \in Videos : stream_count[n] = IF n \in nodes THEN 1 ELSE 0
    BY DEF StreamInv
  <2> QED
    BY <2>1, <2>2 DEF Less
<1>4. sensor_stream' = 0
  <2>1. sensor_stream' = Less(sensor_stream, Cardinality(nodes))
    BY <1>1 DEF PipelinesStop
  <2>2. sensor_stream = Cardinality(nodes) /\ Cardinality(nodes) \in 0 .. 2
    BY <1>2, CountNodes DEF StreamInv
  <2> QED
    BY <2>1, <2>2 DEF Less
<1>5. \A n \in Videos : ~streaming'[n]
  BY DEF PipelinesStop
<1>6. \A n \in Videos : rx_bufs'[n] = NoBuffer
  <2>1. rx_bufs' = [n \in Videos |-> IF n \in Frees(nodes) THEN NoBuffer ELSE rx_bufs[n]]
    BY <1>1 DEF PipelinesStop
  <2>2. CASE nodes = {}
    BY <2>1, <2>2 DEF StreamInv
  <2>3. CASE nodes # {}
    <3>1. Frees(nodes) = Videos
      BY <1>3, <2>3 DEF Frees
    <3> QED
      BY <2>1, <3>1
  <2> QED
    BY <2>2, <2>3
<1>7. streaming' \in [Videos -> BOOLEAN] /\ irq' \in [Videos -> BOOLEAN]
  BY DEF PipelinesStop, TypeOK
<1>8. /\ stream_count' = [n \in Videos |-> stream_count'[n]]
      /\ rx_bufs' = [n \in Videos |-> rx_bufs'[n]]
  BY DEF PipelinesStop
<1>9. stream_count' \in [Videos -> 0 .. 2] /\ rx_bufs' \in [Videos -> Images \cup {NoBuffer}]
  BY <1>3, <1>6, <1>8
<1> QED
  BY <1>3, <1>4, <1>5, <1>6, <1>7, <1>9 DEF PipelinesStop

(* When nothing streams after a step and nobody is "on", StreamInv holds.        *)
LEMMA AllOff ==
  ASSUME \A n \in Videos : ~streaming'[n] /\ stream_count'[n] = 0 /\ rx_bufs'[n] = NoBuffer,
         sensor_stream' = 0, \A w \in Videos : "on" \notin did'[w]
  PROVE  StreamInv'
<1>1. {n \in Videos : streaming'[n]} = {}
  OBVIOUS
<1> QED
  BY <1>1, CountNodes DEF StreamInv

LEMMA StreamoffKeeps ==
  ASSUME PairInv, NEW v \in Videos, Streamoff(v)
  PROVE  PairInv'
<1> USE DEF PairInv
<1>1. /\ request[v] # NoRequest /\ half[v] = "none" /\ streaming[v]
      /\ PipelinesStop(Nodes(v)) /\ LinksOff(Nodes(v))
      /\ UNCHANGED <<request, half, modeVars, powerVars>>
  BY DEF Streamoff
<1>2. \A w \in Videos \ {v} : did[w] = {}
  BY <1>1, OthersIdle
<1>3. "on" \in did[v] /\ "input" \in did[v]
  BY <1>1, <1>2 DEF StreamInv, SessionInv
<1>4. Nodes(v) \in SUBSET Videos /\ \A n \in Nodes(v) : has_sensor[n]
  BY <1>3 DEF Nodes, InputInv
<1>5. \A n \in Videos : streaming[n] <=> n \in Nodes(v)
  BY <1>2, <1>3 DEF StreamInv
<1>6. /\ \A n \in Videos : ~streaming'[n] /\ stream_count'[n] = 0 /\ rx_bufs'[n] = NoBuffer
      /\ sensor_stream' = 0
      /\ streaming' \in [Videos -> BOOLEAN] /\ stream_count' \in [Videos -> 0 .. 2]
      /\ irq' \in [Videos -> BOOLEAN] /\ rx_bufs' \in [Videos -> Images \cup {NoBuffer}]
      /\ UNCHANGED <<target, halved>>
  BY <1>1, <1>4, <1>5, PipelinesStopKeeps
<1>7. PICK lost \in {{"on"}, {"on", "fmt"}} : did' = [did EXCEPT ![v] = @ \ lost]
  BY DEF Streamoff
<1>8. \A w \in Videos : did'[w] \subseteq did[w] /\ "on" \notin did'[w]
  BY <1>2, <1>7 DEF TypeOK
<1>9. StreamInv'
  <2>1. \A w \in Videos : "on" \notin did'[w]
    BY <1>8
  <2> QED
    BY <1>6, <2>1, AllOff
<1>10. SessionInv'
  BY <1>1, <1>3, <1>7, <1>8 DEF SessionInv, TypeOK
<1>11. InputInv'
  BY <1>1, <1>8 DEF InputInv, Nodes, modeVars, powerVars
<1>12. TypeOK'
  <2>1. did' \in [Videos -> SUBSET (Calls \cup {"error"})]
    BY <1>7 DEF TypeOK
  <2>2. tdm_link' \in [Videos -> BOOLEAN] /\ sensor_link' \in BOOLEAN
    BY <1>1 DEF LinksOff, TypeOK
  <2>3. lpm' \in [Videos -> BOOLEAN] /\ vb2_streaming' \in [Videos -> BOOLEAN]
    BY DEF Streamoff, TypeOK
  <2> QED
    BY <1>1, <1>6, <2>1, <2>2, <2>3 DEF TypeOK, modeVars, powerVars
<1> QED
  BY <1>9, <1>10, <1>11, <1>12

(* The part that both ways to close have in common.                            *)
LEMMA ClosingKeeps ==
  ASSUME TypeOK, SessionInv, NEW v \in Videos, Closing(v)
  PROVE  /\ \A w \in Videos : did'[w] = {} /\ half'[w] = "none" /\ request'[w] = NoRequest
         /\ SessionInv' /\ InputInv'
         /\ request' \in [Videos -> Requests \cup {NoRequest}]
         /\ did' \in [Videos -> SUBSET (Calls \cup {"error"})]
         /\ lpm' \in [Videos -> BOOLEAN] /\ vb2_streaming' \in [Videos -> BOOLEAN]
         /\ UNCHANGED <<half, large_image, csi_large, frame, has_sensor>>
<1>1. \A w \in Videos : did'[w] = {} /\ half'[w] = "none" /\ request'[w] = NoRequest
  BY OthersIdle DEF Closing, TypeOK
<1>2. SessionInv' /\ InputInv'
  BY <1>1 DEF SessionInv, InputInv
<1> QED
  BY <1>1, <1>2 DEF Closing, TypeOK

LEMMA CloseUnusedKeeps ==
  ASSUME PairInv, NEW v \in Videos, CloseUnused(v)
  PROVE  PairInv'
<1> USE DEF PairInv
<1>1. Closing(v) /\ ~(has_sensor[v] /\ sensor_use > 0)
  BY DEF CloseUnused
<1>2. UNCHANGED <<dma_merge_mode, dmaVars, streamVars, use_count, sensor_use, linkVars>>
  BY DEF CloseUnused
<1>3. "input" \notin did[v]
  BY <1>1 DEF InputInv, Nodes
<1>4. \A n \in Videos : ~streaming[n]
  BY <1>1, <1>3, NotStreaming DEF Closing, SessionInv
<1>5. TypeOK'
  BY <1>1, <1>2, ClosingKeeps DEF TypeOK, dmaVars, streamVars, linkVars
<1>6. \A w \in Videos : "on" \notin did'[w]
  BY <1>1, ClosingKeeps
<1>7. StreamInv'
  BY <1>2, <1>4, <1>6 DEF StreamInv, dmaVars, streamVars
<1> QED
  BY <1>1, <1>5, <1>7, ClosingKeeps

LEMMA CloseUsedKeeps ==
  ASSUME PairInv, NEW v \in Videos, CloseUsed(v)
  PROVE  PairInv'
<1> USE DEF PairInv
<1>1. /\ Closing(v) /\ PipelinesStop(Stops(v))
      /\ request[v] # NoRequest
  BY DEF CloseUsed, Closing
<1>2. Stops(v) \in SUBSET Videos
  BY DEF Stops, Nodes
<1>3. /\ \A n \in Videos : streaming[n] <=> n \in Stops(v)
      /\ \A n \in Stops(v) : has_sensor[n]
  <2>1. CASE "on" \in did[v]
    <3>1. \A w \in Videos \ {v} : did[w] = {}
      BY <1>1, OthersIdle
    <3>2. \A n \in Videos : streaming[n] <=> n \in Nodes(v)
      BY <2>1, <3>1 DEF StreamInv
    <3>3. Stops(v) = Nodes(v)
      BY <3>2 DEF Stops, Nodes
    <3>4. "input" \in did[v]
      BY <2>1 DEF SessionInv
    <3> QED
      BY <3>2, <3>3, <3>4 DEF InputInv
  <2>2. CASE "on" \notin did[v]
    BY <1>1, <2>2, NotStreaming DEF Stops
  <2> QED
    BY <2>1, <2>2
<1>4. /\ \A n \in Videos : ~streaming'[n] /\ stream_count'[n] = 0 /\ rx_bufs'[n] = NoBuffer
      /\ sensor_stream' = 0
      /\ streaming' \in [Videos -> BOOLEAN] /\ stream_count' \in [Videos -> 0 .. 2]
      /\ irq' \in [Videos -> BOOLEAN] /\ rx_bufs' \in [Videos -> Images \cup {NoBuffer}]
      /\ UNCHANGED <<target, halved>>
  BY <1>1, <1>2, <1>3, PipelinesStopKeeps
<1>5. StreamInv'
  <2>1. \A w \in Videos : "on" \notin did'[w]
    BY <1>1, ClosingKeeps
  <2> QED
    BY <1>4, <2>1, AllOff
<1>6. TypeOK'
  <2>1. dma_merge_mode' \in [Videos -> BOOLEAN]
    BY DEF CloseUsed, TypeOK
  <2>2. use_count' \in [Videos -> Nat] /\ sensor_use' \in Nat
    <3>1. \A m \in Nat : Less(m, 1) \in Nat
      BY DEF Less
    <3>2. use_count' \in [Videos -> Nat]
      BY <3>1 DEF CloseUsed, TypeOK
    <3>3. Cardinality({n \in Releases(v) : has_sensor[n]}) \in 0 .. 2
      BY CountNodes DEF Releases, Nodes
    <3>4. sensor_use' \in Nat
      BY <3>3 DEF CloseUsed, Less, TypeOK
    <3> QED
      BY <3>2, <3>4
  <2>3. tdm_link' \in [Videos -> BOOLEAN] /\ sensor_link' \in BOOLEAN
    BY DEF CloseUsed, LinksOff, TypeOK, linkVars
  <2> QED
    BY <1>1, <1>4, <2>1, <2>2, <2>3, ClosingKeeps DEF TypeOK
<1> QED
  BY <1>1, <1>5, <1>6, ClosingKeeps

-----------------------------------------------------------------------------
LEMMA PairStep == PairMode /\ PairInv /\ [Next]_vars => PairInv'
<1> SUFFICES ASSUME PairMode, PairInv, [Next]_vars PROVE PairInv'
  OBVIOUS
<1>1. CASE UNCHANGED vars
  BY <1>1 DEF PairInv, TypeOK, SessionInv, InputInv, StreamInv, Nodes, vars, appVars, modeVars,
              dmaVars, streamVars, powerVars, linkVars
<1>2. ASSUME NEW v \in Videos,
             Open(v) \/ SetDmaMerge(v) \/ SInput(v) \/ SParm(v) \/ SFmt(v) \/ Vsync(v)
      PROVE  PairInv'
  BY <1>2, OpenKeeps, SetDmaMergeKeeps, SInputKeeps, SParmKeeps, SFmtKeeps, VsyncKeeps
<1>3. ASSUME NEW v \in Videos, Streamon(v) \/ Streamoff(v) \/ CloseUnused(v) \/ CloseUsed(v)
      PROVE  PairInv'
  BY <1>3, StreamonKeeps, StreamoffKeeps, CloseUnusedKeeps, CloseUsedKeeps
<1> QED
  BY <1>1, <1>2, <1>3 DEF Next

LEMMA PairInductive == PairMode /\ Spec => []PairInv
<1> SUFFICES ASSUME PairMode PROVE Spec => []PairInv
  OBVIOUS
<1>1. PairInv /\ [Next]_vars => PairInv'
  BY PairStep
<1> QED
  BY <1>1, PairInit, PTL DEF Spec

(* Whatever one application after the other calls, every variable of the pair   *)
(* keeps its type; the bounds say that no subdevice is started twice and that   *)
(* the shared sensor is counted once for each half.                           *)
THEOREM PairTypeCorrect == PairMode /\ Spec => []TypeOK
BY PairInductive, PTL DEF PairInv

(* The half of a pair that another node's calls have started is powered for as   *)
(* long as it streams: STREAMOFF and close stop it before it loses its user,     *)
(* also when S_PARM has refused the merge or the process is killed.            *)
THEOREM StreamAlwaysPowered == PairMode /\ Spec => []StreamIsPowered
<1>1. PairInv => StreamIsPowered
  <2> SUFFICES ASSUME PairInv, NEW n \in Videos, stream_count[n] > 0
               PROVE  use_count[n] > 0 /\ sensor_use > 0
    BY DEF StreamIsPowered
  <2>1. stream_count[n] = IF streaming[n] THEN 1 ELSE 0
    BY DEF PairInv, StreamInv
  <2>2. streaming[n]
    BY <2>1
  <2>3. PICK v \in Videos : "on" \in did[v] /\ n \in Nodes(v)
    BY <2>2 DEF PairInv, StreamInv
  <2>4. "input" \in did[v]
    BY <2>3 DEF PairInv, SessionInv
  <2> QED
    BY <2>3, <2>4 DEF PairInv, InputInv
<1> QED
  BY <1>1, PairInductive, PTL

(* As long as no start fails, a receiver of the TDM that streams has the buffers  *)
(* of the image that it has been started for: those of the last stream have      *)
(* been freed, whoever stopped it.                                           *)
THEOREM TdmBuffersAlwaysFit == PairMode /\ Spec => []TdmBuffersFit
<1>1. PairInv => TdmBuffersFit
  <2> SUFFICES ASSUME PairInv, NEW n \in Videos, stream_count[n] > 0
               PROVE  /\ rx_bufs[n] # NoBuffer /\ rx_bufs[n][1] = frame[n]
                      /\ rx_bufs[n][2] <= halved[n]
    BY DEF TdmBuffersFit
  <2>1. stream_count[n] = IF streaming[n] THEN 1 ELSE 0
    BY DEF PairInv, StreamInv
  <2>2. rx_bufs[n] = <<frame[n], halved[n]>>
    <3>1. streaming[n]
      BY <2>1
    <3>2. rx_bufs[n] = IF streaming[n] THEN <<frame[n], halved[n]>> ELSE NoBuffer
      BY DEF PairInv, StreamInv
    <3> QED
      BY <3>1, <3>2
  <2>3. <<frame[n], halved[n]>> \in Images /\ halved[n] \in 0 .. MaxHalvings
    BY DEF PairInv, TypeOK, Images
  <2>4. rx_bufs[n] # NoBuffer
    BY <2>2, <2>3, PairAssumption
  <2> QED
    BY <2>2, <2>3, <2>4, PairAssumption
<1> QED
  BY <1>1, PairInductive, PTL

-----------------------------------------------------------------------------
(***************************************************************************)
(* A full frame for which a merge is asked for is captured by the pair.        *)
(***************************************************************************)

(* S_FMT comes first, no start fails, and one application at a time.            *)
FormatMode == PairMode /\ FormatFirst

(* Half of a call has been done for the bind of a main node that merges.        *)
HalfInv == \A v \in Videos : half[v] # "none" => v = Main /\ dma_merge_mode[Main]

(* After S_FMT the nodes of the session have its size, half-way the bind.        *)
FormatInv ==
  \A v \in Videos :
    /\ "fmt" \in did[v] => \A n \in Nodes(v) : frame[n] = request[v].size
    /\ half[v] = "fmt" => frame[Bind] = request[v].size

(* A merge for a full frame stays until the file is closed, and S_PARM makes     *)
(* both nodes and the sensor halve the image.  Only the main node has            *)
(* interrupts.                                                              *)
PairedInv ==
  request[Main] # NoRequest /\ AsksForPair(Main) =>
    /\ "merge" \in did[Main] => dma_merge_mode[Main] /\ dma_merge_mode[Bind]
    /\ half[Main] = "parm" \/ "parm" \in did[Main] => large_image[Bind] /\ csi_large
    /\ "parm" \in did[Main] => large_image[Main]
    /\ "on" \in did[Main] => irq[Main] /\ ~irq[Bind]

(* The width is halved by the one start since S_FMT.                           *)
HalvedInv ==
  request[Main] # NoRequest /\ AsksForPair(Main) =>
    /\ half[Main] = "fmt" => halved[Bind] = 0
    /\ "fmt" \in did[Main] => \A n \in Videos : halved[n] = IF "on" \in did[Main] THEN 1 ELSE 0

FullInv == PairInv /\ HalfInv /\ FormatInv /\ PairedInv

LEMMA NeedsOf ==
  ASSUME FormatFirst, NEW v \in Videos
  PROVE  /\ Needs(v, "fmt") = {"input"} /\ Needs(v, "parm") = {"fmt"}
         /\ Needs(v, "on") = {"parm", "fmt"}
         /\ Needs(v, "input") = IF request[v].merge THEN {"merge"} ELSE {}
<1>1. Needs(v, "fmt") = {"input"}
  BY DEF Needs
<1>2. Needs(v, "parm") = {"fmt"}
  BY DEF Needs
<1>3. Needs(v, "on") = {"parm", "fmt"}
  BY DEF Needs
<1>4. Needs(v, "input") = IF request[v].merge THEN {"merge"} ELSE {}
  BY DEF Needs
<1> QED
  BY <1>1, <1>2, <1>3, <1>4

(* A call is made for the bind of a main node that merges, and then for the      *)
(* node itself.                                                             *)
LEMMA CallHalves ==
  ASSUME TypeOK, SessionInv, HalfInv, NEW v \in Videos, NEW ok \in BOOLEAN,
         NEW call \in {"input", "parm", "fmt"}, Calling(v, call), Return(v, call, ok)
  PROVE  /\ request' = request /\ request[v] # NoRequest /\ "error" \notin did[v]
         /\ Needs(v, call) \subseteq did[v] /\ call \notin did[v] /\ half[v] \in {"none", call}
         /\ \A w \in Videos \ {v} :
              /\ request[w] = NoRequest /\ did[w] = {} /\ did'[w] = {}
              /\ half[w] = "none" /\ half'[w] = "none"
         /\ \/ /\ half[v] = "none" /\ v = Main /\ dma_merge_mode[Main]
               /\ Turn(v, call) = Bind /\ Turn(v, call) # v /\ ok
               /\ half'[v] = call /\ did'[v] = did[v]
            \/ /\ ~ok /\ half'[v] = "none" /\ did'[v] = did[v] \cup {"error"}
            \/ /\ ok /\ Turn(v, call) = v /\ half'[v] = "none" /\ did'[v] = did[v] \cup {call}
               /\ half[v] = call \/ Nodes(v) = {v}
<1>1. /\ request' = request /\ request[v] # NoRequest /\ "error" \notin did[v]
      /\ Needs(v, call) \subseteq did[v] /\ call \notin did[v] /\ half[v] \in {"none", call}
  BY DEF Calling, Return
<1>2. \A w \in Videos \ {v} :
        /\ request[w] = NoRequest /\ did[w] = {} /\ did'[w] = {}
        /\ half[w] = "none" /\ half'[w] = "none"
  BY <1>1, OthersIdle DEF Return, TypeOK
<1>3. CASE ok /\ Turn(v, call) # v
  <2>1. Turn(v, call) = Bind /\ Bind \in Nodes(v) /\ half[v] # call /\ v # Bind
    BY <1>3 DEF Turn
  <2>2. v = Main /\ dma_merge_mode[Main]
    BY <2>1 DEF Nodes
  <2>3. half'[v] = call /\ did'[v] = did[v]
    BY <1>3 DEF Return, TypeOK
  <2> QED
    BY <1>1, <1>2, <1>3, <2>1, <2>2, <2>3
<1>4. CASE ~ok
  <2>1. half'[v] = "none" /\ did'[v] = did[v] \cup {"error"}
    BY <1>4 DEF Return, TypeOK
  <2> QED
    BY <1>1, <1>2, <1>4, <2>1
<1>5. CASE ok /\ Turn(v, call) = v
  <2>1. half'[v] = "none" /\ did'[v] = did[v] \cup {call}
    BY <1>5 DEF Return, TypeOK
  <2>2. half[v] = call \/ Nodes(v) = {v}
    <3>1. half[v] # call => Bind \notin Nodes(v) \/ v = Bind
      BY <1>5 DEF Turn
    <3> QED
      BY <3>1, PairAssumption DEF Nodes, Videos
  <2> QED
    BY <1>1, <1>2, <1>5, <2>1, <2>2
<1> QED
  BY <1>3, <1>4, <1>5

(* Half a call is only ever done for a main node that merges.                   *)
LEMMA HalfKeeps ==
  ASSUME TypeOK, SessionInv, HalfInv, Next
  PROVE  HalfInv'
<1> SUFFICES ASSUME NEW u \in Videos,
               \/ Open(u) \/ SetDmaMerge(u) \/ SInput(u) \/ SParm(u) \/ SFmt(u)
               \/ Streamon(u) \/ Vsync(u) \/ Streamoff(u)
               \/ CloseUnused(u) \/ CloseUsed(u)
             PROVE  HalfInv'
  BY DEF Next
<1>1. CASE Open(u) \/ Vsync(u) \/ Streamon(u) \/ Streamoff(u)
  BY <1>1 DEF HalfInv, Open, Vsync, Streamon, Streamoff, modeVars, appVars
<1>2. CASE SetDmaMerge(u)
  <2>1. half[u] = "none" /\ request[u] # NoRequest
    BY <1>2 DEF SetDmaMerge, Calling, TypeOK
  <2> QED
    BY <1>2, <2>1, OthersIdle DEF SetDmaMerge, HalfInv
<1>3. CASE CloseUnused(u) \/ CloseUsed(u)
  BY <1>3, OthersIdle DEF CloseUnused, CloseUsed, Closing, HalfInv
<1>4. CASE SInput(u)
  <2>1. PICK ok \in BOOLEAN : Calling(u, "input") /\ Return(u, "input", ok)
    BY <1>4, SInputReturns
  <2>2. UNCHANGED dma_merge_mode
    BY <1>4 DEF SInput, modeVars
  <2> QED
    BY <2>1, <2>2, CallHalves DEF HalfInv
<1>5. CASE SParm(u)
  <2>1. Turn(u, "parm") \in Videos
    BY DEF Turn, Videos
  <2>2. /\ Calling(u, "parm") /\ Return(u, "parm", has_sensor[Turn(u, "parm")])
        /\ has_sensor[Turn(u, "parm")] \in BOOLEAN
    BY <1>5, <2>1 DEF SParm, TypeOK
  <2>3. \A v \in Videos : v # Turn(u, "parm") => dma_merge_mode'[v] = dma_merge_mode[v]
    BY <1>5, <2>1 DEF SParm, TypeOK
  <2> QED
    BY <2>2, <2>3, CallHalves DEF HalfInv, Videos
<1>6. CASE SFmt(u)
  <2>1. Turn(u, "fmt") \in Videos
    BY DEF Turn, Videos
  <2> DEFINE ok == ~streaming[Turn(u, "fmt")] /\ has_sensor[Turn(u, "fmt")]
  <2>2. Calling(u, "fmt") /\ Return(u, "fmt", ok) /\ ok \in BOOLEAN /\ UNCHANGED dma_merge_mode
    BY <1>6, <2>1 DEF SFmt, TypeOK
  <2> QED
    BY <2>2, CallHalves DEF HalfInv
<1> QED
  BY <1>1, <1>2, <1>3, <1>4, <1>5, <1>6

LEMMA FormatKeeps ==
  ASSUME FormatMode, FullInv, Next
  PROVE  FormatInv'
<1> SUFFICES ASSUME NEW u \in Videos,
               \/ Open(u) \/ SetDmaMerge(u) \/ SInput(u) \/ SParm(u) \/ SFmt(u)
               \/ Streamon(u) \/ Vsync(u) \/ Streamoff(u)
               \/ CloseUnused(u) \/ CloseUsed(u)
             PROVE  FormatInv'
  BY DEF Next
<1> USE DEF FullInv, PairInv
<1>1. CASE Open(u)
  <2>1. \A v \in Videos : request[v] = NoRequest
    BY <1>1 DEF Open, FormatMode, PairMode, All
  <2>2. \A v \in Videos : did'[v] = {} /\ half'[v] = "none"
    BY <1>1, <2>1 DEF Open, SessionInv, TypeOK
  <2> QED
    BY <2>2 DEF FormatInv
<1>2. CASE SetDmaMerge(u)
  <2>1. half[u] = "none" /\ request[u] # NoRequest /\ "fmt" \notin did[u]
    BY <1>2 DEF SetDmaMerge, Calling, SessionInv, TypeOK
  <2>2. \A v \in Videos : "fmt" \notin did'[v] /\ half'[v] = "none"
    BY <1>2, <2>1, OthersIdle DEF SetDmaMerge, TypeOK
  <2> QED
    BY <2>2 DEF FormatInv
<1>3. CASE CloseUnused(u) \/ CloseUsed(u)
  BY <1>3, ClosingKeeps DEF CloseUnused, CloseUsed, FormatInv
<1>4. CASE Vsync(u)
  BY <1>4 DEF Vsync, appVars, modeVars, FormatInv, Nodes
<1>5. CASE Streamon(u) \/ Streamoff(u)
  <2>1. UNCHANGED <<request, half, dma_merge_mode, frame>>
    BY <1>5 DEF Streamon, Streamoff, modeVars
  <2>2. \A v \in Videos : "fmt" \in did'[v] => "fmt" \in did[v]
    <3>1. CASE Streamon(u)
      <4>1. PICK call \in {"on", "error"} : did' = [did EXCEPT ![u] = @ \cup {call}]
        BY <3>1, StreamonReturns
      <4> QED
        BY <4>1 DEF TypeOK
    <3>2. CASE Streamoff(u)
      BY <3>2 DEF Streamoff, TypeOK
    <3> QED
      BY <1>5, <3>1, <3>2
  <2> QED
    BY <2>1, <2>2 DEF FormatInv, Nodes
<1>6. CASE SInput(u)
  <2>1. PICK ok \in BOOLEAN : Calling(u, "input") /\ Return(u, "input", ok)
    BY <1>6, SInputReturns
  <2>2. UNCHANGED <<dma_merge_mode, frame>>
    BY <1>6 DEF SInput, modeVars
  <2>3. \A v \in Videos : /\ "fmt" \in did'[v] => "fmt" \in did[v]
                          /\ half'[v] = "fmt" => half[v] = "fmt"
    BY <2>1, CallHalves DEF TypeOK
  <2>4. request' = request
    BY <2>1, CallHalves
  <2>5. \A v \in Videos : Nodes(v)' = Nodes(v)
    BY <2>2 DEF Nodes
  <2>6. ASSUME NEW v \in Videos
        PROVE  /\ "fmt" \in did'[v] => \A n \in Nodes(v)' : frame'[n] = request'[v].size
               /\ half'[v] = "fmt" => frame'[Bind] = request'[v].size
    <3>1. frame' = frame /\ Nodes(v)' = Nodes(v)
      BY <2>2, <2>5
    <3>2. "fmt" \in did'[v] => \A n \in Nodes(v) : frame[n] = request[v].size
      BY <2>3 DEF FormatInv
    <3>3. half'[v] = "fmt" => frame[Bind] = request[v].size
      BY <2>3 DEF FormatInv
    <3> QED
      BY <2>4, <3>1, <3>2, <3>3
  <2> QED
    BY <2>6 DEF FormatInv
<1>7. CASE SParm(u)
  <2>1. Turn(u, "parm") \in Videos
    BY DEF Turn, Videos
  <2>2. /\ Calling(u, "parm") /\ Return(u, "parm", has_sensor[Turn(u, "parm")])
        /\ has_sensor[Turn(u, "parm")] \in BOOLEAN /\ UNCHANGED frame
    BY <1>7, <2>1 DEF SParm, TypeOK
  <2>3. \A v \in Videos : /\ "fmt" \in did'[v] => "fmt" \in did[v]
                          /\ half'[v] # "fmt"
    BY <2>2, CallHalves DEF TypeOK
  <2>4. request' = request
    BY <2>2, CallHalves
  <2>5. \A v \in Videos : Nodes(v)' \subseteq Nodes(v)
    BY <1>7, <2>1 DEF SParm, Nodes, Stitches, TypeOK, Videos
  <2> QED
    BY <2>2, <2>3, <2>4, <2>5 DEF FormatInv
<1>8. CASE SFmt(u)
  <2> DEFINE n == Turn(u, "fmt")
             ok == ~streaming[n] /\ has_sensor[n]
  <2>1. n \in Videos
    BY DEF Turn, Videos
  <2>2. /\ Calling(u, "fmt") /\ Return(u, "fmt", ok) /\ ok \in BOOLEAN
        /\ UNCHANGED dma_merge_mode
        /\ frame' = [frame EXCEPT ![n] = IF ok THEN request[u].size ELSE @]
    BY <1>8, <2>1 DEF SFmt, TypeOK
  <2>3. /\ request' = request
        /\ \A v \in Videos \ {u} : did'[v] = {} /\ half'[v] = "none"
    BY <2>2, CallHalves
  <2>4. half'[u] = "fmt" => frame'[Bind] = request[u].size
    <3> SUFFICES ASSUME half'[u] = "fmt" PROVE frame'[Bind] = request[u].size
      OBVIOUS
    <3>1. n = Bind /\ ok
      BY <2>2, CallHalves
    <3> QED
      BY <2>1, <2>2, <3>1 DEF TypeOK
  <2>5. "fmt" \in did'[u] => \A m \in Nodes(u) : frame'[m] = request[u].size
    <3> SUFFICES ASSUME "fmt" \in did'[u] PROVE \A m \in Nodes(u) : frame'[m] = request[u].size
      OBVIOUS
    <3>1. "fmt" \notin did[u]
      BY <2>2 DEF Calling
    <3>2. ok /\ n = u /\ (half[u] = "fmt" \/ Nodes(u) = {u})
      BY <2>2, <3>1, CallHalves
    <3>3. frame'[u] = request[u].size
      BY <2>2, <3>2 DEF TypeOK
    <3>4. half[u] = "fmt" => frame'[Bind] = request[u].size
      BY <2>1, <2>2, <3>2, <3>3 DEF FormatInv, TypeOK, Videos
    <3> QED
      BY <3>2, <3>3, <3>4 DEF Nodes, Videos
  <2> QED
    BY <2>2, <2>3, <2>4, <2>5 DEF FormatInv, Nodes
<1> QED
  BY <1>1, <1>2, <1>3, <1>4, <1>5, <1>6, <1>7, <1>8

(* A start that nothing keeps from starting every node of the session.          *)
LEMMA StreamonStarts ==
  ASSUME PairMode, PairInv, NEW v \in Videos, Streamon(v)
  PROVE  /\ request[v] # NoRequest /\ half[v] = "none" /\ {"input", "parm", "fmt"} \subseteq did[v]
         /\ "on" \notin did[v] /\ \A n \in Videos : ~streaming[n]
         /\ \A w \in Videos \ {v} : request[w] = NoRequest /\ did[w] = {}
         /\ UNCHANGED <<request, half, modeVars, powerVars>>
         /\ vb2_streaming' = [vb2_streaming EXCEPT ![v] = TRUE]
         /\ \/ /\ ~(~lpm[v] \/ TdmLinkable(v)) /\ did' = [did EXCEPT ![v] = @ \cup {"error"}]
               /\ UNCHANGED <<dmaVars, streamVars>>
            \/ /\ did' = [did EXCEPT ![v] = @ \cup {"on"}]
               /\ PipelinesStart(v, {}) /\ Starting(v) = Nodes(v)
<1> USE DEF PairInv
<1>1. /\ Calling(v, "on") /\ half[v] = "none"
      /\ UNCHANGED <<request, half, modeVars, powerVars>>
      /\ vb2_streaming' = [vb2_streaming EXCEPT ![v] = TRUE]
  BY DEF Streamon
<1>2. request[v] # NoRequest /\ "on" \notin did[v] /\ {"parm", "fmt"} \subseteq did[v]
  BY <1>1 DEF Calling, Needs
<1>3. "input" \in did[v]
  BY <1>2 DEF SessionInv
<1>4. \A n \in Videos : ~streaming[n]
  BY <1>2, NotStreaming
<1>5. \A w \in Videos \ {v} : request[w] = NoRequest /\ did[w] = {}
  BY <1>2, OthersIdle
<1>6. Starting(v) = Nodes(v)
  BY <1>3, <1>4 DEF Starting, InputInv, StreamInv, Nodes, Videos
<1>7. CASE ~(~lpm[v] \/ TdmLinkable(v))
  BY <1>1, <1>2, <1>3, <1>4, <1>5, <1>7 DEF Streamon
<1>8. CASE ~lpm[v] \/ TdmLinkable(v)
  <2>1. StartFailures(v) = {{}}
    BY DEF StartFailures, PairMode
  <2>2. PICK failed \in StartFailures(v) :
          /\ PipelinesStart(v, failed)
          /\ did' = [did EXCEPT ![v] = @ \cup {IF v \in failed THEN "error" ELSE "on"}]
    BY <1>8 DEF Streamon
  <2>3. PipelinesStart(v, {}) /\ did' = [did EXCEPT ![v] = @ \cup {"on"}]
    BY <2>1, <2>2
  <2> QED
    BY <1>1, <1>2, <1>3, <1>4, <1>5, <1>6, <2>3
<1> QED
  BY <1>7, <1>8

LEMMA PairedKeeps ==
  ASSUME FormatMode, FullInv, Next
  PROVE  PairedInv'
<1> USE DEF FullInv, PairInv
<1>1. PICK u \in Videos :
        \/ Open(u) \/ SetDmaMerge(u) \/ SInput(u) \/ SParm(u) \/ SFmt(u)
        \/ Streamon(u) \/ Vsync(u) \/ Streamoff(u)
        \/ CloseUnused(u) \/ CloseUsed(u)
  BY DEF Next
<1> SUFFICES ASSUME request'[Main] # NoRequest, AsksForPair(Main)'
             PROVE  /\ "merge" \in did'[Main] => dma_merge_mode'[Main] /\ dma_merge_mode'[Bind]
                    /\ half'[Main] = "parm" \/ "parm" \in did'[Main] =>
                         large_image'[Bind] /\ csi_large'
                    /\ "parm" \in did'[Main] => large_image'[Main]
                    /\ "on" \in did'[Main] => irq'[Main] /\ ~irq'[Bind]
  BY DEF PairedInv
<1>2. Main \in Videos /\ Bind \in Videos
  BY DEF Videos
<1>3. ASSUME UNCHANGED request, request[u] # NoRequest
      PROVE  /\ u = Main /\ request[Main] # NoRequest /\ AsksForPair(Main)
             /\ request[Main].merge /\ request[Main].size = "full"
  BY <1>2, <1>3, OthersIdle DEF AsksForPair
<1>4. CASE Open(u)
  <2>1. \A v \in Videos : request[v] = NoRequest
    BY <1>4 DEF Open, FormatMode, PairMode, All
  <2>2. \A v \in Videos : did'[v] = {} /\ half'[v] = "none"
    BY <1>4, <2>1 DEF Open, SessionInv, TypeOK
  <2> QED
    BY <1>2, <2>2
<1>5. CASE SetDmaMerge(u)
  <2>1. /\ request[u] # NoRequest /\ half[u] = "none" /\ "merge" \notin did[u]
        /\ UNCHANGED <<request, half>> /\ did' = [did EXCEPT ![u] = @ \cup {"merge"}]
    BY <1>5 DEF SetDmaMerge, Calling, TypeOK
  <2>2. u = Main /\ request[Main].merge
    BY <1>3, <2>1
  <2>3. "input" \notin did[Main] /\ "parm" \notin did[Main] /\ "on" \notin did[Main]
    BY <2>1, <2>2 DEF SessionInv
  <2>4. "parm" \notin did'[Main] /\ "on" \notin did'[Main] /\ half'[Main] = "none"
    BY <1>2, <2>1, <2>2, <2>3 DEF TypeOK
  <2>5. dma_merge_mode'[Main] /\ dma_merge_mode'[Bind]
    BY <1>2, <1>5, <2>2 DEF SetDmaMerge
  <2> QED
    BY <2>4, <2>5
<1>6. CASE SInput(u)
  <2>1. PICK ok \in BOOLEAN : Calling(u, "input") /\ Return(u, "input", ok)
    BY <1>6, SInputReturns
  <2>2. u = Main /\ request[Main] # NoRequest /\ AsksForPair(Main)
    BY <1>3, <2>1, CallHalves
  <2>3. UNCHANGED <<modeVars, irq>>
    BY <1>6 DEF SInput, dmaVars
  <2>4. /\ half'[Main] # "parm"
        /\ \A call \in {"merge", "parm", "on"} : call \in did'[Main] => call \in did[Main]
    BY <2>1, <2>2, CallHalves
  <2> QED
    BY <2>2, <2>3, <2>4 DEF PairedInv, modeVars
<1>7. CASE SParm(u)
  <2> DEFINE n == Turn(u, "parm")
  <2>1. n \in Videos
    BY DEF Turn, Videos
  <2>2. /\ Calling(u, "parm") /\ Return(u, "parm", has_sensor[n])
        /\ has_sensor[n] \in BOOLEAN /\ UNCHANGED irq
    BY <1>7, <2>1 DEF SParm, TypeOK, dmaVars
  <2>3. u = Main /\ request[Main] # NoRequest /\ AsksForPair(Main)
    BY <1>3, <2>2, CallHalves
  <2>4. "fmt" \in did[Main] /\ "parm" \notin did[Main] /\ "on" \notin did[Main]
    BY <1>2, <2>2, <2>3, CallHalves, NeedsOf DEF FormatMode, SessionInv
  <2>5. "input" \in did[Main] /\ "merge" \in did[Main]
    BY <1>2, <2>3, <2>4 DEF SessionInv, AsksForPair
  <2>6. Nodes(Main) = Videos /\ dma_merge_mode[Main] /\ dma_merge_mode[Bind]
    BY <2>3, <2>5 DEF PairedInv, Nodes
  <2>7. frame[n] = "full" /\ has_sensor[n]
    BY <1>2, <2>1, <2>3, <2>4, <2>5, <2>6 DEF FormatInv, InputInv, AsksForPair
  <2>8. Stitches(n)
    BY <1>2, <2>1, <2>6, <2>7 DEF Stitches, Videos
  <2>9. /\ dma_merge_mode'[Main] /\ dma_merge_mode'[Bind] /\ large_image'[n] /\ csi_large'
        /\ \A m \in Videos : large_image[m] => large_image'[m]
    BY <1>2, <1>7, <2>1, <2>6, <2>7, <2>8 DEF SParm, TypeOK
  <2>10. "on" \notin did'[Main]
    BY <2>2, <2>3, <2>4, CallHalves
  <2>11. half'[Main] = "parm" => n = Bind
    BY <2>2, <2>3, CallHalves
  <2>12. "parm" \in did'[Main] => n = Main /\ half[Main] = "parm"
    <3>1. Nodes(Main) # {Main}
      BY <1>2, <2>6, PairAssumption
    <3> QED
      BY <2>2, <2>3, <2>4, <3>1, CallHalves
  <2>13. half[Main] = "parm" => large_image[Bind]
    BY <2>3 DEF PairedInv
  <2> QED
    BY <1>2, <2>9, <2>10, <2>11, <2>12, <2>13
<1>8. CASE SFmt(u)
  <2> DEFINE ok == ~streaming[Turn(u, "fmt")] /\ has_sensor[Turn(u, "fmt")]
  <2>1. Calling(u, "fmt") /\ Return(u, "fmt", ok) /\ ok \in BOOLEAN
    BY <1>8 DEF SFmt, TypeOK, Turn, Videos
  <2>2. u = Main /\ request[Main] # NoRequest /\ AsksForPair(Main)
    BY <1>3, <2>1, CallHalves
  <2>3. UNCHANGED <<dma_merge_mode, large_image, csi_large, irq>>
    BY <1>8 DEF SFmt
  <2>4. /\ half'[Main] # "parm"
        /\ \A call \in {"merge", "parm", "on"} : call \in did'[Main] => call \in did[Main]
    BY <2>1, <2>2, CallHalves
  <2> QED
    BY <2>2, <2>3, <2>4 DEF PairedInv
<1>9. CASE Streamon(u)
  <2>1. /\ u = Main /\ request[Main] # NoRequest /\ AsksForPair(Main) /\ half[Main] = "none"
        /\ "parm" \in did[Main] /\ "input" \in did[Main] /\ "on" \notin did[Main]
        /\ UNCHANGED <<half, modeVars>>
    BY <1>3, <1>9, StreamonStarts DEF FormatMode
  <2>2. "merge" \in did[Main]
    BY <1>2, <2>1 DEF SessionInv, AsksForPair
  <2>3. /\ dma_merge_mode[Main] /\ dma_merge_mode[Bind] /\ large_image[Bind] /\ large_image[Main]
        /\ csi_large
    BY <2>1, <2>2 DEF PairedInv
  <2>4. "on" \in did'[Main] => irq'[Main] /\ ~irq'[Bind]
    <3>1. CASE did' = [did EXCEPT ![Main] = @ \cup {"error"}]
      BY <1>2, <2>1, <3>1 DEF TypeOK
    <3>2. CASE PipelinesStart(Main, {}) /\ Starting(Main) = Nodes(Main)
      <4>1. Nodes(Main) = Videos
        BY <2>3 DEF Nodes
      <4> QED
        BY <1>2, <2>3, <3>2, <4>1, PairAssumption DEF PipelinesStart
    <3> QED
      BY <1>9, <2>1, <3>1, <3>2, StreamonStarts DEF FormatMode
  <2> QED
    BY <2>1, <2>3, <2>4 DEF modeVars
<1>10. CASE Vsync(u)
  BY <1>10 DEF Vsync, appVars, modeVars, PairedInv, AsksForPair
<1>11. CASE Streamoff(u)
  <2>1. /\ request[u] # NoRequest /\ UNCHANGED <<request, half, modeVars>>
    BY <1>11 DEF Streamoff
  <2>2. u = Main /\ request[Main] # NoRequest /\ AsksForPair(Main)
    BY <1>3, <2>1
  <2>3. "on" \notin did'[Main] /\ did'[Main] \subseteq did[Main]
    BY <1>2, <1>11, <2>2 DEF Streamoff, TypeOK
  <2> QED
    BY <2>1, <2>2, <2>3 DEF PairedInv, modeVars
<1>12. CASE CloseUnused(u) \/ CloseUsed(u)
  BY <1>2, <1>12, ClosingKeeps DEF CloseUnused, CloseUsed
<1> QED
  BY <1>1, <1>4, <1>5, <1>6, <1>7, <1>8, <1>9, <1>10, <1>11, <1>12

(* Each stream halves the width that its own S_FMT has set: the application      *)
(* sets the format again after STREAMOFF.                                     *)
LEMMA HalvedKeeps ==
  ASSUME FormatMode, "restart" \notin Faults, FullInv, HalvedInv, Next
  PROVE  HalvedInv'
<1> USE DEF FullInv, PairInv
<1>1. PICK u \in Videos :
        \/ Open(u) \/ SetDmaMerge(u) \/ SInput(u) \/ SParm(u) \/ SFmt(u)
        \/ Streamon(u) \/ Vsync(u) \/ Streamoff(u)
        \/ CloseUnused(u) \/ CloseUsed(u)
  BY DEF Next
<1> DEFINE Count(calls) == IF "on" \in calls THEN 1 ELSE 0
<1> SUFFICES ASSUME request'[Main] # NoRequest, AsksForPair(Main)'
             PROVE  /\ half'[Main] = "fmt" => halved'[Bind] = 0
                    /\ "fmt" \in did'[Main] => \A n \in Videos : halved'[n] = Count(did'[Main])
  BY DEF HalvedInv
<1>2. Main \in Videos /\ Bind \in Videos
  BY DEF Videos
<1>3. ASSUME UNCHANGED request, request[u] # NoRequest
      PROVE  u = Main /\ request[Main] # NoRequest /\ AsksForPair(Main)
  BY <1>2, <1>3, OthersIdle DEF AsksForPair
<1>4. CASE Open(u)
  <2>1. \A v \in Videos : request[v] = NoRequest
    BY <1>4 DEF Open, FormatMode, PairMode, All
  <2>2. \A v \in Videos : did'[v] = {} /\ half'[v] = "none"
    BY <1>4, <2>1 DEF Open, SessionInv, TypeOK
  <2> QED
    BY <1>2, <2>2
<1>5. CASE SetDmaMerge(u)
  <2>1. /\ request[u] # NoRequest /\ half[u] = "none" /\ "merge" \notin did[u]
        /\ UNCHANGED <<request, half>> /\ did' = [did EXCEPT ![u] = @ \cup {"merge"}]
    BY <1>5 DEF SetDmaMerge, Calling, TypeOK
  <2>2. u = Main /\ request[Main].merge
    BY <1>3, <2>1 DEF AsksForPair
  <2>3. "fmt" \notin did[Main]
    BY <1>2, <2>1, <2>2 DEF SessionInv
  <2> QED
    BY <1>2, <2>1, <2>2, <2>3 DEF TypeOK
<1>6. CASE SInput(u)
  <2>1. PICK ok \in BOOLEAN : Calling(u, "input") /\ Return(u, "input", ok)
    BY <1>6, SInputReturns
  <2>2. u = Main
    BY <1>3, <2>1, CallHalves
  <2>3. "fmt" \notin did[Main]
    BY <1>2, <2>1, <2>2, CallHalves DEF SessionInv
  <2>4. half'[Main] # "fmt" /\ "fmt" \notin did'[Main]
    BY <2>1, <2>2, <2>3, CallHalves
  <2> QED
    BY <2>4
<1>7. CASE SParm(u)
  <2> DEFINE ok == has_sensor[Turn(u, "parm")]
  <2>1. Calling(u, "parm") /\ Return(u, "parm", ok) /\ ok \in BOOLEAN /\ UNCHANGED halved
    BY <1>7 DEF SParm, TypeOK, Turn, Videos, dmaVars
  <2>2. u = Main /\ request[Main] # NoRequest /\ AsksForPair(Main)
    BY <1>3, <2>1, CallHalves
  <2>3. /\ half'[Main] # "fmt"
        /\ \A call \in {"fmt", "on"} : call \in did'[Main] <=> call \in did[Main]
    BY <2>1, <2>2, CallHalves
  <2> QED
    BY <2>1, <2>2, <2>3 DEF HalvedInv
<1>8. CASE SFmt(u)
  <2> DEFINE n == Turn(u, "fmt")
             ok == ~streaming[n] /\ has_sensor[n]
  <2>1. n \in Videos
    BY DEF Turn, Videos
  <2>2. /\ Calling(u, "fmt") /\ Return(u, "fmt", ok) /\ ok \in BOOLEAN
        /\ halved' = [halved EXCEPT ![n] = IF ok THEN 0 ELSE @]
    BY <1>8, <2>1 DEF SFmt, TypeOK
  <2>3. u = Main /\ request[Main] # NoRequest /\ AsksForPair(Main)
    BY <1>3, <2>2, CallHalves
  <2>4. "fmt" \notin did[Main] /\ "input" \in did[Main] /\ "on" \notin did[Main]
    <3>1. "fmt" \notin did[Main] /\ Needs(Main, "fmt") \subseteq did[Main]
      BY <2>2, <2>3 DEF Calling
    <3> QED
      BY <1>2, <3>1, NeedsOf DEF FormatMode, SessionInv
  <2>5. "on" \notin did'[Main]
    BY <1>2, <2>2, <2>3, <2>4, ReturnKeeps
  <2>6. Nodes(Main) = Videos
    <3>1. "merge" \in did[Main]
      BY <1>2, <2>3, <2>4 DEF SessionInv, AsksForPair
    <3> QED
      BY <2>3, <3>1 DEF PairedInv, Nodes
  <2>7. half'[Main] = "fmt" => halved'[Bind] = 0
    <3>1. half'[Main] = "fmt" => n = Bind /\ ok
      BY <2>2, <2>3, CallHalves
    <3> QED
      BY <1>2, <2>2, <3>1 DEF TypeOK
  <2>8. "fmt" \in did'[Main] => \A m \in Videos : halved'[m] = 0
    <3>1. Nodes(Main) # {Main}
      BY <1>2, <2>6, PairAssumption
    <3>2. "fmt" \in did'[Main] => ok /\ n = Main /\ half[Main] = "fmt"
      <4> HIDE DEF ok
      <4>1. \/ did'[u] = did[u] \/ did'[u] = did[u] \cup {"error"}
            \/ ok /\ n = u /\ (half[u] = "fmt" \/ Nodes(u) = {u})
        BY <2>2, CallHalves
      <4> QED
        BY <2>3, <2>4, <3>1, <4>1
    <3>3. half[Main] = "fmt" => halved[Bind] = 0
      BY <2>3 DEF HalvedInv
    <3> QED
      BY <1>2, <2>2, <3>2, <3>3 DEF TypeOK, Videos
  <2> QED
    BY <2>5, <2>7, <2>8
<1>9. CASE Streamon(u)
  <2>1. /\ u = Main /\ request[Main] # NoRequest /\ AsksForPair(Main) /\ half'[Main] = "none"
        /\ {"parm", "fmt", "input"} \subseteq did[Main] /\ "on" \notin did[Main]
    BY <1>3, <1>9, StreamonStarts DEF FormatMode
  <2>2. "merge" \in did[Main]
    BY <1>2, <2>1 DEF SessionInv, AsksForPair
  <2>3. dma_merge_mode[Main] /\ large_image[Bind] /\ large_image[Main]
    BY <2>1, <2>2 DEF PairedInv
  <2>4. \A n \in Videos : halved[n] = 0
    BY <2>1 DEF HalvedInv
  <2>5. \A n \in Videos : halved'[n] = Count(did'[Main])
    <3>1. CASE did' = [did EXCEPT ![Main] = @ \cup {"error"}] /\ UNCHANGED halved
      BY <1>2, <2>1, <2>4, <3>1 DEF TypeOK
    <3>2. CASE /\ PipelinesStart(Main, {}) /\ Starting(Main) = Nodes(Main)
               /\ did' = [did EXCEPT ![Main] = @ \cup {"on"}]
      <4>1. Nodes(Main) = Videos
        BY <2>3 DEF Nodes
      <4>2. \A n \in Videos : halved'[n] = 1
        BY <2>3, <2>4, <3>2, <4>1 DEF PipelinesStart, Videos
      <4> QED
        BY <1>2, <3>2, <4>2 DEF TypeOK
    <3> QED
      BY <1>9, <2>1, <3>1, <3>2, StreamonStarts DEF FormatMode, dmaVars
  <2> QED
    BY <2>1, <2>5
<1>10. CASE Vsync(u)
  BY <1>10 DEF Vsync, appVars, HalvedInv, AsksForPair
<1>11. CASE Streamoff(u)
  <2>1. /\ request[u] # NoRequest /\ half[u] = "none" /\ UNCHANGED <<request, half>>
        /\ did' = [did EXCEPT ![u] = @ \ {"on", "fmt"}]
    BY <1>11 DEF Streamoff
  <2>2. u = Main
    BY <1>3, <2>1
  <2> QED
    BY <1>2, <2>1, <2>2 DEF TypeOK
<1>12. CASE CloseUnused(u) \/ CloseUsed(u)
  BY <1>2, <1>12, ClosingKeeps DEF CloseUnused, CloseUsed
<1> QED
  BY <1>1, <1>4, <1>5, <1>6, <1>7, <1>8, <1>9, <1>10, <1>11, <1>12

LEMMA FullInit == Init => FullInv /\ HalvedInv
<1> SUFFICES ASSUME Init PROVE FullInv /\ HalvedInv
  OBVIOUS
<1>1. PairInv
  BY PairInit
<1>2. \A v \in Videos : request[v] = NoRequest /\ did[v] = {} /\ half[v] = "none"
  BY DEF Init, All
<1>3. HalfInv /\ FormatInv
  BY <1>2 DEF HalfInv, FormatInv
<1>4. PairedInv /\ HalvedInv
  BY <1>2 DEF PairedInv, HalvedInv, Videos
<1> QED
  BY <1>1, <1>3, <1>4 DEF FullInv

LEMMA FullStep == FormatMode /\ FullInv /\ [Next]_vars => FullInv'
<1> SUFFICES ASSUME FormatMode, FullInv, [Next]_vars PROVE FullInv'
  OBVIOUS
<1>1. PairInv'
  BY PairStep DEF FullInv, FormatMode
<1>2. CASE Next
  BY <1>1, <1>2, HalfKeeps, FormatKeeps, PairedKeeps DEF FullInv, PairInv
<1>3. CASE UNCHANGED vars
  BY <1>1, <1>3 DEF FullInv, HalfInv, FormatInv, PairedInv, AsksForPair, Nodes, Needs, vars,
                    appVars, modeVars, dmaVars
<1> QED
  BY <1>2, <1>3

LEMMA FullInductive == FormatMode /\ Spec => []FullInv
<1> SUFFICES ASSUME FormatMode PROVE Spec => []FullInv
  OBVIOUS
<1>1. FullInv /\ [Next]_vars => FullInv'
  BY FullStep
<1> QED
  BY <1>1, FullInit, PTL DEF Spec

(* Whatever has been captured before, by either node and with or without a       *)
(* merge, a main node that asks for the pair streams the full frame with both     *)
(* halves: each takes one half of the same frame, the sensor's lines are split,   *)
(* and only the main node raises interrupts.  It needs S_FMT before each start    *)
(* and before S_PARM; the sensor may be missing and processes may be killed.     *)
THEOREM FullFrameAlwaysPaired ==
  FormatMode /\ "restart" \notin Faults /\ Spec => []FullFrameIsPaired
<1> SUFFICES ASSUME FormatMode, "restart" \notin Faults PROVE Spec => []FullFrameIsPaired
  OBVIOUS
<1> DEFINE Inv == FullInv /\ HalvedInv
<1>1. Inv /\ [Next]_vars => Inv'
  <2>1. ASSUME FullInv, HalvedInv, UNCHANGED vars PROVE HalvedInv'
    BY <2>1 DEF HalvedInv, AsksForPair, vars, appVars, dmaVars
  <2> QED
    BY <2>1, FullStep, HalvedKeeps
<1>2. Inv => FullFrameIsPaired
  <2> SUFFICES ASSUME Inv, "on" \in did[Main], AsksForPair(Main)
               PROVE  /\ csi_large /\ irq[Main] /\ ~irq[Bind]
                      /\ \A n \in Videos : /\ stream_count[n] > 0 /\ frame[n] = "full"
                                           /\ large_image[n] /\ halved[n] = 1
    BY DEF FullFrameIsPaired, Streams
  <2> USE DEF FullInv, PairInv
  <2>1. Main \in Videos
    BY DEF Videos
  <2>2. /\ request[Main] # NoRequest /\ {"merge", "parm", "fmt"} \subseteq did[Main]
    BY <2>1 DEF SessionInv, AsksForPair
  <2>3. /\ dma_merge_mode[Main] /\ csi_large /\ irq[Main] /\ ~irq[Bind]
        /\ \A n \in Videos : large_image[n]
    BY <2>2 DEF PairedInv, Videos
  <2>4. Nodes(Main) = Videos
    BY <2>3 DEF Nodes
  <2>5. \A n \in Videos : stream_count[n] > 0
    <3>1. \A n \in Videos : streaming[n]
      BY <2>1, <2>4 DEF StreamInv
    <3>2. \A n \in Videos : stream_count[n] = IF streaming[n] THEN 1 ELSE 0
      BY DEF StreamInv
    <3> QED
      BY <3>1, <3>2
  <2>6. \A n \in Videos : frame[n] = "full"
    BY <2>1, <2>2, <2>4 DEF FormatInv, AsksForPair
  <2>7. \A n \in Videos : halved[n] = 1
    BY <2>2 DEF HalvedInv
  <2> QED
    BY <2>3, <2>5, <2>6, <2>7
<1>3. Init => Inv
  BY FullInit
<1> HIDE DEF Inv
<1> QED
  BY <1>1, <1>2, <1>3, PTL DEF Spec

-----------------------------------------------------------------------------
(***************************************************************************)
(* What is left of a pair when its application has gone: nothing, as long as    *)
(* applications ask for a merge where it is meant.                            *)
(***************************************************************************)

(* A merge is asked for the full frame on the main node, and for 1920x1080 on    *)
(* the bind, where it is refused; the bind finds its sensor and nobody is        *)
(* killed between SET_DMA_MERGE and S_INPUT.                                  *)
CarefulMode ==
  /\ FormatFirst /\ Faults \subseteq {"restart", "init_main"}
  /\ \A r \in Requests : r.merge => (r.video = Main <=> r.size = "full")

(* A session has the merge that it has asked for, and no other.                 *)
MergeInv ==
  /\ \A v \in Videos : request[v] # NoRequest => request[v].video = v
  /\ \A v \in Videos : "merge" \in did[v] => request[v].merge
  /\ dma_merge_mode[Main] <=> "merge" \in did[Main]
  /\ dma_merge_mode[Bind] => "merge" \in did[Main] \cup did[Bind]

(* The nodes whose pipeline a session has opened.                             *)
Opened(v) ==
  IF did[v] \cap {"input", "error"} # {} THEN Nodes(v)
  ELSE IF half[v] = "input" THEN {Bind} ELSE {}

(* Each is counted once, and nothing is without a session.                      *)
CountsInv ==
  /\ \A v \in Videos : \A n \in Opened(v) : has_sensor[n]
  /\ \A n \in Videos : use_count[n] = IF \E v \in Videos : n \in Opened(v) THEN 1 ELSE 0
  /\ sensor_use = Cardinality({n \in Videos : \E v \in Videos : n \in Opened(v)})

(* A session that is not a pair has nothing of one.                            *)
WholeInv ==
  \A v \in Videos : request[v] # NoRequest /\ ~AsksForPair(v) =>
    /\ "parm" \in did[v] => ~csi_large /\ ~large_image[v] /\ ~dma_merge_mode[v]
    /\ "fmt" \in did[v] => halved[v] = 0
    /\ "on" \in did[v] => irq[v]

(* The DMAs of a session that streams write to the queue of its node.            *)
TargetInv ==
  \A v \in Videos : "on" \in did[v] =>
    vb2_streaming[v] /\ \A n \in Nodes(v) : target[n] = v

CareInv == FullInv /\ MergeInv /\ CountsInv /\ WholeInv /\ TargetInv

LEMMA CarefulFormat == CarefulMode => FormatMode
BY DEF CarefulMode, FormatMode, PairMode

(* A merge on the main node is for a full frame, one on the bind is not.         *)
LEMMA MergesFull ==
  ASSUME CarefulMode, TypeOK, MergeInv, NEW v \in Videos, request[v] # NoRequest
  PROVE  /\ request[v].size \in Sizes
         /\ request[v].merge => (v = Main <=> request[v].size = "full")
<1>1. request[v] \in Requests /\ request[v].video = v
  BY DEF TypeOK, MergeInv
<1> QED
  BY <1>1, PairAssumption DEF CarefulMode

(* SET_DMA_MERGE is the first call of a session.                               *)
LEMMA SetDmaMergeFirst ==
  ASSUME TypeOK, SessionInv, NEW u \in Videos, SetDmaMerge(u)
  PROVE  /\ request[u] # NoRequest /\ request[u].merge /\ did[u] = {}
         /\ UNCHANGED <<request, half>> /\ did'[u] = {"merge"}
         /\ \A v \in Videos : half[v] = "none"
         /\ \A v \in Videos \ {u} : request[v] = NoRequest /\ did[v] = {} /\ did'[v] = {}
<1>1. /\ request[u] # NoRequest /\ request[u].merge /\ half[u] = "none"
      /\ {"merge", "error"} \cap did[u] = {} /\ UNCHANGED <<request, half>>
      /\ did' = [did EXCEPT ![u] = @ \cup {"merge"}]
  BY DEF SetDmaMerge, Calling, TypeOK
<1>2. "input" \notin did[u]
  BY <1>1 DEF SessionInv
<1>3. {"parm", "fmt"} \cap did[u] = {} /\ "on" \notin did[u]
  BY <1>2 DEF SessionInv
<1>4. did[u] = {}
  BY <1>1, <1>2, <1>3 DEF TypeOK, Calls
<1>5. \A v \in Videos \ {u} : request[v] = NoRequest /\ did[v] = {} /\ half[v] = "none"
  BY <1>1, OthersIdle
<1> QED
  BY <1>1, <1>4, <1>5 DEF TypeOK

(* The calls after it do not change who has asked for what.                      *)
LEMMA MergeAsked ==
  ASSUME FormatMode, PairInv, HalfInv, NEW u \in Videos,
         SInput(u) \/ SParm(u) \/ SFmt(u) \/ Streamon(u) \/ Vsync(u) \/ Streamoff(u)
  PROVE  /\ request' = request
         /\ \A v \in Videos : "merge" \in did'[v] <=> "merge" \in did[v]
<1> USE DEF PairInv
<1>1. ASSUME NEW call \in {"input", "parm", "fmt"}, NEW ok \in BOOLEAN,
             Calling(u, call), Return(u, call, ok)
      PROVE  request' = request /\ \A v \in Videos : "merge" \in did'[v] <=> "merge" \in did[v]
  BY <1>1 DEF Return, TypeOK
<1>2. CASE SInput(u)
  BY <1>1, <1>2, SInputReturns
<1>3. CASE SParm(u)
  <2>1. has_sensor[Turn(u, "parm")] \in BOOLEAN
    BY DEF TypeOK, Turn, Videos
  <2> QED
    BY <1>1, <1>3, <2>1 DEF SParm
<1>4. CASE SFmt(u)
  BY <1>1, <1>4 DEF SFmt
<1>5. CASE Streamon(u)
  BY <1>5, StreamonReturns DEF Streamon, TypeOK
<1>6. CASE Vsync(u)
  BY <1>6 DEF Vsync, appVars
<1>7. CASE Streamoff(u)
  BY <1>7 DEF Streamoff, TypeOK
<1> QED
  BY <1>2, <1>3, <1>4, <1>5, <1>6, <1>7

LEMMA IdleOpensNothing ==
  ASSUME NEW v, did[v] = {}, half[v] = "none"
  PROVE  Opened(v) = {}
BY DEF Opened

(* What a session that is alone has opened is all that is counted.              *)
LEMMA OpenedByOne ==
  ASSUME TypeOK, SessionInv, CountsInv, NEW v \in Videos, request[v] # NoRequest
  PROVE  /\ Opened(v) \subseteq Videos
         /\ \A w \in Videos \ {v} : Opened(w) = {}
         /\ \A n \in Videos : use_count[n] = IF n \in Opened(v) THEN 1 ELSE 0
         /\ sensor_use = Cardinality(Opened(v))
<1>1. Opened(v) \subseteq Videos
  BY DEF Opened, Nodes, Videos
<1>2. \A w \in Videos \ {v} : Opened(w) = {}
  BY OthersIdle, IdleOpensNothing
<1>3. \A n \in Videos : n \in Opened(v) <=> \E w \in Videos : n \in Opened(w)
  BY <1>2
<1>4. {n \in Videos : \E w \in Videos : n \in Opened(w)} = Opened(v)
  BY <1>1, <1>3
<1>5. \A n \in Videos : use_count[n] = IF n \in Opened(v) THEN 1 ELSE 0
  BY <1>3 DEF CountsInv
<1>6. sensor_use = Cardinality(Opened(v))
  BY <1>4 DEF CountsInv
<1> QED
  BY <1>1, <1>2, <1>5, <1>6

(* vin_close returns early only for a session that has called nothing.            *)
LEMMA UnusedHasCalledNothing ==
  ASSUME CarefulMode, CareInv, NEW v \in Videos, CloseUnused(v)
  PROVE  did[v] = {}
<1> USE DEF CareInv, FullInv, PairInv
<1>1. /\ request[v] # NoRequest /\ half[v] = "none" /\ did[v] # {"merge"}
      /\ ~(has_sensor[v] /\ sensor_use > 0)
  BY DEF CloseUnused, Closing, CarefulMode
<1>2. did[v] \cap {"input", "error"} = {}
  <2> SUFFICES ASSUME did[v] \cap {"input", "error"} # {} PROVE FALSE
    OBVIOUS
  <2>1. Opened(v) = Nodes(v) /\ v \in Opened(v)
    BY DEF Opened, Nodes
  <2>2. has_sensor[v]
    BY <2>1 DEF CountsInv
  <2>3. sensor_use = Cardinality(Opened(v)) /\ Opened(v) \in SUBSET Videos
    BY <1>1, OpenedByOne
  <2>4. sensor_use > 0
    BY <2>1, <2>3, CountNodes, FS_EmptySet
  <2> QED
    BY <1>1, <2>2, <2>4
<1>3. {"parm", "fmt"} \cap did[v] = {} /\ "on" \notin did[v]
  BY <1>2 DEF SessionInv
<1>4. did[v] \subseteq {"merge"}
  BY <1>2, <1>3 DEF TypeOK, Calls
<1> QED
  BY <1>1, <1>4

(* S_PARM refuses a merge only to a session that has asked for another size.     *)
LEMMA MergeKeeps ==
  ASSUME CarefulMode, CareInv, Next
  PROVE  MergeInv'
<1> USE DEF CareInv, FullInv, PairInv
<1>1. PICK u \in Videos :
        \/ Open(u) \/ SetDmaMerge(u) \/ SInput(u) \/ SParm(u) \/ SFmt(u)
        \/ Streamon(u) \/ Vsync(u) \/ Streamoff(u)
        \/ CloseUnused(u) \/ CloseUsed(u)
  BY DEF Next
<1>2. Main \in Videos /\ Bind \in Videos /\ Main # Bind /\ FormatMode
  BY CarefulFormat, PairAssumption DEF Videos
<1>3. CASE Open(u)
  <2>1. \A v \in Videos : request[v] = NoRequest
    BY <1>2, <1>3 DEF Open, FormatMode, PairMode, All
  <2>2. \A v \in Videos : did[v] = {} /\ did'[v] = {}
    BY <1>3, <2>1 DEF Open, SessionInv, TypeOK
  <2>3. UNCHANGED dma_merge_mode
    BY <1>3 DEF Open, modeVars
  <2>4. \A v \in Videos : request'[v] # NoRequest => request'[v].video = v
    BY <1>3, <2>1 DEF Open, TypeOK
  <2> QED
    BY <1>2, <2>2, <2>3, <2>4 DEF MergeInv
<1>4. CASE SetDmaMerge(u)
  <2>1. dma_merge_mode' = [n \in Videos |-> dma_merge_mode[n] \/ n = u \/ u = Main]
    BY <1>4 DEF SetDmaMerge
  <2>2. ~dma_merge_mode[Main] /\ ~dma_merge_mode[Bind]
    BY <1>2, <1>4, SetDmaMergeFirst DEF MergeInv
  <2> QED
    BY <1>2, <1>4, <2>1, <2>2, SetDmaMergeFirst DEF MergeInv, Videos
<1>5. CASE SParm(u)
  <2> DEFINE n == Turn(u, "parm")
  <2>1. /\ request' = request
        /\ \A v \in Videos : "merge" \in did'[v] <=> "merge" \in did[v]
    BY <1>2, <1>5, MergeAsked
  <2>2. n \in Videos
    BY DEF Turn, Videos
  <2>3. dma_merge_mode' = [dma_merge_mode EXCEPT ![n] = Stitches(n)]
    BY <1>5 DEF SParm
  <2>4. \A m \in Videos : dma_merge_mode'[m] => dma_merge_mode[m]
    BY <2>2, <2>3 DEF Stitches, TypeOK
  <2>5. ASSUME dma_merge_mode[Main] PROVE dma_merge_mode'[Main]
    <3>1. "merge" \in did[Main] /\ request[Main].merge /\ request[Main] # NoRequest
      BY <1>2, <2>5 DEF MergeInv, SessionInv
    <3>2. request[Main].size = "full"
      BY <1>2, <3>1, MergesFull
    <3>3. u = Main
      BY <1>2, <1>5, <3>1, OthersIdle DEF SParm, Calling
    <3>4. "fmt" \in did[Main]
      BY <1>2, <1>5, <3>3, NeedsOf DEF FormatMode, SParm, Calling
    <3>5. Nodes(Main) = Videos
      BY <2>5 DEF Nodes
    <3>6. frame[Main] = "full"
      BY <1>2, <3>2, <3>4, <3>5 DEF FormatInv
    <3> QED
      BY <1>2, <2>2, <2>3, <2>5, <3>6 DEF Stitches, TypeOK
  <2> QED
    BY <1>2, <2>1, <2>4, <2>5 DEF MergeInv
<1>6. CASE SInput(u) \/ SFmt(u) \/ Streamon(u) \/ Vsync(u) \/ Streamoff(u)
  <2>1. UNCHANGED dma_merge_mode
    BY <1>6 DEF SInput, SFmt, Streamon, Vsync, Streamoff, modeVars
  <2> QED
    BY <1>2, <1>6, <2>1, MergeAsked DEF MergeInv
<1>7. CASE CloseUnused(u)
  <2>1. \A v \in Videos : did[v] = {}
    BY <1>7, UnusedHasCalledNothing, OthersIdle DEF CloseUnused, Closing
  <2>2. \A v \in Videos : did'[v] = {} /\ request'[v] = NoRequest
    BY <1>7, ClosingKeeps DEF CloseUnused
  <2> QED
    BY <1>2, <1>7, <2>1, <2>2 DEF CloseUnused, MergeInv
<1>8. CASE CloseUsed(u)
  <2>1. \A v \in Videos \ {u} : did[v] = {}
    BY <1>8, OthersIdle DEF CloseUsed, Closing
  <2>2. \A v \in Videos : did'[v] = {} /\ request'[v] = NoRequest
    BY <1>8, ClosingKeeps DEF CloseUsed
  <2>3. dma_merge_mode' = [n \in Videos |-> dma_merge_mode[n] /\ n \notin Nodes(u)]
    BY <1>8 DEF CloseUsed, Releases
  <2>4. ~dma_merge_mode'[Main] /\ ~dma_merge_mode'[Bind]
    BY <1>2, <2>1, <2>3 DEF MergeInv, Nodes, Videos
  <2> QED
    BY <1>2, <2>2, <2>4 DEF MergeInv
<1> QED
  BY <1>1, <1>3, <1>4, <1>5, <1>6, <1>7, <1>8

(* Before STREAMON S_INPUT can link a node, and it finds the sensor unless the    *)
(* main node's own S_INPUT fails in its sensor: it opens the node either way.     *)
LEMMA SInputOpens ==
  ASSUME CarefulMode, CareInv, NEW u \in Videos, SInput(u)
  PROVE  LET n == Turn(u, "input")
         IN  /\ n \in Videos /\ n \notin Opened(u) /\ Opened(u)' = Opened(u) \cup {n}
             /\ has_sensor' = [has_sensor EXCEPT ![n] = TRUE]
             /\ use_count' = [use_count EXCEPT ![n] = @ + 1]
             /\ sensor_use' = sensor_use + 1
<1> DEFINE n == Turn(u, "input")
<1> USE DEF CareInv, FullInv, PairInv
<1>1. n \in Videos /\ n \in {Bind, u} /\ Main # Bind
  BY PairAssumption DEF Turn, Videos
<1>2. Calling(u, "input") /\ request[u] # NoRequest /\ "input" \notin did[u] /\ "error" \notin did[u]
  BY DEF SInput, Calling
<1>3. "on" \notin did[u]
  BY <1>2 DEF SessionInv
<1>4. \A m \in Videos : ~streaming[m]
  BY <1>2, <1>3, NotStreaming
<1>5. stream_count[n] = 0 /\ sensor_stream = 0
  <2>1. {m \in Videos : streaming[m]} = {}
    BY <1>4
  <2> QED
    BY <1>1, <1>4, <2>1, CountNodes DEF StreamInv
<1>6. sensor_link' /\ tdm_link'[n] /\ TdmLinkable(n)
  BY <1>1, <1>5 DEF SInput, LinksOn, TdmLinkable, TypeOK
<1>7. /\ has_sensor' = [has_sensor EXCEPT ![n] = TRUE]
      /\ use_count' = [use_count EXCEPT ![n] = @ + 1]
  BY <1>6 DEF SInput
<1>8. has_sensor'[n]
  BY <1>1, <1>7 DEF TypeOK
<1>9. sensor_use' = sensor_use + 1
  BY <1>6, <1>8 DEF SInput
<1>10. PICK found \in BOOLEAN : Return(u, "input", found) /\ (found \/ n # Bind)
  <2>1. PICK found \in {has_sensor'[n], has_sensor'[n] /\ ~InitFails(n)} :
          Return(u, "input", found)
    BY <1>6 DEF SInput
  <2>2. n = Bind => ~InitFails(n)
    BY DEF InitFails, CarefulMode
  <2>3. found \in BOOLEAN /\ (found \/ n # Bind)
    <3>1. has_sensor'[n] = TRUE
      BY <1>1, <1>7 DEF TypeOK
    <3>2. InitFails(n) \in BOOLEAN
      BY DEF InitFails
    <3> QED
      BY <2>1, <2>2, <3>1, <3>2
  <2> QED
    BY <2>1, <2>3
<1>11. Nodes(u)' = Nodes(u)
  BY DEF SInput, modeVars, Nodes
<1>12. Opened(u) = IF half[u] = "input" THEN {Bind} ELSE {}
  BY <1>2 DEF Opened
<1>13. half[u] = "input" => u = Main /\ Nodes(u) = Videos
  BY DEF HalfInv, Nodes
<1>14. n = u => half[u] = "input" \/ Nodes(u) = {u}
  BY <1>1 DEF Turn, Nodes, Videos
<1>15. n \notin Opened(u) /\ Opened(u)' = Opened(u) \cup {n}
  <2>1. CASE half[u] = "none" /\ n = Bind /\ half'[u] = "input" /\ did'[u] = did[u]
    BY <1>2, <1>12, <2>1 DEF Opened
  <2>2. CASE n = u /\ did'[u] \cap {"input", "error"} # {}
    <3>1. Opened(u)' = Nodes(u)
      BY <1>11, <2>2 DEF Opened
    <3> QED
      BY <1>1, <1>12, <1>13, <1>14, <2>2, <3>1 DEF Videos
  <2>3. \/ half[u] = "none" /\ n = Bind /\ half'[u] = "input" /\ did'[u] = did[u]
        \/ ~found /\ did'[u] = did[u] \cup {"error"}
        \/ n = u /\ did'[u] = did[u] \cup {"input"}
    BY <1>2, <1>10, CallHalves
  <2>4. ~found => n = u
    BY <1>1, <1>10
  <2> QED
    BY <2>1, <2>2, <2>3, <2>4
<1> QED
  BY <1>1, <1>7, <1>9, <1>15

(* What one session has opened is all that is counted.                          *)
LEMMA CountedByOne ==
  ASSUME NEW v \in Videos, \A w \in Videos \ {v} : Opened(w)' = {}, Opened(v)' \subseteq Videos,
         \A n \in Opened(v)' : has_sensor'[n],
         \A n \in Videos : use_count'[n] = IF n \in Opened(v)' THEN 1 ELSE 0,
         sensor_use' = Cardinality(Opened(v)')
  PROVE  CountsInv'
<1>1. \A n \in Videos : n \in Opened(v)' <=> \E w \in Videos : n \in Opened(w)'
  OBVIOUS
<1>2. {n \in Videos : \E w \in Videos : n \in Opened(w)'} = Opened(v)'
  BY <1>1
<1>3. \A w \in Videos : \A n \in Opened(w)' : has_sensor'[n]
  OBVIOUS
<1>4. \A n \in Videos : use_count'[n] = IF \E w \in Videos : n \in Opened(w)' THEN 1 ELSE 0
  BY <1>1
<1> QED
  BY <1>2, <1>3, <1>4 DEF CountsInv

LEMMA CountsKeeps ==
  ASSUME CarefulMode, CareInv, MergeInv', PairInv', Next
  PROVE  CountsInv'
<1> USE DEF CareInv, FullInv, PairInv
<1>1. PICK u \in Videos :
        \/ Open(u) \/ SetDmaMerge(u) \/ SInput(u) \/ SParm(u) \/ SFmt(u)
        \/ Streamon(u) \/ Vsync(u) \/ Streamoff(u)
        \/ CloseUnused(u) \/ CloseUsed(u)
  BY DEF Next
<1>2. Main \in Videos /\ Bind \in Videos /\ Main # Bind /\ FormatMode
  BY CarefulFormat, PairAssumption DEF Videos
<1>3. ASSUME \A v \in Videos : Opened(v)' = Opened(v), UNCHANGED powerVars
      PROVE  CountsInv'
  BY <1>3 DEF CountsInv, powerVars
<1>4. CASE Open(u)
  <2>1. \A v \in Videos : request[v] = NoRequest
    BY <1>2, <1>4 DEF Open, FormatMode, PairMode, All
  <2>2. \A v \in Videos : did[v] = {} /\ did'[v] = {} /\ half[v] = "none" /\ half'[v] = "none"
    BY <1>4, <2>1 DEF Open, SessionInv, TypeOK
  <2>3. \A v \in Videos : Opened(v)' = Opened(v)
    BY <2>2 DEF Opened
  <2> QED
    BY <1>3, <1>4, <2>3 DEF Open
<1>5. CASE SetDmaMerge(u)
  <2>1. \A v \in Videos : Opened(v)' = Opened(v)
    BY <1>5, SetDmaMergeFirst DEF Opened
  <2> QED
    BY <1>3, <1>5, <2>1 DEF SetDmaMerge
<1>6. CASE SInput(u)
  <2> DEFINE n == Turn(u, "input")
             opened == Opened(u)
  <2>1. request[u] # NoRequest
    BY <1>6 DEF SInput, Calling
  <2>2. /\ n \in Videos /\ n \notin opened /\ Opened(u)' = opened \cup {n}
        /\ has_sensor' = [has_sensor EXCEPT ![n] = TRUE]
        /\ use_count' = [use_count EXCEPT ![n] = @ + 1]
        /\ sensor_use' = sensor_use + 1
    BY <1>6, SInputOpens
  <2>3. /\ opened \subseteq Videos /\ sensor_use = Cardinality(opened)
        /\ \A m \in Videos : use_count[m] = IF m \in opened THEN 1 ELSE 0
    BY <2>1, OpenedByOne
  <2>4. \A m \in opened : has_sensor[m]
    BY DEF CountsInv
  <2>5. \A w \in Videos \ {u} : Opened(w)' = {}
    <3>1. \A w \in Videos \ {u} : did'[w] = {} /\ half'[w] = "none"
      BY <1>6, SInputReturns, CallHalves
    <3> QED
      BY <3>1 DEF Opened
  <2> HIDE DEF n, opened
  <2>6. Cardinality(Opened(u)') = sensor_use'
    BY <2>2, <2>3, CountNodes, FS_AddElement
  <2>7. Opened(u)' \subseteq Videos /\ \A m \in Opened(u)' : has_sensor'[m]
    BY <2>2, <2>3, <2>4 DEF TypeOK
  <2>8. \A m \in Videos : use_count'[m] = IF m \in Opened(u)' THEN 1 ELSE 0
    BY <2>2, <2>3 DEF TypeOK
  <2> QED
    BY <2>5, <2>6, <2>7, <2>8, CountedByOne
<1>7. ASSUME SParm(u) \/ SFmt(u) \/ Streamon(u) \/ Vsync(u) \/ Streamoff(u)
      PROVE  CountsInv'
  <2>1. \A v \in Videos : Nodes(v)' = Nodes(v)
    <3>1. dma_merge_mode'[Main] = dma_merge_mode[Main]
      BY <1>2, <1>7, MergeAsked DEF MergeInv, TypeOK
    <3> QED
      BY <3>1 DEF Nodes
  <2>2. \A v \in Videos :
          /\ did'[v] \cap {"input", "error"} # {} <=> did[v] \cap {"input", "error"} # {}
          /\ half'[v] = "input" <=> half[v] = "input"
    <3>1. ASSUME NEW call \in {"parm", "fmt"}, NEW ok \in BOOLEAN,
                 Calling(u, call), Return(u, call, ok)
          PROVE  \A v \in Videos :
                   /\ did'[v] \cap {"input", "error"} # {} <=> did[v] \cap {"input", "error"} # {}
                   /\ half'[v] = "input" <=> half[v] = "input"
      <4>1. "input" \in did[u]
        BY <1>2, <3>1, NeedsOf DEF FormatMode, Calling, SessionInv
      <4> QED
        BY <3>1, <4>1, CallHalves
    <3>2. CASE SParm(u)
      <4>1. has_sensor[Turn(u, "parm")] \in BOOLEAN
        BY DEF TypeOK, Turn, Videos
      <4> QED
        BY <3>1, <3>2, <4>1 DEF SParm
    <3>3. CASE SFmt(u)
      BY <3>1, <3>3 DEF SFmt
    <3>4. CASE Streamon(u)
      <4>1. "input" \in did[u] /\ UNCHANGED half
        BY <1>2, <3>4, StreamonStarts DEF FormatMode
      <4>2. PICK call \in {"on", "error"} : did' = [did EXCEPT ![u] = @ \cup {call}]
        BY <3>4, StreamonReturns
      <4>3. "input" \in did'[u] /\ \A v \in Videos \ {u} : did'[v] = did[v]
        BY <4>1, <4>2 DEF TypeOK
      <4> QED
        BY <4>1, <4>3
    <3>5. CASE Vsync(u)
      BY <3>5 DEF Vsync, appVars
    <3>6. CASE Streamoff(u)
      BY <3>6 DEF Streamoff, TypeOK
    <3> QED
      BY <1>7, <3>2, <3>3, <3>4, <3>5, <3>6
  <2>3. \A v \in Videos : Opened(v)' = Opened(v)
    BY <2>1, <2>2 DEF Opened
  <2>4. UNCHANGED powerVars
    BY <1>7 DEF SParm, SFmt, Streamon, Vsync, Streamoff
  <2> QED
    BY <1>3, <2>3, <2>4
<1>8. CASE CloseUnused(u)
  <2>1. \A v \in Videos : did[v] = {} /\ half[v] = "none"
    BY <1>8, UnusedHasCalledNothing, OthersIdle DEF CloseUnused, Closing
  <2>2. \A v \in Videos : did'[v] = {} /\ half'[v] = "none"
    BY <1>8, ClosingKeeps DEF CloseUnused
  <2>3. \A v \in Videos : Opened(v)' = Opened(v)
    BY <2>1, <2>2 DEF Opened
  <2> QED
    BY <1>3, <1>8, <2>3 DEF CloseUnused, Closing, powerVars
<1>9. CASE CloseUsed(u)
  <2>1. request[u] # NoRequest /\ half[u] = "none" /\ sensor_use > 0
    BY <1>9 DEF CloseUsed, Closing
  <2>2. /\ sensor_use = Cardinality(Opened(u)) /\ Opened(u) \in SUBSET Videos
        /\ \A m \in Videos : use_count[m] = IF m \in Opened(u) THEN 1 ELSE 0
    BY <2>1, OpenedByOne
  <2>3. Opened(u) # {}
    BY <2>1, <2>2, CountNodes
  <2>4. Opened(u) = Nodes(u)
    BY <2>1, <2>3 DEF Opened
  <2>5. {n \in Releases(u) : has_sensor[n]} = Opened(u)
    BY <2>4 DEF Releases, CountsInv
  <2>6. sensor_use' = 0
    <3>1. sensor_use' = Less(sensor_use, Cardinality(Opened(u)))
      BY <1>9, <2>5 DEF CloseUsed
    <3>2. Cardinality(Opened(u)) \in 0 .. 2
      BY <2>2, CountNodes
    <3> QED
      BY <2>2, <3>1, <3>2 DEF Less
  <2>7. \A m \in Videos : use_count'[m] = 0
    BY <1>9, <2>2, <2>4 DEF CloseUsed, Releases, Less
  <2>8. \A w \in Videos : Opened(w)' = {}
    BY <1>9, ClosingKeeps DEF CloseUsed, Opened
  <2> QED
    BY <2>6, <2>7, <2>8, CountNodes, CountedByOne
<1> QED
  BY <1>1, <1>4, <1>5, <1>6, <1>7, <1>8, <1>9

(* A session that is not a pair has its merge refused by S_PARM and its width      *)
(* set by S_FMT, whatever the last session has left.                           *)
LEMMA WholeKeeps ==
  ASSUME CarefulMode, CareInv, Next
  PROVE  WholeInv'
<1> USE DEF CareInv, FullInv, PairInv
<1>1. PICK u \in Videos :
        \/ Open(u) \/ SetDmaMerge(u) \/ SInput(u) \/ SParm(u) \/ SFmt(u)
        \/ Streamon(u) \/ Vsync(u) \/ Streamoff(u)
        \/ CloseUnused(u) \/ CloseUsed(u)
  BY DEF Next
<1> SUFFICES ASSUME NEW v \in Videos, request'[v] # NoRequest, ~AsksForPair(v)'
             PROVE  /\ "parm" \in did'[v] => ~csi_large' /\ ~large_image'[v] /\ ~dma_merge_mode'[v]
                    /\ "fmt" \in did'[v] => halved'[v] = 0
                    /\ "on" \in did'[v] => irq'[v]
  BY DEF WholeInv
<1>2. Main \in Videos /\ Bind \in Videos /\ Main # Bind /\ FormatMode
  BY CarefulFormat, PairAssumption DEF Videos
<1>3. ASSUME UNCHANGED request, request[u] # NoRequest
      PROVE  u = v /\ ~AsksForPair(v) /\ request[v] # NoRequest
  BY <1>3, OthersIdle DEF AsksForPair
<1>4. CASE Open(u)
  <2>1. did' = [did EXCEPT ![u] = {}] /\ \A w \in Videos : request[w] = NoRequest
    BY <1>2, <1>4 DEF Open, FormatMode, PairMode, All
  <2>2. did'[v] = {}
    BY <2>1 DEF SessionInv, TypeOK
  <2> QED
    BY <2>2
<1>5. CASE SetDmaMerge(u)
  <2>1. did'[v] = {} \/ did'[v] = {"merge"}
    BY <1>5, SetDmaMergeFirst
  <2> QED
    BY <2>1
<1>6. CASE SInput(u)
  <2>1. PICK ok \in BOOLEAN : Calling(u, "input") /\ Return(u, "input", ok)
    BY <1>6, SInputReturns
  <2>2. u = v
    BY <1>3, <2>1, CallHalves
  <2>3. "input" \notin did[v]
    BY <2>1, <2>2, CallHalves
  <2>4. {"parm", "fmt"} \cap did[v] = {} /\ "on" \notin did[v]
    BY <2>3 DEF SessionInv
  <2>5. {"parm", "fmt"} \cap did'[v] = {} /\ "on" \notin did'[v]
    BY <2>1, <2>2, <2>4, CallHalves
  <2> QED
    BY <2>5
<1>7. CASE SParm(u)
  <2> DEFINE n == Turn(u, "parm")
  <2>1. /\ Calling(u, "parm") /\ Return(u, "parm", has_sensor[n]) /\ has_sensor[n] \in BOOLEAN
        /\ UNCHANGED <<halved, irq>>
    BY <1>7 DEF SParm, TypeOK, Turn, Videos, dmaVars
  <2>2. u = v /\ ~AsksForPair(v) /\ request[v] # NoRequest
    BY <1>3, <2>1, CallHalves
  <2>3. "fmt" \in did[v]
    BY <1>2, <2>1, <2>2, NeedsOf DEF FormatMode, Calling
  <2>4. ~Stitches(v)
    <3>1. CASE v = Main
      <4>1. ~request[Main].merge
        BY <2>2, <3>1, MergesFull DEF AsksForPair
      <4> QED
        BY <1>2, <3>1, <4>1 DEF MergeInv, Stitches
    <3>2. CASE v = Bind
      <4>1. "merge" \notin did[Main]
        BY <1>2, <2>2, <3>2, OthersIdle
      <4>2. dma_merge_mode[Bind] => request[Bind].merge
        BY <1>2, <4>1 DEF MergeInv
      <4>3. request[Bind].merge => request[Bind].size = "small"
        BY <1>2, <2>2, <3>2, MergesFull DEF Sizes
      <4>4. frame[Bind] = request[Bind].size
        BY <1>2, <2>3, <3>2 DEF FormatInv, Nodes
      <4> QED
        BY <3>2, <4>2, <4>3, <4>4 DEF Stitches
    <3> QED
      BY <3>1, <3>2 DEF Videos
  <2>5. n = v
    <3>1. v = Main => ~dma_merge_mode[Main]
      BY <1>2, <2>2, MergesFull DEF MergeInv, AsksForPair
    <3> QED
      BY <1>2, <2>2, <3>1 DEF Turn, Nodes, Videos
  <2>6. has_sensor[v]
    <3>1. "input" \in did[v] /\ v \in Nodes(v)
      BY <2>3 DEF SessionInv, Nodes
    <3> QED
      BY <3>1 DEF InputInv
  <2>7. ~csi_large' /\ ~large_image'[v] /\ ~dma_merge_mode'[v]
    BY <1>7, <2>4, <2>5, <2>6 DEF SParm, TypeOK
  <2>8. "fmt" \in did'[v] => halved'[v] = 0
    BY <2>1, <2>2, <2>3 DEF WholeInv
  <2>9. "on" \notin did'[v]
    BY <2>1, <2>2, ReturnKeeps
  <2> QED
    BY <2>7, <2>8, <2>9
<1>8. CASE SFmt(u)
  <2> DEFINE n == Turn(u, "fmt")
             ok == ~streaming[n] /\ has_sensor[n]
  <2>1. /\ Calling(u, "fmt") /\ Return(u, "fmt", ok) /\ ok \in BOOLEAN
        /\ halved' = [halved EXCEPT ![n] = IF ok THEN 0 ELSE @]
        /\ UNCHANGED <<csi_large, large_image, dma_merge_mode>>
    BY <1>8 DEF SFmt, TypeOK, Turn, Videos
  <2>2. u = v /\ ~AsksForPair(v) /\ request[v] # NoRequest
    BY <1>3, <2>1, CallHalves
  <2>3. "fmt" \notin did[v] /\ "on" \notin did'[v]
    BY <2>1, <2>2, ReturnKeeps DEF Calling
  <2> HIDE DEF ok
  <2>4. \/ did'[v] = did[v] \/ did'[v] = did[v] \cup {"error"}
        \/ ok /\ n = v /\ did'[v] = did[v] \cup {"fmt"}
    BY <2>1, <2>2, CallHalves
  <2>5. "fmt" \in did'[v] => halved'[v] = 0
    BY <2>1, <2>3, <2>4 DEF TypeOK
  <2>6. "parm" \in did'[v] => "parm" \in did[v]
    BY <2>4
  <2> QED
    BY <2>1, <2>2, <2>3, <2>5, <2>6 DEF WholeInv
<1>9. CASE Streamon(u)
  <2>1. /\ u = v /\ ~AsksForPair(v) /\ request[v] # NoRequest /\ UNCHANGED modeVars
        /\ {"parm", "fmt"} \subseteq did[v] /\ "on" \notin did[v]
    BY <1>2, <1>3, <1>9, StreamonStarts DEF FormatMode
  <2>2. /\ ~csi_large' /\ ~large_image[v] /\ ~large_image'[v] /\ ~dma_merge_mode[v]
        /\ ~dma_merge_mode'[v] /\ halved[v] = 0
    BY <2>1 DEF WholeInv, modeVars
  <2>3. halved'[v] = 0 /\ ("on" \in did'[v] => irq'[v])
    <3>1. CASE did' = [did EXCEPT ![v] = @ \cup {"error"}] /\ UNCHANGED halved
      BY <2>1, <2>2, <3>1 DEF TypeOK
    <3>2. CASE PipelinesStart(v, {}) /\ Starting(v) = Nodes(v)
      <4>1. v \in Nodes(v)
        BY DEF Nodes
      <4> QED
        BY <2>2, <3>2, <4>1 DEF PipelinesStart
    <3> QED
      BY <1>2, <1>9, <2>1, <3>1, <3>2, StreamonStarts DEF FormatMode, dmaVars
  <2> QED
    BY <2>2, <2>3
<1>10. CASE Vsync(u)
  BY <1>10 DEF Vsync, appVars, modeVars, WholeInv, AsksForPair
<1>11. CASE Streamoff(u)
  <2>1. request[u] # NoRequest /\ UNCHANGED <<request, modeVars, halved>>
    BY <1>11 DEF Streamoff, PipelinesStop
  <2>2. u = v /\ ~AsksForPair(v) /\ request[v] # NoRequest
    BY <1>3, <2>1
  <2>3. "on" \notin did'[v] /\ did'[v] \subseteq did[v]
    BY <1>11, <2>2 DEF Streamoff, TypeOK
  <2> QED
    BY <2>1, <2>2, <2>3 DEF WholeInv, modeVars
<1>12. CASE CloseUnused(u) \/ CloseUsed(u)
  BY <1>12, ClosingKeeps DEF CloseUnused, CloseUsed
<1> QED
  BY <1>1, <1>4, <1>5, <1>6, <1>7, <1>8, <1>9, <1>10, <1>11, <1>12

(* A start gives the DMAs of its session a buffer of its node, and each frame      *)
(* interrupt gives them the next one.                                         *)
LEMMA TargetKeeps ==
  ASSUME CarefulMode, CareInv, Next
  PROVE  TargetInv'
<1> USE DEF CareInv, FullInv, PairInv
<1>1. PICK u \in Videos :
        \/ Open(u) \/ SetDmaMerge(u) \/ SInput(u) \/ SParm(u) \/ SFmt(u)
        \/ Streamon(u) \/ Vsync(u) \/ Streamoff(u)
        \/ CloseUnused(u) \/ CloseUsed(u)
  BY DEF Next
<1>2. Main \in Videos /\ Bind \in Videos /\ Main # Bind /\ FormatMode
  BY CarefulFormat, PairAssumption DEF Videos
<1>3. ASSUME \A v \in Videos : "on" \notin did'[v]
      PROVE  TargetInv'
  BY <1>3 DEF TargetInv
<1>4. CASE Open(u)
  <2>1. \A v \in Videos : request[v] = NoRequest
    BY <1>2, <1>4 DEF Open, FormatMode, PairMode, All
  <2>2. \A v \in Videos : did'[v] = {}
    BY <1>4, <2>1 DEF Open, SessionInv, TypeOK
  <2> QED
    BY <1>3, <2>2
<1>5. CASE SetDmaMerge(u)
  BY <1>3, <1>5, SetDmaMergeFirst
<1>6. CASE SInput(u) \/ SParm(u) \/ SFmt(u)
  <2>1. ASSUME NEW call \in {"input", "parm", "fmt"}, NEW ok \in BOOLEAN,
               Calling(u, call), Return(u, call, ok)
        PROVE  \A v \in Videos : "on" \notin did'[v]
    <3>1. "on" \notin did[u] /\ \A v \in Videos : "on" \in did'[v] <=> "on" \in did[v]
      BY <2>1, ReturnKeeps
    <3>2. \A v \in Videos \ {u} : did[v] = {}
      BY <2>1, CallHalves
    <3> QED
      BY <3>1, <3>2
  <2>2. CASE SInput(u)
    BY <1>3, <2>1, <2>2, SInputReturns
  <2>3. CASE SParm(u)
    <3>1. has_sensor[Turn(u, "parm")] \in BOOLEAN
      BY DEF TypeOK, Turn, Videos
    <3> QED
      BY <1>3, <2>1, <2>3, <3>1 DEF SParm
  <2>4. CASE SFmt(u)
    BY <1>3, <2>1, <2>4 DEF SFmt
  <2> QED
    BY <1>6, <2>2, <2>3, <2>4
<1>7. CASE Streamon(u)
  <2>1. /\ request[u] # NoRequest /\ {"input", "parm", "fmt"} \subseteq did[u]
        /\ \A w \in Videos \ {u} : did[w] = {}
        /\ UNCHANGED modeVars /\ vb2_streaming' = [vb2_streaming EXCEPT ![u] = TRUE]
    BY <1>2, <1>7, StreamonStarts DEF FormatMode
  <2>2. vb2_streaming'[u]
    BY <2>1 DEF TypeOK
  <2>3. Nodes(u)' = Nodes(u)
    BY <2>1 DEF Nodes, modeVars
  <2>4. CASE did' = [did EXCEPT ![u] = @ \cup {"error"}]
    <3>1. \A w \in Videos : "on" \notin did'[w]
      BY <1>2, <1>7, <2>1, <2>4, StreamonStarts DEF FormatMode, TypeOK
    <3> QED
      BY <1>3, <3>1
  <2>5. CASE /\ PipelinesStart(u, {}) /\ Starting(u) = Nodes(u)
             /\ did' = [did EXCEPT ![u] = @ \cup {"on"}]
    <3>1. target' = FirstTargets(u)
      BY <2>5 DEF PipelinesStart
    <3>2. \A n \in Nodes(u) : target'[n] = u
      <4>1. CASE AsksForPair(u)
        <5>1. u = Main /\ "merge" \in did[Main]
          BY <1>2, <2>1, <4>1 DEF AsksForPair, SessionInv
        <5>2. dma_merge_mode[Main] /\ large_image[Main] /\ large_image[Bind]
          BY <2>1, <4>1, <5>1 DEF PairedInv
        <5>3. FirstTargets(u) = Written(target, Main)
          BY <5>1, <5>2 DEF FirstTargets
        <5>4. \A n \in Videos : Written(target, Main)[n] = Main
          BY <2>2, <5>1, <5>2 DEF Written, Videos
        <5> QED
          BY <3>1, <5>1, <5>3, <5>4 DEF Nodes
      <4>2. CASE ~AsksForPair(u)
        <5>1. ~large_image[u] /\ ~dma_merge_mode[u]
          BY <2>1, <4>2 DEF WholeInv
        <5>2. Starting(u) = {u} /\ Nodes(u) = {u}
          BY <2>5, <5>1 DEF Nodes
        <5>3. FirstTargets(u) = Written(target, u)
          BY <1>2, <5>1, <5>2 DEF FirstTargets, Videos
        <5>4. Written(target, u)[u] = u
          BY <2>2 DEF Written
        <5> QED
          BY <3>1, <5>2, <5>3, <5>4
      <4> QED
        BY <4>1, <4>2
    <3>3. \A w \in Videos \ {u} : "on" \notin did'[w]
      BY <2>1, <2>5 DEF TypeOK
    <3> QED
      BY <2>2, <2>3, <3>2, <3>3 DEF TargetInv
  <2> QED
    BY <1>2, <1>7, <2>4, <2>5, StreamonStarts DEF FormatMode
<1>8. CASE Vsync(u)
  <2>1. /\ irq[u] /\ streaming[u] /\ vb2_streaming[u] /\ target' = Written(target, u)
        /\ UNCHANGED <<did, dma_merge_mode, vb2_streaming>>
    BY <1>8 DEF Vsync, appVars, modeVars
  <2> SUFFICES ASSUME NEW v \in Videos, "on" \in did[v], NEW n \in Nodes(v)
               PROVE  vb2_streaming[v] /\ target'[n] = v
    BY <2>1 DEF TargetInv, Nodes
  <2>2. vb2_streaming[v] /\ target[n] = v /\ n \in Videos
    BY DEF TargetInv, Nodes
  <2>3. \A w \in Videos \ {v} : did[w] = {}
    BY OthersIdle DEF SessionInv
  <2>4. u \in Nodes(v)
    <3>1. PICK w \in Videos : "on" \in did[w] /\ u \in Nodes(w)
      BY <2>1 DEF StreamInv
    <3> QED
      BY <2>3, <3>1
  <2>5. u = v
    <3> SUFFICES ASSUME u # v PROVE FALSE
      OBVIOUS
    <3>1. v = Main /\ u = Bind /\ dma_merge_mode[Main]
      BY <2>4 DEF Nodes, Videos
    <3>2. "merge" \in did[Main] /\ request[Main].merge /\ request[Main] # NoRequest
      BY <1>2, <3>1 DEF MergeInv, SessionInv
    <3>3. AsksForPair(Main)
      BY <1>2, <3>2, MergesFull DEF AsksForPair
    <3> QED
      BY <2>1, <3>1, <3>2, <3>3 DEF PairedInv
  <2>6. target'[n] = v
    BY <2>1, <2>2, <2>5 DEF Written, Nodes
  <2> QED
    BY <2>2, <2>6
<1>9. CASE Streamoff(u)
  <2>1. \A v \in Videos : "on" \notin did'[v]
    BY <1>9, OthersIdle DEF Streamoff, TypeOK
  <2> QED
    BY <1>3, <2>1
<1>10. CASE CloseUnused(u) \/ CloseUsed(u)
  BY <1>3, <1>10, ClosingKeeps DEF CloseUnused, CloseUsed
<1> QED
  BY <1>1, <1>4, <1>5, <1>6, <1>7, <1>8, <1>9, <1>10

-----------------------------------------------------------------------------
LEMMA CareInit == Init => CareInv
<1> SUFFICES ASSUME Init PROVE CareInv
  OBVIOUS
<1>1. FullInv
  BY FullInit
<1>2. \A v \in Videos : /\ request[v] = NoRequest /\ did[v] = {} /\ half[v] = "none"
                        /\ ~dma_merge_mode[v] /\ use_count[v] = 0
  BY DEF Init, All
<1>3. \A v \in Videos : Opened(v) = {}
  BY <1>2 DEF Opened
<1>4. {n \in Videos : \E v \in Videos : n \in Opened(v)} = {} /\ sensor_use = 0
  BY <1>3 DEF Init
<1>5. CountsInv
  BY <1>2, <1>3, <1>4, CountNodes DEF CountsInv
<1>6. MergeInv /\ WholeInv /\ TargetInv
  BY <1>2 DEF MergeInv, WholeInv, TargetInv, Videos
<1> QED
  BY <1>1, <1>5, <1>6 DEF CareInv

LEMMA CareInductive == CarefulMode /\ Spec => []CareInv
<1> SUFFICES ASSUME CarefulMode PROVE Spec => []CareInv
  OBVIOUS
<1>1. CareInv /\ [Next]_vars => CareInv'
  <2> SUFFICES ASSUME CareInv, [Next]_vars PROVE CareInv'
    OBVIOUS
  <2>1. FullInv'
    BY FullStep, CarefulFormat DEF CareInv
  <2>2. CASE Next
    <3>1. MergeInv' /\ PairInv'
      BY <2>1, <2>2, MergeKeeps DEF FullInv
    <3> QED
      BY <2>1, <2>2, <3>1, CountsKeeps, WholeKeeps, TargetKeeps DEF CareInv
  <2>3. CASE UNCHANGED vars
    <3> USE DEF vars, appVars, modeVars, dmaVars, powerVars
    <3>1. \A v \in Videos : Nodes(v)' = Nodes(v) /\ Opened(v)' = Opened(v)
      BY <2>3 DEF Nodes, Opened
    <3>2. MergeInv'
      BY <2>3 DEF CareInv, MergeInv
    <3>3. CountsInv'
      BY <2>3, <3>1 DEF CareInv, CountsInv
    <3>4. WholeInv' /\ TargetInv'
      BY <2>3, <3>1 DEF CareInv, WholeInv, TargetInv, AsksForPair
    <3> QED
      BY <2>1, <3>2, <3>3, <3>4 DEF CareInv
  <2> QED
    BY <2>2, <2>3
<1> QED
  BY <1>1, CareInit, PTL DEF Spec

(* A stream that is not a pair is whole: nothing of it is halved and its frames   *)
(* are announced, whichever pair has been captured before on the same nodes and   *)
(* the same sensor, and also if the merge that it asks for is refused.           *)
THEOREM OtherFramesAlwaysWhole == CarefulMode /\ Spec => []OtherFramesAreWhole
<1>1. CareInv => OtherFramesAreWhole
  <2> SUFFICES ASSUME CareInv, NEW v \in Videos, "on" \in did[v], ~AsksForPair(v)
               PROVE  ~csi_large /\ ~large_image[v] /\ halved[v] = 0 /\ irq[v]
    BY DEF OtherFramesAreWhole, Streams
  <2>1. request[v] # NoRequest /\ {"parm", "fmt"} \subseteq did[v]
    BY DEF CareInv, FullInv, PairInv, SessionInv
  <2> QED
    BY <2>1 DEF CareInv, WholeInv
<1> QED
  BY <1>1, CareInductive, PTL

(* A DMA that runs, also that of the bind half, which has no queue of its own,     *)
(* writes into a queue that streams.                                          *)
THEOREM DmaAlwaysWritesQueue == CarefulMode /\ Spec => []DmaWritesQueue
<1>1. CareInv => DmaWritesQueue
  <2> SUFFICES ASSUME CareInv, NEW n \in Videos, stream_count[n] > 0
               PROVE  target[n] # NoBuffer /\ vb2_streaming[target[n]]
    BY DEF DmaWritesQueue
  <2> USE DEF CareInv, FullInv, PairInv
  <2>1. stream_count[n] = IF streaming[n] THEN 1 ELSE 0
    BY DEF StreamInv
  <2>2. streaming[n]
    BY <2>1
  <2>3. PICK v \in Videos : "on" \in did[v] /\ n \in Nodes(v)
    BY <2>2 DEF StreamInv
  <2>4. target[n] = v /\ vb2_streaming[v]
    BY <2>3 DEF TargetInv
  <2> QED
    BY <2>4, PairAssumption
<1> QED
  BY <1>1, CareInductive, PTL

(* When both files are closed nothing is powered, nothing streams, and no merge    *)
(* is left to the next application, also after an S_INPUT that has failed.        *)
THEOREM ClosedAlwaysUnused == CarefulMode /\ Spec => []ClosedIsUnused
<1>1. CareInv => ClosedIsUnused
  <2> SUFFICES ASSUME CareInv, request = All(NoRequest)
               PROVE  /\ sensor_use = 0 /\ sensor_stream = 0
                      /\ \A n \in Videos : /\ use_count[n] = 0 /\ stream_count[n] = 0
                                           /\ ~streaming[n] /\ ~dma_merge_mode[n]
    BY DEF ClosedIsUnused
  <2> USE DEF CareInv, FullInv, PairInv
  <2>1. \A v \in Videos : did[v] = {} /\ half[v] = "none"
    BY DEF SessionInv, All
  <2>2. \A v \in Videos : Opened(v) = {} /\ ~dma_merge_mode[v]
    BY <2>1 DEF Opened, MergeInv, Videos
  <2>3. {n \in Videos : \E v \in Videos : n \in Opened(v)} = {}
    BY <2>2
  <2>4. sensor_use = 0 /\ \A n \in Videos : use_count[n] = 0
    BY <2>2, <2>3, CountNodes DEF CountsInv
  <2>5. \A n \in Videos : ~streaming[n] /\ stream_count[n] = 0
    BY <2>1 DEF StreamInv
  <2>6. {n \in Videos : streaming[n]} = {}
    BY <2>5
  <2>7. sensor_stream = 0
    BY <2>6, CountNodes DEF StreamInv
  <2> QED
    BY <2>2, <2>4, <2>5, <2>7
<1> QED
  BY <1>1, CareInductive, PTL
=============================================================================
