---------------------------- MODULE VinCountsProofs ----------------------------
(***************************************************************************)
(* The use and stream counts of the subdevices are the numbers of their       *)
(* users, for any number of video nodes and whatever subdevices they share.   *)
(***************************************************************************)
EXTENDS VinPipelineProofs, FiniteSetTheorems

(* Every application selects its input, once per open, before it starts or     *)
(* closes, and set_stream(0) does not fail.                                  *)
CountMode == {"off", "no_input"} \cap Faults = {} /\ MaxInputs = 1

StreamCalls == {"on_csi", "on_lock"} \cup Walking

(* Where a call has come to.  Whoever starts, streams or stops has selected an  *)
(* input, has a sensor and a running vb2 queue; the owner of the mutex walks.   *)
CallInv ==
  \A v \in Videos :
    /\ pc[v] \in Walking <=> graph_mutex = v
    /\ pc[v] \in {"in_csi", "in_open"} => selected[v] = 0
    /\ pc[v] \in StreamCalls => ~streaming[v]
    /\ streaming[v] \/ pc[v] \in StreamCalls =>
         selected[v] > 0 /\ "SENSOR" \in pipe[v] /\ vb2_streaming[v]

(* A walk goes over the owner's pipeline; only a start is ever rolled back.     *)
WalkInv ==
  \A v \in Videos : pc[v] \in Walking =>
    /\ walk.done \subseteq pipe[v]
    /\ walk.on <=> pc[v] = "on_walk"
    /\ walk.undo => walk.on /\ "on" \in Faults

(* The kinds that a node has counted in stream_count, half-way through a walk   *)
(* too, and the nodes that have counted in a subdevice.                       *)
Started(v) ==
  IF pc[v] = "on_walk" THEN walk.done
  ELSE IF pc[v] \in {"off_walk", "close_walk"} THEN pipe[v] \ walk.done
  ELSE IF streaming[v] THEN pipe[v] ELSE {}

StreamUsers(s) == {v \in Videos : s.kind \in Started(v) /\ s = Sd(v, s.kind)}

PowerUsers(s) ==
  {v \in Videos : selected[v] > 0 /\ s.kind \in pipe[v] \ {"TDM_RX"} /\ s = Sd(v, s.kind)}

Selectors == {v \in Videos : selected[v] > 0}

(* After a start that failed the node counts as streaming but has counted       *)
(* nothing: then the counts are only bounded by the numbers of users.          *)
StreamInv ==
  \A s \in Subdevs :
    /\ stream_count[s] <= Cardinality(StreamUsers(s))
    /\ running[s] => stream_count[s] > 0
    /\ "on" \notin Faults =>
         stream_count[s] = Cardinality(StreamUsers(s)) /\ (running[s] <=> stream_count[s] > 0)

(* A call that fails half-way leaves use counts behind: never too few.          *)
PowerInv ==
  /\ \A s \in Subdevs :
       use_count[s] >= Cardinality(PowerUsers(s)) /\ (powered[s] <=> use_count[s] > 0)
  /\ md_use_count >= Cardinality(Selectors)

CountInv == TypeInv /\ CallInv /\ WalkInv /\ StreamInv /\ PowerInv

-----------------------------------------------------------------------------
(* Sets of nodes are finite: what a node more or less does to their number.     *)
LEMMA NodeSets ==
  /\ \A S \in SUBSET Videos : IsFiniteSet(S) /\ Cardinality(S) \in Nat
  /\ \A S, T \in SUBSET Videos : S \subseteq T => Cardinality(S) <= Cardinality(T)
  /\ \A S \in SUBSET Videos, v \in Videos :
       v \notin S => Cardinality(S \cup {v}) = Cardinality(S) + 1
  /\ \A S \in SUBSET Videos : \A v \in S : Cardinality(S \ {v}) = Cardinality(S) - 1
  /\ \A S \in SUBSET Videos : Cardinality(S) > 0 => \E v \in S : TRUE
  /\ \A S \in SUBSET Videos : \A v \in S : Cardinality(S) > 0
<1>1. \A S \in SUBSET Videos : IsFiniteSet(S) /\ Cardinality(S) \in Nat
  BY PipelineAssumption, FS_Subset, FS_CardinalityType
<1>2. \A S, T \in SUBSET Videos : S \subseteq T => Cardinality(S) <= Cardinality(T)
  BY <1>1, FS_Subset
<1>3. \A S \in SUBSET Videos, v \in Videos :
       v \notin S => Cardinality(S \cup {v}) = Cardinality(S) + 1
  BY <1>1, FS_AddElement
<1>4. \A S \in SUBSET Videos : \A v \in S : Cardinality(S \ {v}) = Cardinality(S) - 1
  BY <1>1, FS_RemoveElement
<1>5. \A S \in SUBSET Videos : Cardinality(S) > 0 => \E v \in S : TRUE
  <2> SUFFICES ASSUME NEW S \in SUBSET Videos, S = {} PROVE ~(Cardinality(S) > 0)
    OBVIOUS
  <2> QED
    BY FS_EmptySet
<1>6. \A S \in SUBSET Videos : \A v \in S : Cardinality(S) > 0
  <2> SUFFICES ASSUME NEW S \in SUBSET Videos, NEW v \in S PROVE Cardinality(S) > 0
    OBVIOUS
  <2>1. Cardinality(S) \in Nat /\ Cardinality(S \ {v}) \in Nat
    BY <1>1
  <2>2. Cardinality(S \ {v}) = Cardinality(S) - 1
    BY <1>4
  <2> QED
    BY <2>1, <2>2
<1> QED
  BY <1>1, <1>2, <1>3, <1>4, <1>5, <1>6

LEMMA UsersAreNodes ==
  ASSUME NEW s
  PROVE  /\ StreamUsers(s) \in SUBSET Videos /\ PowerUsers(s) \in SUBSET Videos
         /\ Selectors \in SUBSET Videos
         /\ StreamUsers(s)' \in SUBSET Videos /\ PowerUsers(s)' \in SUBSET Videos
         /\ Selectors' \in SUBSET Videos
  BY DEF StreamUsers, PowerUsers, Selectors

(* A subdevice belongs to one kind, and to one node unless it is shared.        *)
LEMMA SdIsOne ==
  ASSUME NEW s \in Subdevs
  PROVE  /\ s.kind \in Kinds
         /\ \A v \in Videos, k \in Kinds : s = Sd(v, k) => s.kind = k
         /\ \E v \in Videos : s = Sd(v, s.kind)
<1>1. PICK v \in Videos, k \in Kinds : s = Sd(v, k)
  BY DEF Subdevs
<1>2. \A u \in Videos, l \in Kinds : s = Sd(u, l) => s.kind = l
  BY DEF Sd
<1> QED
  BY <1>1, <1>2

(* A step after which no node has counted fewer kinds.                        *)
LEMMA StreamKept ==
  ASSUME TypeInv, StreamInv, UNCHANGED <<stream_count, running>>,
         \A v \in Videos : Started(v) \subseteq Started(v)',
         "on" \notin Faults => \A v \in Videos : Started(v)' = Started(v)
  PROVE  StreamInv'
<1> SUFFICES ASSUME NEW s \in Subdevs
             PROVE  /\ stream_count[s] <= Cardinality(StreamUsers(s)')
                    /\ running[s] => stream_count[s] > 0
                    /\ "on" \notin Faults =>
                         /\ stream_count[s] = Cardinality(StreamUsers(s)')
                         /\ (running[s] <=> stream_count[s] > 0)
  BY DEF StreamInv
<1>1. /\ stream_count[s] <= Cardinality(StreamUsers(s))
      /\ running[s] => stream_count[s] > 0
      /\ "on" \notin Faults => /\ stream_count[s] = Cardinality(StreamUsers(s))
                               /\ (running[s] <=> stream_count[s] > 0)
  BY DEF StreamInv
<1>2. StreamUsers(s) \subseteq StreamUsers(s)'
  BY DEF StreamUsers
<1>3. "on" \notin Faults => StreamUsers(s)' = StreamUsers(s)
  BY DEF StreamUsers
<1>4. /\ Cardinality(StreamUsers(s)) <= Cardinality(StreamUsers(s)')
      /\ Cardinality(StreamUsers(s)) \in Nat /\ Cardinality(StreamUsers(s)') \in Nat
  BY <1>2, NodeSets, UsersAreNodes
<1>5. stream_count[s] \in Nat
  BY DEF TypeInv, TypeOK
<1>6. stream_count[s] <= Cardinality(StreamUsers(s)')
  BY <1>1, <1>4, <1>5
<1> QED
  BY <1>1, <1>3, <1>6

(* A step after which no other node has selected an input.                    *)
LEMMA PowerKept ==
  ASSUME TypeInv, PowerInv, UNCHANGED <<use_count, powered, md_use_count>>,
         \A v \in Videos : selected'[v] > 0 => selected[v] > 0 /\ pipe'[v] = pipe[v]
  PROVE  PowerInv'
<1>1. md_use_count' >= Cardinality(Selectors')
  <2>1. Selectors' \subseteq Selectors
    BY DEF Selectors
  <2>2. /\ Cardinality(Selectors') <= Cardinality(Selectors)
        /\ Cardinality(Selectors) \in Nat /\ Cardinality(Selectors') \in Nat
    BY <2>1, NodeSets, UsersAreNodes
  <2>3. md_use_count' = md_use_count /\ md_use_count \in Nat
        /\ md_use_count >= Cardinality(Selectors)
    BY DEF TypeInv, TypeOK, PowerInv
  <2> QED
    BY <2>2, <2>3
<1>2. ASSUME NEW s \in Subdevs
      PROVE  use_count'[s] >= Cardinality(PowerUsers(s)') /\ (powered'[s] <=> use_count'[s] > 0)
  <2>1. PowerUsers(s)' \subseteq PowerUsers(s)
    BY DEF PowerUsers
  <2>2. /\ Cardinality(PowerUsers(s)') <= Cardinality(PowerUsers(s))
        /\ Cardinality(PowerUsers(s)) \in Nat /\ Cardinality(PowerUsers(s)') \in Nat
    BY <2>1, NodeSets, UsersAreNodes
  <2>3. /\ use_count'[s] = use_count[s] /\ use_count[s] \in Nat
        /\ use_count[s] >= Cardinality(PowerUsers(s))
    BY DEF TypeInv, TypeOK, PowerInv
  <2>4. (powered'[s] <=> use_count'[s] > 0)
    BY DEF PowerInv
  <2> QED
    BY <2>2, <2>3, <2>4
<1> QED
  BY <1>1, <1>2 DEF PowerInv

(* A step that keeps the distance between the use counts and their users.        *)
LEMMA CountsStay ==
  ASSUME TypeInv, TypeInv', PowerInv,
         md_use_count' - Cardinality(Selectors') = md_use_count - Cardinality(Selectors),
         \A s \in Subdevs :
           /\ use_count'[s] - Cardinality(PowerUsers(s)') =
                use_count[s] - Cardinality(PowerUsers(s))
           /\ powered'[s] <=> use_count'[s] > 0
  PROVE  PowerInv'
<1>1. md_use_count' >= Cardinality(Selectors')
  <2>1. /\ Cardinality(Selectors) \in Nat /\ Cardinality(Selectors') \in Nat
        /\ md_use_count \in Nat /\ md_use_count' \in Nat
    BY NodeSets, UsersAreNodes DEF TypeInv, TypeOK
  <2> QED
    BY <2>1 DEF PowerInv
<1>2. ASSUME NEW s \in Subdevs PROVE use_count'[s] >= Cardinality(PowerUsers(s)')
  <2>1. /\ Cardinality(PowerUsers(s)) \in Nat /\ Cardinality(PowerUsers(s)') \in Nat
        /\ use_count[s] \in Nat /\ use_count'[s] \in Nat
    BY NodeSets, UsersAreNodes DEF TypeInv, TypeOK
  <2> QED
    BY <2>1 DEF PowerInv
<1> QED
  BY <1>1, <1>2 DEF PowerInv

LEMMA CountInit == Init => CallInv /\ WalkInv /\ StreamInv /\ PowerInv
<1> SUFFICES ASSUME Init PROVE CallInv /\ WalkInv /\ StreamInv /\ PowerInv
  OBVIOUS
<1>1. CallInv
  BY NoVideoAssumption DEF Init, CallInv, StreamCalls, Walking
<1>2. WalkInv
  BY DEF Init, WalkInv, Walking
<1>3. ASSUME NEW s \in Subdevs PROVE StreamUsers(s) = {} /\ PowerUsers(s) = {}
  BY DEF Init, StreamUsers, PowerUsers, Started
<1>4. Selectors = {}
  BY DEF Init, Selectors
<1>5. ASSUME NEW s \in Subdevs
      PROVE  stream_count[s] = 0 /\ use_count[s] = 0 /\ ~running[s] /\ ~powered[s]
  BY DEF Init
<1>6. ASSUME NEW s \in Subdevs
      PROVE  Cardinality(StreamUsers(s)) = 0 /\ Cardinality(PowerUsers(s)) = 0
  BY <1>3, FS_EmptySet
<1>7. StreamInv
  BY <1>5, <1>6 DEF StreamInv
<1>8. PowerInv
  BY <1>4, <1>5, <1>6, FS_EmptySet DEF Init, PowerInv
<1> QED
  BY <1>1, <1>2, <1>7, <1>8

-----------------------------------------------------------------------------
(* Steps outside the walks.                                                 *)

(* Steps that leave alone all that is counted, and where a call has come to.    *)
LEMMA CountQuiet ==
  ASSUME CountInv,
         UNCHANGED <<pc, selected, streaming, vb2_streaming, pipe, use_count, powered,
                     md_use_count, streamVars, graph_mutex, walk>>
  PROVE  CallInv' /\ WalkInv' /\ StreamInv' /\ PowerInv'
<1> USE DEF CountInv
<1>1. CallInv'
  BY DEF CallInv
<1>2. WalkInv'
  BY DEF WalkInv
<1>3. StreamInv'
  <2>1. \A v \in Videos : Started(v)' = Started(v)
    BY DEF Started
  <2> QED
    BY <2>1, StreamKept DEF streamVars
<1>4. PowerInv'
  BY PowerKept
<1> QED
  BY <1>1, <1>2, <1>3, <1>4

(* A call goes to its next step, neither of which walks.                       *)
LEMMA CountMoves ==
  ASSUME CountInv, NEW v \in Videos, NEW step \in Steps \ Walking, Goto(v, step),
         pc[v] \notin Walking,
         UNCHANGED <<selected, streaming, pipe, powerVars, streamVars, graph_mutex, walk>>,
         \A u \in Videos \ {v} : vb2_streaming'[u] = vb2_streaming[u],
         step \in {"in_csi", "in_open"} => selected[v] = 0,
         step \in StreamCalls => ~streaming[v],
         streaming[v] \/ step \in StreamCalls =>
           selected[v] > 0 /\ "SENSOR" \in pipe[v] /\ vb2_streaming'[v]
  PROVE  CallInv' /\ WalkInv' /\ StreamInv' /\ PowerInv'
<1> USE DEF CountInv
<1>1. pc' = [pc EXCEPT ![v] = step] /\ pc \in [Videos -> Steps]
  BY DEF Goto, TypeInv, TypeOK
<1>2. \A u \in Videos : pc'[u] = IF u = v THEN step ELSE pc[u]
  BY <1>1
<1>3. CallInv'
  BY <1>2 DEF CallInv
<1>4. WalkInv'
  BY <1>2 DEF WalkInv
<1>5. StreamInv'
  <2>1. \A u \in Videos : Started(u)' = Started(u)
    BY <1>2 DEF Started, Walking
  <2> QED
    BY <2>1, StreamKept DEF streamVars
<1>6. PowerInv'
  BY PowerKept DEF powerVars
<1> QED
  BY <1>3, <1>4, <1>5, <1>6

LEMMA CountOpen ==
  ASSUME CountInv, NEW v \in Videos, OpenTest(v) \/ OpenLocked(v) \/ CloseClosed(v)
  PROVE  CallInv' /\ WalkInv' /\ StreamInv' /\ PowerInv'
<1>1. UNCHANGED <<pc, selected, streaming, vb2_streaming, pipe, use_count, powered,
                  md_use_count, streamVars, graph_mutex, walk>>
  BY DEF OpenTest, OpenLocked, CloseClosed, bitVars, powerVars
<1> QED
  BY <1>1, CountQuiet

LEMMA CountInput ==
  ASSUME CountMode, CountInv, NEW v \in Videos, SInput(v) \/ SInputLinksTdm(v)
  PROVE  CallInv' /\ WalkInv' /\ StreamInv' /\ PowerInv'
<1>1. UNCHANGED <<selected, streaming, vb2_streaming, pipe, powerVars, streamVars, graph_mutex,
                  walk>>
  BY DEF SInput, SInputLinksTdm, LinkFrame, nodeVars
<1>2. pc[v] \in {"idle", "in_csi"}
  BY DEF SInput, SInputLinksTdm
<1>3. streaming[v] => selected[v] > 0 /\ "SENSOR" \in pipe[v] /\ vb2_streaming'[v]
  BY <1>1 DEF CountInv, CallInv
<1>4. CASE UNCHANGED pc
  BY <1>1, <1>4, CountQuiet DEF powerVars
<1>5. CASE Goto(v, "in_csi") /\ selected[v] < MaxInputs
  <2>1. selected[v] = 0
    BY <1>5 DEF CountMode, CountInv, TypeInv, TypeOK
  <2> QED
    BY <1>1, <1>2, <1>3, <1>5, <2>1, CountMoves DEF Steps, Walking, StreamCalls
<1>6. CASE Goto(v, "in_open") /\ pc[v] = "in_csi"
  <2>1. selected[v] = 0
    BY <1>6 DEF CountInv, CallInv
  <2> QED
    BY <1>1, <1>2, <1>3, <1>6, <2>1, CountMoves DEF Steps, Walking, StreamCalls
<1>7. CASE Goto(v, "idle")
  BY <1>1, <1>2, <1>3, <1>7, CountMoves DEF Steps, Walking, StreamCalls
<1> QED
  BY <1>4, <1>5, <1>6, <1>7 DEF SInput, SInputLinksTdm

LEMMA CountStreamon ==
  ASSUME CountMode, CountInv, NEW v \in Videos, Streamon(v) \/ StreamonLinksTdm(v)
  PROVE  CallInv' /\ WalkInv' /\ StreamInv' /\ PowerInv'
<1>1. /\ UNCHANGED <<selected, streaming, pipe, powerVars, streamVars, graph_mutex, walk>>
      /\ \A u \in Videos \ {v} : vb2_streaming'[u] = vb2_streaming[u]
  BY DEF Streamon, StreamonLinksTdm, LinkFrame, nodeVars, CountInv, TypeInv, TypeOK
<1>2. pc[v] \in {"idle", "on_csi"} /\ ~streaming[v]
  BY DEF Streamon, StreamonLinksTdm, CountInv, CallInv, StreamCalls
<1>3. selected[v] > 0 /\ "SENSOR" \in pipe[v] /\ vb2_streaming'[v]
  <2>1. CASE Streamon(v)
    BY <2>1 DEF Streamon, CountMode, CountInv, TypeInv, TypeOK
  <2>2. CASE StreamonLinksTdm(v)
    BY <2>2 DEF StreamonLinksTdm, CountInv, CallInv, StreamCalls
  <2> QED
    BY <2>1, <2>2
<1>4. \/ UNCHANGED pc
      \/ \E step \in {"on_csi", "on_lock", "idle"} : Goto(v, step)
  BY DEF Streamon, StreamonLinksTdm
<1>5. CASE UNCHANGED pc
  <2>1. pc'[v] = pc[v] /\ pc[v] = "idle" /\ Goto(v, "idle")
    BY <1>5 DEF Streamon, StreamonLinksTdm, CountInv, TypeInv, TypeOK, Goto
  <2> QED
    BY <1>1, <1>2, <1>3, <2>1, CountMoves DEF Steps, Walking, StreamCalls
<1>6. ASSUME NEW step \in {"on_csi", "on_lock", "idle"}, Goto(v, step)
      PROVE  CallInv' /\ WalkInv' /\ StreamInv' /\ PowerInv'
  BY <1>1, <1>2, <1>3, <1>6, CountMoves DEF Steps, Walking, StreamCalls
<1> QED
  BY <1>4, <1>5, <1>6

(* The second half of VIDIOC_S_INPUT: the node, which was no user before, is      *)
(* one more user of each subdevice that it powers up.                         *)
LEMMA OpenCounts ==
  ASSUME CountMode, CountInv, NEW v \in Videos, PipelineOpen(v)
  PROVE  /\ md_use_count' - Cardinality(Selectors') = md_use_count - Cardinality(Selectors)
         /\ \A s \in Subdevs :
              /\ use_count'[s] - Cardinality(PowerUsers(s)') =
                   use_count[s] - Cardinality(PowerUsers(s))
              /\ powered'[s] <=> use_count'[s] > 0
<1> USE DEF CountInv
<1>1. /\ pc[v] = "in_open" /\ selected' = [selected EXCEPT ![v] = @ + 1]
      /\ pipe' = [pipe EXCEPT ![v] = Prepare(v)]
  BY DEF PipelineOpen
<1>2. selected[v] = 0
  BY <1>1 DEF CallInv
<1>3. /\ \A u \in Videos : selected'[u] = IF u = v THEN 1 ELSE selected[u]
      /\ \A u \in Videos \ {v} : pipe'[u] = pipe[u]
  BY <1>1, <1>2 DEF TypeInv, TypeOK
<1>4. md_use_count' - Cardinality(Selectors') = md_use_count - Cardinality(Selectors)
  <2>1. Selectors' = Selectors \cup {v} /\ v \notin Selectors
    BY <1>2, <1>3 DEF Selectors
  <2>2. Cardinality(Selectors') = Cardinality(Selectors) + 1 /\ Cardinality(Selectors) \in Nat
    BY <2>1, NodeSets, UsersAreNodes
  <2>3. md_use_count' = md_use_count + 1 /\ md_use_count \in Nat
    BY DEF PipelineOpen, PowerUp, TypeInv, TypeOK
  <2> QED
    BY <2>2, <2>3
<1>5. ASSUME NEW s \in Subdevs
      PROVE  /\ use_count'[s] - Cardinality(PowerUsers(s)') =
                  use_count[s] - Cardinality(PowerUsers(s))
             /\ powered'[s] <=> use_count'[s] > 0
  <2>1. /\ use_count'[s] = IF s \in ToPower(v) THEN use_count[s] + 1 ELSE use_count[s]
        /\ powered'[s] <=> powered[s] \/ (s \in ToPower(v) /\ use_count[s] = 0)
        /\ use_count[s] \in Nat
    BY DEF PipelineOpen, PowerUp, TypeInv, TypeOK
  <2>2. powered'[s] <=> use_count'[s] > 0
    BY <2>1 DEF PowerInv
  <2>3. v \notin PowerUsers(s)
    BY <1>2 DEF PowerUsers
  <2>4. PowerUsers(s)' = IF s \in ToPower(v) THEN PowerUsers(s) \cup {v} ELSE PowerUsers(s)
    <3>1. s \in ToPower(v) <=> s.kind \in pipe'[v] \ {"TDM_RX"} /\ s = Sd(v, s.kind)
      BY SdIsOne DEF ToPower, Sd
    <3> QED
      BY <1>2, <1>3, <3>1 DEF PowerUsers
  <2>5. /\ Cardinality(PowerUsers(s)) \in Nat
        /\ s \in ToPower(v) => Cardinality(PowerUsers(s)') = Cardinality(PowerUsers(s)) + 1
        /\ s \notin ToPower(v) => Cardinality(PowerUsers(s)') = Cardinality(PowerUsers(s))
    BY <2>3, <2>4, NodeSets, UsersAreNodes
  <2>6. use_count'[s] - Cardinality(PowerUsers(s)') = use_count[s] - Cardinality(PowerUsers(s))
    BY <2>1, <2>5
  <2> QED
    BY <2>2, <2>6
<1> QED
  BY <1>4, <1>5

LEMMA CountPipelineOpen ==
  ASSUME CountMode, CountInv, NEW v \in Videos, PipelineOpen(v)
  PROVE  CallInv' /\ WalkInv' /\ StreamInv' /\ PowerInv'
<1> USE DEF CountInv
<1>1. /\ pc[v] = "in_open" /\ pc' = [pc EXCEPT ![v] = "idle"]
      /\ selected' = [selected EXCEPT ![v] = @ + 1]
      /\ pipe' = [pipe EXCEPT ![v] = Prepare(v)]
      /\ UNCHANGED <<streaming, vb2_streaming, streamVars, graph_mutex, walk>>
  BY DEF PipelineOpen, Goto
<1>2. selected[v] = 0 /\ ~streaming[v] /\ graph_mutex = NoVideo
  BY <1>1 DEF CallInv, PipelineOpen
<1>3. /\ \A u \in Videos : pc'[u] = IF u = v THEN "idle" ELSE pc[u]
      /\ \A u \in Videos : selected'[u] = IF u = v THEN 1 ELSE selected[u]
      /\ \A u \in Videos \ {v} : pipe'[u] = pipe[u]
  BY <1>1, <1>2 DEF TypeInv, TypeOK
<1>4. CallInv'
  BY <1>1, <1>2, <1>3 DEF CallInv, StreamCalls, Walking
<1>5. WalkInv'
  BY <1>1, <1>3 DEF WalkInv, Walking
<1>6. StreamInv'
  <2>1. \A u \in Videos : Started(u)' = Started(u)
    BY <1>1, <1>2, <1>3 DEF Started
  <2> QED
    BY <1>1, <2>1, StreamKept DEF streamVars
<1>7. PowerInv'
  BY OpenCounts, CountsStay, TypePipelineOpen
<1> QED
  BY <1>4, <1>5, <1>6, <1>7

(* Or it fails: the clocks count a user more than there are.                   *)
LEMMA CountOpenFails ==
  ASSUME CountMode, CountInv, NEW v \in Videos, PipelineOpenFails(v)
  PROVE  CallInv' /\ WalkInv' /\ StreamInv' /\ PowerInv'
<1> USE DEF CountInv
<1>1. /\ pc[v] = "in_open" /\ pc' = [pc EXCEPT ![v] = "idle"]
      /\ pipe' = [pipe EXCEPT ![v] = Prepare(v)] /\ graph_mutex' = Kept
      /\ UNCHANGED <<selected, streaming, vb2_streaming, use_count, powered, streamVars, walk>>
  BY DEF PipelineOpenFails, Goto, nodeVars, bitVars
<1>2. selected[v] = 0 /\ ~streaming[v] /\ graph_mutex = NoVideo
  BY <1>1 DEF CallInv, PipelineOpenFails
<1>3. /\ \A u \in Videos : pc'[u] = IF u = v THEN "idle" ELSE pc[u]
      /\ \A u \in Videos \ {v} : pipe'[u] = pipe[u]
  BY <1>1 DEF TypeInv, TypeOK
<1>4. CallInv'
  BY <1>1, <1>2, <1>3, NoVideoAssumption DEF CallInv, StreamCalls, Walking
<1>5. WalkInv'
  BY <1>1, <1>3 DEF WalkInv, Walking
<1>6. StreamInv'
  <2>1. \A u \in Videos : Started(u)' = Started(u)
    BY <1>1, <1>2, <1>3 DEF Started
  <2> QED
    BY <1>1, <2>1, StreamKept DEF streamVars
<1>7. PowerInv'
  <2>1. /\ Selectors' = Selectors /\ Cardinality(Selectors) \in Nat
        /\ md_use_count \in Nat /\ md_use_count' = md_use_count + 1
    BY <1>1, NodeSets, UsersAreNodes DEF Selectors, PipelineOpenFails, TypeInv, TypeOK
  <2>2. \A s \in Subdevs : PowerUsers(s)' = PowerUsers(s)
    BY <1>1, <1>2, <1>3 DEF PowerUsers
  <2> QED
    BY <1>1, <2>1, <2>2 DEF PowerInv
<1> QED
  BY <1>4, <1>5, <1>6, <1>7

-----------------------------------------------------------------------------
(* The walks.                                                               *)

LEMMA CountWalkStarts ==
  ASSUME CountInv, NEW v \in Videos, StreamonLocked(v) \/ Streamoff(v) \/ CloseStreaming(v)
  PROVE  CallInv' /\ WalkInv' /\ StreamInv' /\ PowerInv'
<1> USE DEF CountInv
<1>1. /\ UNCHANGED <<selected, vb2_streaming, pipe, powerVars, streamVars>>
      /\ graph_mutex = NoVideo /\ graph_mutex' = v
  BY DEF StreamonLocked, Streamoff, CloseStreaming, Lock, nodeVars, bitVars
<1>2. PICK step \in Walking :
        /\ pc' = [pc EXCEPT ![v] = step]
        /\ walk' = StreamWalk(v, step = "on_walk")
        /\ step = "on_walk" => pc[v] = "on_lock"
        /\ step # "on_walk" => streaming[v] /\ pc[v] = "idle"
  BY DEF StreamonLocked, Streamoff, CloseStreaming, CloseOf, Goto, Walking
<1>3. /\ selected[v] > 0 /\ "SENSOR" \in pipe[v] /\ vb2_streaming[v]
      /\ pc[v] = "on_lock" => ~streaming[v]
  BY <1>2 DEF CallInv, StreamCalls
<1>4. /\ \A u \in Videos : pc'[u] = IF u = v THEN step ELSE pc[u]
      /\ \A u \in Videos \ {v} : streaming'[u] = streaming[u]
      /\ ~streaming'[v]
  BY <1>2, <1>3 DEF StreamonLocked, Streamoff, CloseStreaming, bitVars, TypeInv, TypeOK
<1>5. walk'.done = {} /\ walk'.undo = FALSE /\ (walk'.on <=> step = "on_walk")
  BY <1>2, <1>3 DEF StreamWalk
<1>6. \A u \in Videos : pc[u] \notin Walking
  BY <1>1, NoVideoAssumption DEF CallInv
<1>7. CallInv'
  BY <1>1, <1>3, <1>4, <1>6 DEF CallInv, StreamCalls, Walking
<1>8. WalkInv'
  BY <1>4, <1>5, <1>6 DEF WalkInv
<1>9. StreamInv'
  <2>1. Started(v)' = Started(v)
    BY <1>1, <1>2, <1>3, <1>4, <1>5 DEF Started, Walking
  <2>2. \A u \in Videos \ {v} : Started(u)' = Started(u)
    BY <1>1, <1>4, <1>6 DEF Started, Walking
  <2>3. \A u \in Videos : Started(u)' = Started(u)
    BY <2>1, <2>2
  <2> QED
    BY <1>1, <2>3, StreamKept DEF streamVars
<1>10. PowerInv'
  BY <1>1, PowerKept DEF powerVars
<1> QED
  BY <1>7, <1>8, <1>9, <1>10

(* A step of a walk that turns a subdevice on makes its node a user of it; one   *)
(* that turns it off, in a rollback or at the end, a former user.              *)
LEMMA StepCounts ==
  ASSUME CountInv, NEW v \in Videos, NEW k \in Kinds, At(v, k),
         UNCHANGED <<pc, streaming, pipe>>,
         walk'.done = IF walk.undo THEN walk.done \ {k} ELSE walk.done \cup {k},
         NEW s \in Subdevs
  PROVE  /\ s = Sd(v, k) /\ TurnsOn =>
              v \notin StreamUsers(s) /\ StreamUsers(s)' = StreamUsers(s) \cup {v}
         /\ s = Sd(v, k) /\ ~TurnsOn =>
              v \in StreamUsers(s) /\ StreamUsers(s)' = StreamUsers(s) \ {v}
         /\ s # Sd(v, k) => StreamUsers(s)' = StreamUsers(s)
<1> USE DEF CountInv
<1>1. /\ pc[v] \in Walking /\ \A u \in Videos \ {v} : pc[u] \notin Walking
      /\ k \in IF walk.undo THEN walk.done ELSE pipe[v] \ walk.done
  BY DEF At, CallInv
<1>2. /\ walk.done \subseteq pipe[v]
      /\ TurnsOn <=> pc[v] = "on_walk" /\ ~walk.undo
      /\ walk.undo => pc[v] = "on_walk"
  <2>1. walk.on \in BOOLEAN /\ walk.undo \in BOOLEAN
    BY DEF TypeInv, TypeOK
  <2> QED
    BY <1>1, <2>1 DEF WalkInv, TurnsOn
<1>3. \A u \in Videos \ {v} : Started(u)' = Started(u)
  BY <1>1 DEF Started, Walking
<1>4. /\ TurnsOn => k \notin Started(v) /\ Started(v)' = Started(v) \cup {k}
      /\ ~TurnsOn => k \in Started(v) /\ Started(v)' = Started(v) \ {k}
  <2>1. CASE pc[v] = "on_walk" /\ ~walk.undo
    BY <1>1, <1>2, <2>1 DEF Started
  <2>2. CASE pc[v] = "on_walk" /\ walk.undo
    BY <1>1, <1>2, <2>2 DEF Started
  <2>3. CASE pc[v] # "on_walk"
    <3>1. ~walk.undo /\ ~TurnsOn /\ pc[v] \in {"off_walk", "close_walk"}
      BY <1>1, <1>2, <2>3 DEF Walking
    <3>2. /\ Started(v) = pipe[v] \ walk.done /\ Started(v)' = pipe[v] \ walk'.done
          /\ walk'.done = walk.done \cup {k} /\ k \in pipe[v] \ walk.done
      BY <1>1, <3>1 DEF Started
    <3> QED
      BY <3>1, <3>2
  <2> QED
    BY <2>1, <2>2, <2>3
<1>5. CASE s = Sd(v, k)
  <2>1. s.kind = k
    BY <1>5, SdIsOne
  <2>2. \A u \in Videos \ {v} : u \in StreamUsers(s)' <=> u \in StreamUsers(s)
    BY <1>3 DEF StreamUsers
  <2>3. /\ v \in StreamUsers(s) <=> k \in Started(v)
        /\ v \in StreamUsers(s)' <=> k \in Started(v)'
    BY <1>5, <2>1 DEF StreamUsers
  <2>4. StreamUsers(s) \subseteq Videos /\ StreamUsers(s)' \subseteq Videos
    BY UsersAreNodes
  <2> QED
    BY <1>4, <1>5, <2>2, <2>3, <2>4
<1>6. CASE s # Sd(v, k)
  <2>1. s = Sd(v, s.kind) => s.kind # k
    BY <1>6
  <2>2. \A u \in Videos : u \in StreamUsers(s)' <=> u \in StreamUsers(s)
    BY <1>3, <1>4, <2>1 DEF StreamUsers
  <2>3. StreamUsers(s) \subseteq Videos /\ StreamUsers(s)' \subseteq Videos
    BY UsersAreNodes
  <2> QED
    BY <1>6, <2>2, <2>3
<1> QED
  BY <1>5, <1>6

(* The counts follow, as do the subdevices unless the sensor refuses to start.  *)
LEMMA CountsFollow ==
  ASSUME CountInv, NEW v \in Videos, NEW k \in Kinds, At(v, k), CountStream(Sd(v, k)),
         UNCHANGED <<pc, streaming, pipe>>,
         walk'.done = IF walk.undo THEN walk.done \ {k} ELSE walk.done \cup {k},
         \A s \in Subdevs \ {Sd(v, k)} : running'[s] = running[s],
         \/ running'[Sd(v, k)] =
              IF TurnsOn THEN running[Sd(v, k)] \/ stream_count[Sd(v, k)] = 0
              ELSE running[Sd(v, k)] /\ stream_count[Sd(v, k)] # 1
         \/ TurnsOn /\ "on" \in Faults /\ running'[Sd(v, k)] = running[Sd(v, k)]
  PROVE  StreamInv'
<1> USE DEF CountInv
<1> SUFFICES ASSUME NEW s \in Subdevs
             PROVE  /\ stream_count'[s] <= Cardinality(StreamUsers(s)')
                    /\ running'[s] => stream_count'[s] > 0
                    /\ "on" \notin Faults =>
                         /\ stream_count'[s] = Cardinality(StreamUsers(s)')
                         /\ (running'[s] <=> stream_count'[s] > 0)
  BY DEF StreamInv
<1> DEFINE n == Cardinality(StreamUsers(s))
           c == stream_count[s]
<1>1. /\ c <= n
      /\ running[s] => c > 0
      /\ "on" \notin Faults => c = n /\ (running[s] <=> c > 0)
  BY DEF StreamInv
<1>2. c \in Nat /\ n \in Nat
  BY NodeSets, UsersAreNodes DEF TypeInv, TypeOK
<1>3. CASE s # Sd(v, k)
  <2>1. StreamUsers(s)' = StreamUsers(s)
    BY <1>3, StepCounts
  <2>2. stream_count'[s] = c /\ running'[s] = running[s]
    BY <1>3 DEF CountStream, TypeInv, TypeOK
  <2> QED
    BY <1>1, <2>1, <2>2
<1>4. CASE s = Sd(v, k) /\ TurnsOn
  <2>1. Cardinality(StreamUsers(s)') = n + 1
    <3>1. v \notin StreamUsers(s) /\ StreamUsers(s)' = StreamUsers(s) \cup {v}
      BY <1>4, StepCounts
    <3>2. StreamUsers(s) \in SUBSET Videos
      BY UsersAreNodes
    <3> QED
      BY <3>1, <3>2, NodeSets
  <2>2. stream_count'[s] = c + 1
    BY <1>4 DEF CountStream, TypeInv, TypeOK
  <2>3. "on" \notin Faults => (running'[s] <=> running[s] \/ c = 0)
    BY <1>4
  <2> QED
    BY <1>1, <1>2, <2>1, <2>2, <2>3
<1>5. CASE s = Sd(v, k) /\ ~TurnsOn
  <2>1. Cardinality(StreamUsers(s)') = n - 1 /\ n > 0
    <3>1. v \in StreamUsers(s) /\ StreamUsers(s)' = StreamUsers(s) \ {v}
      BY <1>5, StepCounts
    <3>2. StreamUsers(s) \in SUBSET Videos
      BY UsersAreNodes
    <3> QED
      BY <3>1, <3>2, NodeSets
  <2>2. stream_count'[s] = IF c = 0 THEN 0 ELSE c - 1
    BY <1>5 DEF CountStream, TypeInv, TypeOK
  <2>3. running'[s] <=> running[s] /\ c # 1
    BY <1>5
  <2> QED
    BY <1>1, <1>2, <2>1, <2>2, <2>3
<1> QED
  BY <1>3, <1>4, <1>5

LEMMA CountSetStream ==
  ASSUME CountMode, CountInv, NEW v \in Videos,
         \E k \in Kinds : SetStream(v, k) \/ SetStreamFails(v, k)
  PROVE  CallInv' /\ WalkInv' /\ StreamInv' /\ PowerInv'
<1> USE DEF CountInv
<1>1. /\ UNCHANGED <<pc, selected, streaming, vb2_streaming, pipe, powerVars, graph_mutex>>
      /\ graph_mutex = v
  BY DEF SetStream, SetStreamFails, StepFrame, At, nodeVars, bitVars
<1>2. CallInv'
  BY <1>1 DEF CallInv
<1>3. PowerInv'
  BY <1>1, PowerKept DEF powerVars
<1>4. /\ pc[v] \in Walking /\ \A u \in Videos \ {v} : pc[u] \notin Walking
      /\ walk.done \subseteq pipe[v]
      /\ walk \in [on : BOOLEAN, done : SUBSET Kinds, undo : BOOLEAN]
  BY <1>1 DEF CallInv, WalkInv, TypeInv, TypeOK
<1>5. ASSUME NEW k \in Kinds, SetStream(v, k) PROVE WalkInv' /\ StreamInv'
  <2>1. k \in IF walk.undo THEN walk.done ELSE pipe[v] \ walk.done
    BY <1>5 DEF SetStream, At
  <2>2. /\ walk'.on = walk.on /\ walk'.undo = walk.undo
        /\ walk'.done = IF walk.undo THEN walk.done \ {k} ELSE walk.done \cup {k}
    BY <1>4, <1>5 DEF SetStream, Advance
  <2>3. walk'.done \subseteq pipe[v]
    BY <1>4, <2>1, <2>2
  <2>4. WalkInv'
    BY <1>1, <1>4, <2>2, <2>3 DEF WalkInv
  <2>5. /\ \A s \in Subdevs \ {Sd(v, k)} : running'[s] = running[s]
        /\ running'[Sd(v, k)] =
             IF TurnsOn THEN running[Sd(v, k)] \/ stream_count[Sd(v, k)] = 0
             ELSE running[Sd(v, k)] /\ stream_count[Sd(v, k)] # 1
    BY <1>5, SdInSubdevs DEF SetStream, TypeInv, TypeOK
  <2>6. At(v, k) /\ CountStream(Sd(v, k))
    BY <1>5 DEF SetStream
  <2>7. StreamInv'
    BY <1>1, <2>2, <2>5, <2>6, CountsFollow
  <2> QED
    BY <2>4, <2>7
<1>6. ASSUME NEW k \in Kinds, SetStreamFails(v, k) PROVE WalkInv' /\ StreamInv'
  <2>1. /\ At(v, k) /\ CountStream(Sd(v, k))
        /\ TurnsOn /\ "on" \in Faults /\ UNCHANGED running
    BY <1>6 DEF SetStreamFails, CountMode
  <2>2. walk.on /\ ~walk.undo /\ k \in pipe[v]
    BY <1>1, <1>4, <2>1 DEF WalkInv, TurnsOn, At
  <2>3. walk' = [walk EXCEPT !.undo = TRUE, !.done = @ \cup {k}]
    BY <1>6, <2>2 DEF SetStreamFails
  <2>4. walk'.on = walk.on /\ walk'.undo = TRUE /\ walk'.done = walk.done \cup {k}
    BY <1>4, <2>3
  <2>5. WalkInv'
    BY <1>1, <1>4, <2>1, <2>2, <2>4 DEF WalkInv
  <2>6. StreamInv'
    BY <1>1, <2>1, <2>2, <2>4, CountsFollow
  <2> QED
    BY <2>5, <2>6
<1> QED
  BY <1>2, <1>3, <1>5, <1>6

(* At the end of a walk the node has counted all of its pipeline or nothing; a   *)
(* rolled back start leaves VIN_STREAM set.                                   *)
LEMMA WalkOver ==
  ASSUME CountInv, NEW v \in Videos, pc[v] \in Walking, WalkEnds(v)
  PROVE  /\ pc[v] = "on_walk" /\ ~walk.undo => Started(v) = pipe[v]
         /\ pc[v] = "on_walk" /\ walk.undo => Started(v) = {} /\ "on" \in Faults
         /\ pc[v] # "on_walk" => Started(v) = {}
<1>1. /\ walk.done \subseteq pipe[v]
      /\ walk.undo => pc[v] = "on_walk" /\ "on" \in Faults
  BY DEF CountInv, WalkInv
<1>2. IF walk.undo THEN walk.done = {} ELSE pipe[v] \subseteq walk.done
  BY DEF WalkEnds
<1> QED
  BY <1>1, <1>2 DEF Started, Walking

LEMMA CountStreamDone ==
  ASSUME CountInv, NEW v \in Videos, StreamonDone(v) \/ StreamoffDone(v)
  PROVE  CallInv' /\ WalkInv' /\ StreamInv' /\ PowerInv'
<1> USE DEF CountInv
<1>1. /\ UNCHANGED <<selected, pipe, powerVars, streamVars>>
      /\ graph_mutex' = NoVideo /\ WalkEnds(v)
      /\ pc' = [pc EXCEPT ![v] = "idle"]
      /\ pc[v] \in {"on_walk", "off_walk"}
  BY DEF StreamonDone, StreamoffDone, nodeVars, Unlock, Goto
<1>2. /\ \A u \in Videos : pc'[u] = IF u = v THEN "idle" ELSE pc[u]
      /\ \A u \in Videos \ {v} :
           streaming'[u] = streaming[u] /\ vb2_streaming'[u] = vb2_streaming[u]
      /\ pc[v] = "on_walk" => streaming'[v] /\ UNCHANGED vb2_streaming
      /\ pc[v] = "off_walk" => UNCHANGED streaming
  BY <1>1 DEF StreamonDone, StreamoffDone, TypeInv, TypeOK
<1>3. /\ \A u \in Videos \ {v} : pc[u] \notin Walking
      /\ ~streaming[v] /\ selected[v] > 0 /\ "SENSOR" \in pipe[v] /\ vb2_streaming[v]
  BY <1>1 DEF CallInv, StreamCalls, Walking
<1>4. CallInv'
  BY <1>1, <1>2, <1>3, NoVideoAssumption DEF CallInv, StreamCalls, Walking
<1>5. WalkInv'
  BY <1>2, <1>3 DEF WalkInv, Walking
<1>6. StreamInv'
  <2>1. \A u \in Videos \ {v} : Started(u)' = Started(u)
    BY <1>1, <1>2, <1>3 DEF Started, Walking
  <2>2. Started(v) \subseteq Started(v)' /\ ("on" \notin Faults => Started(v)' = Started(v))
    <3>1. Started(v)' = IF streaming'[v] THEN pipe[v] ELSE {}
      BY <1>1, <1>2 DEF Started
    <3> QED
      BY <1>1, <1>2, <1>3, <3>1, WalkOver DEF Walking
  <2> QED
    BY <1>1, <2>1, <2>2, StreamKept DEF streamVars
<1>7. PowerInv'
  BY <1>1, PowerKept DEF powerVars
<1> QED
  BY <1>4, <1>5, <1>6, <1>7

-----------------------------------------------------------------------------
(* close.                                                                   *)

(* What a node loses with its last file: it streams no more and selects nothing. *)
LEMMA CountReleased ==
  ASSUME CountInv, NEW v \in Videos, Released(v), UNCHANGED <<streaming, pipe, streamVars>>,
         graph_mutex' = NoVideo, graph_mutex \in {v, NoVideo}, ~streaming[v],
         Started(v) = {}
  PROVE  /\ CallInv' /\ WalkInv' /\ StreamInv'
         /\ \A u \in Videos : selected'[u] = IF u = v THEN 0 ELSE selected[u]
<1> USE DEF CountInv
<1>1. /\ \A u \in Videos : pc'[u] = IF u = v THEN "idle" ELSE pc[u]
      /\ \A u \in Videos : selected'[u] = IF u = v THEN 0 ELSE selected[u]
      /\ \A u \in Videos \ {v} : vb2_streaming'[u] = vb2_streaming[u]
  BY DEF Released, Goto, TypeInv, TypeOK
<1>2. \A u \in Videos \ {v} : pc[u] \notin Walking
  BY NoVideoAssumption DEF CallInv
<1>3. CallInv'
  BY <1>1, <1>2, NoVideoAssumption DEF CallInv, StreamCalls, Walking
<1>4. WalkInv'
  BY <1>1, <1>2 DEF WalkInv, Walking
<1>5. StreamInv'
  <2>1. \A u \in Videos \ {v} : Started(u)' = Started(u)
    BY <1>1, <1>2 DEF Started, Walking
  <2>2. Started(v)' = {}
    BY <1>1 DEF Started
  <2>3. \A u \in Videos : Started(u)' = Started(u)
    BY <2>1, <2>2
  <2> QED
    BY <2>3, StreamKept DEF streamVars
<1> QED
  BY <1>1, <1>3, <1>4, <1>5

(* A node that close finds unused does not stream, in spite of the other users.  *)
LEMMA CountCloseUnused ==
  ASSUME CountMode, CountInv, NEW v \in Videos, CloseUnused(v)
  PROVE  CallInv' /\ WalkInv' /\ StreamInv' /\ PowerInv'
<1> USE DEF CountInv
<1>1. /\ pc[v] = "idle" /\ graph_mutex = NoVideo /\ Released(v) /\ ~Uses(v)
      /\ UNCHANGED <<streaming, pipe, powerVars, streamVars, graph_mutex>>
  BY DEF CloseUnused, CloseOf
<1>2. ~streaming[v]
  <2> SUFFICES ASSUME streaming[v] PROVE Uses(v)
    BY <1>1
  <2> DEFINE s == Sd(v, "SENSOR")
  <2>1. s \in Subdevs /\ s.kind = "SENSOR"
    BY SdInSubdevs DEF Sd, Kinds
  <2>2. v \in PowerUsers(s) /\ "SENSOR" \in pipe[v]
    BY <2>1 DEF CallInv, PowerUsers
  <2>3. use_count[s] \in Nat /\ use_count[s] >= Cardinality(PowerUsers(s))
    BY <2>1 DEF PowerInv, TypeInv, TypeOK
  <2>4. Cardinality(PowerUsers(s)) > 0 /\ Cardinality(PowerUsers(s)) \in Nat
    BY <2>2, NodeSets, UsersAreNodes
  <2>5. use_count[s] > 0
    BY <2>3, <2>4
  <2> QED
    BY <2>2, <2>5 DEF Uses
<1>3. Started(v) = {}
  BY <1>1, <1>2 DEF Started
<1>4. /\ CallInv' /\ WalkInv' /\ StreamInv'
      /\ \A u \in Videos : selected'[u] = IF u = v THEN 0 ELSE selected[u]
  BY <1>1, <1>2, <1>3, CountReleased
<1>5. PowerInv'
  BY <1>1, <1>4, PowerKept DEF powerVars
<1> QED
  BY <1>4, <1>5

(* The node that closes its pipeline was a user of what it powers down, and has   *)
(* stopped all that it had started.                                          *)
LEMMA CloserSelected ==
  ASSUME CountMode, CountInv, NEW v \in Videos, CloseStopped(v) \/ CloseWalked(v)
  PROVE  /\ PipelineClose(v) /\ files[v] > 0 /\ selected[v] > 0 /\ ~streaming[v]
         /\ graph_mutex \in {v, NoVideo} /\ Started(v) = {}
<1> USE DEF CountInv
<1>1. CASE CloseStopped(v)
  <2>1. /\ PipelineClose(v) /\ files[v] > 0 /\ selected[v] > 0 /\ ~streaming[v]
        /\ graph_mutex = NoVideo /\ pc[v] = "idle"
    BY <1>1 DEF CloseStopped, CloseOf, CountMode
  <2> QED
    BY <2>1 DEF Started
<1>2. CASE CloseWalked(v)
  <2>1. pc[v] = "close_walk" /\ WalkEnds(v) /\ PipelineClose(v)
    BY <1>2 DEF CloseWalked
  <2> QED
    BY <2>1, WalkOver DEF CallInv, StreamCalls, Walking, TypeInv, FilesInv
<1> QED
  BY <1>1, <1>2

LEMMA CloseCounts ==
  ASSUME CountInv, NEW v \in Videos, PowerDown(v), UNCHANGED pipe, selected[v] > 0,
         \A u \in Videos : selected'[u] = IF u = v THEN 0 ELSE selected[u]
  PROVE  /\ md_use_count' - Cardinality(Selectors') = md_use_count - Cardinality(Selectors)
         /\ \A s \in Subdevs :
              /\ use_count'[s] - Cardinality(PowerUsers(s)') =
                   use_count[s] - Cardinality(PowerUsers(s))
              /\ powered'[s] <=> use_count'[s] > 0
<1> USE DEF CountInv
<1>1. md_use_count' - Cardinality(Selectors') = md_use_count - Cardinality(Selectors)
  <2>1. Selectors' = Selectors \ {v} /\ v \in Selectors
    BY DEF Selectors
  <2>2. /\ Cardinality(Selectors') = Cardinality(Selectors) - 1
        /\ Cardinality(Selectors) > 0 /\ Cardinality(Selectors) \in Nat
    BY <2>1, NodeSets, UsersAreNodes
  <2>3. /\ md_use_count' = (IF md_use_count = 0 THEN 0 ELSE md_use_count - 1)
        /\ md_use_count \in Nat /\ md_use_count >= Cardinality(Selectors)
    BY DEF PowerDown, TypeInv, TypeOK, PowerInv
  <2> QED
    BY <2>2, <2>3
<1>2. ASSUME NEW s \in Subdevs
      PROVE  /\ use_count'[s] - Cardinality(PowerUsers(s)') =
                  use_count[s] - Cardinality(PowerUsers(s))
             /\ powered'[s] <=> use_count'[s] > 0
  <2>1. /\ use_count'[s] =
             IF s \in ToPower(v) /\ use_count[s] > 0 THEN use_count[s] - 1 ELSE use_count[s]
        /\ powered'[s] <=> powered[s] /\ ~(s \in ToPower(v) /\ use_count[s] = 1)
        /\ use_count[s] \in Nat
    BY DEF PowerDown, TypeInv, TypeOK
  <2>2. use_count[s] >= Cardinality(PowerUsers(s)) /\ (powered[s] <=> use_count[s] > 0)
    BY DEF PowerInv
  <2>3. s \in ToPower(v) <=> v \in PowerUsers(s)
    BY SdIsOne DEF ToPower, PowerUsers, Sd
  <2>4. PowerUsers(s)' = PowerUsers(s) \ {v}
    BY DEF PowerUsers
  <2>5. PowerUsers(s) \in SUBSET Videos
    BY UsersAreNodes
  <2>6. CASE s \in ToPower(v)
    <3>1. /\ Cardinality(PowerUsers(s)') = Cardinality(PowerUsers(s)) - 1
          /\ Cardinality(PowerUsers(s)) > 0 /\ Cardinality(PowerUsers(s)) \in Nat
      BY <2>3, <2>4, <2>5, <2>6, NodeSets
    <3> QED
      BY <2>1, <2>2, <2>6, <3>1
  <2>7. CASE s \notin ToPower(v)
    <3>1. PowerUsers(s)' = PowerUsers(s)
      BY <2>3, <2>4, <2>7
    <3> QED
      BY <2>1, <2>2, <2>7, <3>1
  <2> QED
    BY <2>6, <2>7
<1> QED
  BY <1>1, <1>2

LEMMA CountPipelineClose ==
  ASSUME CountMode, CountInv, NEW v \in Videos, CloseStopped(v) \/ CloseWalked(v)
  PROVE  CallInv' /\ WalkInv' /\ StreamInv' /\ PowerInv'
<1> USE DEF CountInv
<1>1. /\ Released(v) /\ PowerDown(v) /\ graph_mutex' = NoVideo
      /\ UNCHANGED <<streaming, pipe, streamVars>>
  BY DEF CloseStopped, CloseWalked, PipelineClose, Unlock
<1>2. /\ PipelineClose(v) /\ files[v] > 0 /\ selected[v] > 0 /\ ~streaming[v]
      /\ graph_mutex \in {v, NoVideo} /\ Started(v) = {}
  BY CloserSelected
<1>3. /\ CallInv' /\ WalkInv' /\ StreamInv'
      /\ \A u \in Videos : selected'[u] = IF u = v THEN 0 ELSE selected[u]
  BY <1>1, <1>2, CountReleased
<1>4. PowerInv'
  BY <1>1, <1>2, <1>3, CloseCounts, CountsStay, TypePipelineClose
<1> QED
  BY <1>3, <1>4

-----------------------------------------------------------------------------
LEMMA CountStep == CountMode /\ CountInv /\ [Next]_vars => CountInv'
<1> SUFFICES ASSUME CountMode, CountInv, [Next]_vars
             PROVE  CallInv' /\ WalkInv' /\ StreamInv' /\ PowerInv'
  BY TypeStep DEF CountInv
<1>1. ASSUME NEW v \in Videos, Call(v)
      PROVE  CallInv' /\ WalkInv' /\ StreamInv' /\ PowerInv'
  BY <1>1, CountOpen, CountInput, CountStreamon, CountWalkStarts, CountCloseUnused,
     CountPipelineClose DEF Call
<1>2. ASSUME NEW v \in Videos, Progress(v)
      PROVE  CallInv' /\ WalkInv' /\ StreamInv' /\ PowerInv'
  BY <1>2, CountOpen, CountInput, CountPipelineOpen, CountOpenFails, CountStreamon,
     CountWalkStarts, CountSetStream, CountStreamDone, CountPipelineClose DEF Progress
<1>3. CASE UNCHANGED vars
  BY <1>3, CountQuiet DEF vars, nodeVars, bitVars, powerVars
<1>4. ASSUME NEW slept \in SUBSET Videos, SuspendResume(slept)
      PROVE  CallInv' /\ WalkInv' /\ StreamInv' /\ PowerInv'
  <2>1. UNCHANGED <<pc, selected, streaming, vb2_streaming, pipe, use_count, powered,
                    md_use_count, streamVars, graph_mutex, walk>>
    BY <1>4 DEF SuspendResume, nodeVars, powerVars
  <2> QED
    BY <2>1, CountQuiet
<1> QED
  BY <1>1, <1>2, <1>3, <1>4 DEF Next

LEMMA CountsHold == ASSUME CountMode PROVE Spec => []CountInv
<1>1. Init => CountInv
  BY TypeInit, CountInit DEF CountInv
<1>2. CountInv /\ [Next]_vars => CountInv'
  BY CountStep
<1> QED
  BY <1>1, <1>2, PTL DEF Spec

(* A user that has counted in a subdevice, which its count stands for.          *)
LEMMA RunningHasUser ==
  ASSUME CountInv, NEW s \in Subdevs, running[s]
  PROVE  \E v \in Videos :
           /\ s.kind \in pipe[v] /\ s = Sd(v, s.kind)
           /\ selected[v] > 0 /\ vb2_streaming[v]
<1>1. stream_count[s] > 0 /\ stream_count[s] <= Cardinality(StreamUsers(s))
  BY DEF CountInv, StreamInv
<1>2. /\ stream_count[s] \in Nat /\ Cardinality(StreamUsers(s)) \in Nat
      /\ StreamUsers(s) \in SUBSET Videos
  BY NodeSets, UsersAreNodes DEF CountInv, TypeInv, TypeOK
<1>3. Cardinality(StreamUsers(s)) > 0
  BY <1>1, <1>2
<1>4. PICK v \in StreamUsers(s) : TRUE
  BY <1>2, <1>3, NodeSets
<1>5. v \in Videos /\ s.kind \in Started(v) /\ s = Sd(v, s.kind)
  BY <1>4 DEF StreamUsers
<1>6. Started(v) \subseteq pipe[v] /\ (streaming[v] \/ pc[v] \in StreamCalls)
  BY <1>5 DEF Started, CountInv, WalkInv, StreamCalls, Walking
<1> QED
  BY <1>5, <1>6 DEF CountInv, CallInv

(* For any number of nodes, however they share subdevices, and whichever of them  *)
(* fails to start or to be powered up: what runs has power and clock, half-way through   *)
(* the walks of the nodes too, and over a sleep of the system.                *)
THEOREM AlwaysPowered == ASSUME CountMode PROVE Spec => []RunningIsPowered
<1>1. CountInv => RunningIsPowered
  <2> SUFFICES ASSUME CountInv, NEW s \in Subdevs, running[s]
               PROVE  md_use_count > 0 /\ (powered[s] \/ s.kind = "TDM_RX")
    BY DEF RunningIsPowered
  <2>1. PICK v \in Videos : /\ s.kind \in pipe[v] /\ s = Sd(v, s.kind)
                           /\ selected[v] > 0 /\ vb2_streaming[v]
    BY RunningHasUser
  <2>2. md_use_count > 0
    <3>1. v \in Selectors /\ Selectors \in SUBSET Videos
      BY <2>1 DEF Selectors
    <3>2. Cardinality(Selectors) > 0 /\ Cardinality(Selectors) \in Nat
      BY <3>1, NodeSets
    <3>3. md_use_count \in Nat /\ md_use_count >= Cardinality(Selectors)
      BY DEF CountInv, PowerInv, TypeInv, TypeOK
    <3> QED
      BY <3>2, <3>3
  <2>3. CASE s.kind # "TDM_RX"
    <3>1. v \in PowerUsers(s) /\ PowerUsers(s) \in SUBSET Videos
      BY <2>1, <2>3 DEF PowerUsers
    <3>2. Cardinality(PowerUsers(s)) > 0 /\ Cardinality(PowerUsers(s)) \in Nat
      BY <3>1, NodeSets
    <3>3. use_count[s] \in Nat /\ use_count[s] >= Cardinality(PowerUsers(s))
      BY DEF CountInv, PowerInv, TypeInv, TypeOK
    <3>4. use_count[s] > 0
      BY <3>2, <3>3
    <3> QED
      BY <2>2, <3>4 DEF CountInv, PowerInv
  <2> QED
    BY <2>2, <2>3
<1>2. Spec => []CountInv
  BY CountsHold
<1> QED
  BY <1>1, <1>2, PTL

(* For any number of nodes with a DMA each: the DMA runs on no queue that has     *)
(* been stopped, whatever the nodes that share the rest of the pipeline do.    *)
THEOREM DmaAlwaysHasQueue ==
  ASSUME CountMode, "CAPTURE" \notin Shared PROVE Spec => []DmaHasQueue
<1>1. CountInv => DmaHasQueue
  <2> SUFFICES ASSUME CountInv, NEW v \in Videos, running[Sd(v, "CAPTURE")]
               PROVE  vb2_streaming[v]
    BY DEF DmaHasQueue
  <2>1. Sd(v, "CAPTURE") \in Subdevs
    BY SdInSubdevs DEF Kinds
  <2>2. PICK u \in Videos : /\ Sd(v, "CAPTURE") = Sd(u, Sd(v, "CAPTURE").kind)
                           /\ vb2_streaming[u]
    BY <2>1, RunningHasUser
  <2>3. u = v
    BY <2>2 DEF Sd
  <2> QED
    BY <2>2, <2>3
<1>2. Spec => []CountInv
  BY CountsHold
<1> QED
  BY <1>1, <1>2, PTL

(* As long as no subdevice fails to start, every node that streams has all       *)
(* of its pipeline running, whatever the other nodes start, stop and close.    *)
THEOREM AlwaysRuns ==
  ASSUME CountMode, "on" \notin Faults PROVE Spec => []StreamingRuns
<1>1. CountInv => StreamingRuns
  <2> SUFFICES ASSUME CountInv, NEW v \in Videos, streaming[v], NEW k \in pipe[v]
               PROVE  running[Sd(v, k)]
    BY DEF StreamingRuns
  <2> DEFINE s == Sd(v, k)
  <2>1. k \in Kinds
    BY DEF CountInv, TypeInv, TypeOK
  <2>2. s \in Subdevs /\ s.kind = k
    BY <2>1, SdInSubdevs DEF Sd
  <2>3. Started(v) = pipe[v]
    BY DEF CountInv, CallInv, StreamCalls, Started, Walking
  <2>4. v \in StreamUsers(s) /\ StreamUsers(s) \in SUBSET Videos
    BY <2>2, <2>3 DEF StreamUsers
  <2>5. stream_count[s] = Cardinality(StreamUsers(s)) /\ (running[s] <=> stream_count[s] > 0)
    BY <2>2 DEF CountInv, StreamInv
  <2> QED
    BY <2>4, <2>5, NodeSets
<1>2. Spec => []CountInv
  BY CountsHold
<1> QED
  BY <1>1, <1>2, PTL

(* And with the mutex free every stream count is the number of the nodes that    *)
(* stream through the subdevice, and every count says what the hardware does.  *)
THEOREM CountsAlwaysAgree ==
  ASSUME CountMode, "on" \notin Faults PROVE Spec => []CountsAgree
<1>1. CountInv => CountsAgree
  <2> SUFFICES ASSUME CountInv, graph_mutex = NoVideo, NEW s \in Subdevs
               PROVE  /\ stream_count[s] = Cardinality(Users(s, streaming))
                      /\ running[s] = (stream_count[s] > 0)
                      /\ powered[s] = (use_count[s] > 0)
    BY DEF CountsAgree
  <2>1. \A v \in Videos : pc[v] \notin Walking
    BY NoVideoAssumption DEF CountInv, CallInv
  <2>2. StreamUsers(s) = Users(s, streaming)
    BY <2>1 DEF StreamUsers, Users, Started, Walking
  <2>3. /\ stream_count[s] = Cardinality(StreamUsers(s))
        /\ running[s] <=> stream_count[s] > 0
        /\ powered[s] <=> use_count[s] > 0
    BY DEF CountInv, StreamInv, PowerInv
  <2>4. running[s] \in BOOLEAN /\ powered[s] \in BOOLEAN
    BY DEF CountInv, TypeInv, TypeOK
  <2>5. running[s] = (stream_count[s] > 0) /\ powered[s] = (use_count[s] > 0)
    BY <2>3, <2>4
  <2> QED
    BY <2>2, <2>3, <2>5
<1>2. Spec => []CountInv
  BY CountsHold
<1> QED
  BY <1>1, <1>2, PTL
=============================================================================
