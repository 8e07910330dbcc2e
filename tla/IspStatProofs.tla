---------------------------- MODULE IspStatProofs ----------------------------
(***************************************************************************)
(* What IspStat satisfies for any number of users and every choice of buffer     *)
(* counts, with the faults that each theorem allows, and that it implements       *)
(* StatPool.                                                                *)
(***************************************************************************)
EXTENDS IspStatPool, TLAPS

(* A whole ioctl holds ioctl_lock; one that changes the number of buffers finds *)
(* the engine off and buffers that nobody uses.                               *)
CallInv ==
  /\ \A u \in Users : pc[u] \in LockedSteps => ioctl_lock = u
  /\ \A u \in Users : pc[u] \in {"free", "alloc"} =>
       /\ in_use /\ ~enabled /\ ~served
       /\ \A b \in Own : state[b] = "IDLE"
  /\ \A u \in Users : pc[u] = "alloc" => active_buf = NoBuf

(* What follows from having opened, configured, enabled and streamed.          *)
LifeInv ==
  /\ enabled => served /\ in_use
  /\ streaming => in_use /\ started
  /\ in_use /\ ~started => isr = "idle" /\ save_addr = 0
  /\ ~streaming => writing = NoBuf /\ ~load_pd /\ ~save_pd

(* The handler programs a buffer of an enabled engine, and only when no other    *)
(* one waits to be latched.                                                  *)
HandlerInv ==
  /\ isr \in {"program", "check"} => enabled /\ active_buf # NoBuf /\ LoadSet = {}
  /\ isr = "check" => save_addr = active_buf
  /\ active_buf \in InUse \cup {NoBuf}

(* The buffers that count have memory.                                        *)
MemoryInv ==
  /\ buf_size => \A b \in Own : dma_addr[b]
  /\ in_use => dma_addr[0]
  /\ served => buf_size /\ buf_cnt = sensor_fps

(* MarksAreTrue from the moment of configuration on, and what it needs of       *)
(* buffer 0 before.                                                          *)
MarksInv ==
  /\ served => LoadSet \subseteq {save_addr} /\ \A b, c \in SaveSet : b = c
  /\ state[0] = "LOAD_SET" => save_addr = 0

Inv == TypeOK /\ CallInv /\ LifeInv /\ HandlerInv /\ MemoryInv /\ MarksInv

LEMMA InvInit == Init => Inv
<1> SUFFICES ASSUME Init PROVE Inv
  OBVIOUS
<1> USE StatAssumption DEF Init
<1>1. StatTypes /\ BufferTypes /\ CallTypes
  <2>1. StatTypes
    <3>1. buf_cnt \in 0 .. 6
      OBVIOUS
    <3>2. configured \in BOOLEAN /\ enabled \in BOOLEAN /\ buf_size \in BOOLEAN
      OBVIOUS
    <3> QED
      BY <3>1, <3>2 DEF StatTypes
  <2>2. BufferTypes
    BY DEF BufferTypes, States
  <2>3. CallTypes
    BY DEF CallTypes
  <2> QED
    BY <2>1, <2>2, <2>3
<1>2. IspTypes
  <2>1. event_lost_cnt \in 0 .. LostLimit
    OBVIOUS
  <2>2. /\ in_use \in BOOLEAN /\ streaming \in BOOLEAN /\ served \in BOOLEAN
        /\ started \in BOOLEAN
    OBVIOUS
  <2>3. /\ f1_after_librun \in BOOLEAN /\ save_get_flag \in BOOLEAN
        /\ load_save \in BOOLEAN
    OBVIOUS
  <2> QED
    BY <2>1, <2>2, <2>3 DEF IspTypes
<1>3. HwTypes
  BY DEF HwTypes, IsrSteps
<1>4. CallInv /\ LifeInv
  BY DEF CallInv, LifeInv, LockedSteps
<1>5. HandlerInv /\ MemoryInv /\ MarksInv
  BY DEF HandlerInv, MemoryInv, MarksInv, InUse, Own, LoadSet, NoBuf, Foreign, SaveSet, Buffers
<1> QED
  BY <1>1, <1>2, <1>3, <1>4, <1>5 DEF Inv, TypeOK

(* The indices of the buffers that count.                                     *)
LEMMA Indices ==
  ASSUME StatTypes
  PROVE  InUse \subseteq Buffers /\ Own \subseteq InUse /\ 0 \in Buffers /\ 0 \notin Own
  BY DEF StatTypes, InUse, Own, Buffers

LEMMA InvHardware == ASSUME Inv, Hardware PROVE Inv'
<1> USE DEF Inv, TypeOK, statVars, bufVars, ownVars, flagVars, callVars, lifeVars
<1>1. CASE HwLoad
  <2> USE <1>1 DEF HwLoad
  <2>1. StatTypes' /\ BufferTypes' /\ CallTypes'
    BY DEF StatTypes, BufferTypes, CallTypes
  <2>2. IspTypes' /\ HwTypes'
    BY DEF IspTypes, HwTypes, Buffers, NoBuf, Foreign, LifeInv, MemoryInv
  <2>3. CallInv' /\ LifeInv'
    BY DEF CallInv, LifeInv, Own, LockedSteps
  <2>4. HandlerInv' /\ MemoryInv' /\ MarksInv'
    BY DEF HandlerInv, MemoryInv, MarksInv, InUse, Own, LoadSet, SaveSet, LifeInv, NoBuf,
           Foreign
  <2> QED
    BY <2>1, <2>2, <2>3, <2>4
<1>2. CASE HwSave
  <2> USE <1>2 DEF HwSave, StillAbandoned
  <2>1. StatTypes' /\ BufferTypes' /\ CallTypes'
    BY DEF StatTypes, BufferTypes, CallTypes
  <2>2. IspTypes' /\ HwTypes'
    BY DEF IspTypes, HwTypes, Buffers, NoBuf, Foreign
  <2>3. CallInv' /\ LifeInv'
    BY DEF CallInv, LifeInv, Own, LockedSteps
  <2>4. HandlerInv' /\ MemoryInv' /\ MarksInv'
    BY DEF HandlerInv, MemoryInv, MarksInv, InUse, Own, LoadSet, SaveSet, LifeInv, NoBuf,
           Foreign
  <2> QED
    BY <2>1, <2>2, <2>3, <2>4
<1> QED
  BY <1>1, <1>2 DEF Hardware

LEMMA InvSubdev == ASSUME Inv, Subdev PROVE Inv'
<1> USE DEF Inv, TypeOK, statVars, bufVars, ownVars, flagVars, callVars, lifeVars, hwVars
<1>1. CASE SubdevInit
  <2> USE <1>1 DEF SubdevInit, InitFrame
  <2>1. StatTypes' /\ BufferTypes' /\ CallTypes'
    BY DEF StatTypes, BufferTypes, CallTypes, Buffers, States
  <2>2. IspTypes' /\ HwTypes'
    <3>1. IspTypes'
      BY DEF IspTypes
    <3>2. HwTypes'
      BY DEF HwTypes, Buffers
    <3> QED
      BY <3>1, <3>2
  <2>3. CallInv' /\ LifeInv'
    BY DEF CallInv, LifeInv, Own, LockedSteps
  <2>4. HandlerInv' /\ MemoryInv' /\ MarksInv'
    BY DEF HandlerInv, MemoryInv, MarksInv, InUse, Own, LoadSet, SaveSet, LifeInv,
           BufferTypes, StatTypes, NoBuf, Foreign, Buffers
  <2> QED
    BY <2>1, <2>2, <2>3, <2>4
<1>2. CASE SubdevExit
  <2> USE <1>2 DEF SubdevExit
  <2>1. StatTypes' /\ BufferTypes' /\ CallTypes'
    BY DEF StatTypes, BufferTypes, CallTypes
  <2>2. IspTypes' /\ HwTypes'
    BY DEF IspTypes, HwTypes
  <2>3. CallInv' /\ LifeInv'
    BY DEF CallInv, LifeInv, Own, LockedSteps
  <2>4. HandlerInv' /\ MemoryInv' /\ MarksInv'
    BY DEF HandlerInv, MemoryInv, MarksInv, InUse, Own, LoadSet, SaveSet
  <2> QED
    BY <2>1, <2>2, <2>3, <2>4
<1>3. ASSUME NEW count \in Counts, SensorFps(count) PROVE Inv'
  <2> USE <1>3 DEF SensorFps
  <2>1. StatTypes' /\ BufferTypes' /\ CallTypes'
    BY DEF StatTypes, BufferTypes, CallTypes
  <2>2. IspTypes' /\ HwTypes'
    BY DEF IspTypes, HwTypes
  <2>3. CallInv' /\ LifeInv'
    BY DEF CallInv, LifeInv, Own, LockedSteps
  <2>4. HandlerInv' /\ MemoryInv' /\ MarksInv'
    BY DEF HandlerInv, MemoryInv, MarksInv, InUse, Own, LoadSet, SaveSet
  <2> QED
    BY <2>1, <2>2, <2>3, <2>4
<1>4. CASE StreamOn
  <2> USE <1>4 DEF StreamOn
  <2>1. StatTypes' /\ BufferTypes' /\ CallTypes'
    BY DEF StatTypes, BufferTypes, CallTypes
  <2>2. IspTypes' /\ HwTypes'
    BY DEF IspTypes, HwTypes
  <2>3. CallInv' /\ LifeInv'
    BY DEF CallInv, LifeInv, Own, LockedSteps
  <2>4. HandlerInv' /\ MemoryInv' /\ MarksInv'
    BY DEF HandlerInv, MemoryInv, MarksInv, InUse, Own, LoadSet, SaveSet
  <2> QED
    BY <2>1, <2>2, <2>3, <2>4
<1>5. CASE StreamOff
  <2> USE <1>5 DEF StreamOff
  <2>1. StatTypes' /\ BufferTypes' /\ CallTypes'
    BY DEF StatTypes, BufferTypes, CallTypes
  <2>2. IspTypes' /\ HwTypes'
    BY DEF IspTypes, HwTypes
  <2>3. CallInv' /\ LifeInv'
    BY DEF CallInv, LifeInv, Own, LockedSteps
  <2>4. HandlerInv' /\ MemoryInv' /\ MarksInv'
    BY DEF HandlerInv, MemoryInv, MarksInv, InUse, Own, LoadSet, SaveSet, NoBuf, Foreign
  <2> QED
    BY <2>1, <2>2, <2>3, <2>4
<1> QED
  BY <1>1, <1>2, <1>3, <1>4, <1>5 DEF Subdev

LEMMA EventCount == ASSUME IspTypes PROVE EventLost \in 0 .. LostLimit
  BY StatAssumption DEF IspTypes, EventLost, FrameSync

LEMMA InvSave ==
  ASSUME Inv, IsrTakesSave \/ IsrSaveWithoutLoad \/ IsrSaveMarks \/ IsrMark
  PROVE  Inv'
<1> USE DEF Inv, TypeOK, statVars, bufVars, ownVars, flagVars, callVars, lifeVars, hwVars
<1>1. CASE IsrTakesSave
  <2> USE <1>1 DEF IsrTakesSave, SaveFrame
  <2>1. StatTypes' /\ BufferTypes' /\ CallTypes'
    BY DEF StatTypes, BufferTypes, CallTypes
  <2>2. IspTypes' /\ HwTypes'
    BY EventCount DEF IspTypes, HwTypes, IsrSteps
  <2>3. CallInv' /\ LifeInv'
    BY DEF CallInv, LifeInv, Own, LockedSteps
  <2>4. HandlerInv' /\ MemoryInv' /\ MarksInv'
    BY DEF HandlerInv, MemoryInv, MarksInv, InUse, Own, LoadSet, SaveSet
  <2> QED
    BY <2>1, <2>2, <2>3, <2>4
<1>2. CASE IsrSaveWithoutLoad
  <2> USE <1>2 DEF IsrSaveWithoutLoad, StatIsr, SaveFrame
  <2>1. StatTypes' /\ BufferTypes' /\ CallTypes'
    BY DEF StatTypes, BufferTypes, CallTypes
  <2>2. IspTypes' /\ HwTypes'
    BY EventCount DEF IspTypes, HwTypes, IsrSteps
  <2>3. CallInv' /\ LifeInv'
    BY DEF CallInv, LifeInv, Own, LockedSteps
  <2>4. HandlerInv' /\ MemoryInv' /\ MarksInv'
    BY DEF HandlerInv, MemoryInv, MarksInv, InUse, Own, LoadSet, SaveSet
  <2> QED
    BY <2>1, <2>2, <2>3, <2>4
<1>3. CASE IsrSaveMarks
  <2> USE <1>3 DEF IsrSaveMarks, Marked, StatIsr, SaveFrame
  <2>1. StatTypes' /\ BufferTypes' /\ CallTypes'
    BY DEF StatTypes, BufferTypes, CallTypes, States
  <2>2. IspTypes' /\ HwTypes'
    BY EventCount DEF IspTypes, HwTypes, IsrSteps
  <2>3. CallInv' /\ LifeInv'
    <3>1. \A b \in Own : state[b] = "IDLE" => state'[b] = "IDLE"
      BY Indices DEF LoadSet, SaveSet
    <3>2. CallInv'
      BY <3>1 DEF CallInv, Own
    <3>3. LifeInv'
      BY DEF LifeInv
    <3> QED
      BY <3>2, <3>3
  <2>4. HandlerInv' /\ MemoryInv' /\ MarksInv'
    BY DEF HandlerInv, MemoryInv, MarksInv, InUse, Own, LoadSet, SaveSet, StatTypes, LifeInv,
           BufferTypes, Buffers, States
  <2> QED
    BY <2>1, <2>2, <2>3, <2>4
<1>4. CASE IsrMark
  <2> USE <1>4 DEF IsrMark
  <2>1. StatTypes' /\ BufferTypes' /\ CallTypes'
    BY DEF StatTypes, BufferTypes, CallTypes
  <2>2. IspTypes' /\ HwTypes'
    BY DEF IspTypes, HwTypes, IsrSteps
  <2>3. CallInv' /\ LifeInv'
    BY DEF CallInv, LifeInv, Own, LockedSteps
  <2>4. HandlerInv' /\ MemoryInv' /\ MarksInv'
    BY DEF HandlerInv, MemoryInv, MarksInv, InUse, Own, LoadSet, SaveSet
  <2> QED
    BY <2>1, <2>2, <2>3, <2>4
<1> QED
  BY <1>1, <1>2, <1>3, <1>4

LEMMA InvLoad ==
  ASSUME Inv, IsrLoadSkips \/ IsrChooses \/ IsrPrograms \/ IsrOvertaken \/ IsrLoadSets
  PROVE  Inv'
<1> USE DEF Inv, TypeOK, statVars, bufVars, ownVars, flagVars, callVars, lifeVars, AtLoad,
            LoadFrame
<1>1. CASE IsrLoadSkips
  <2> USE <1>1 DEF IsrLoadSkips
  <2>1. StatTypes' /\ BufferTypes' /\ CallTypes'
    BY DEF StatTypes, BufferTypes, CallTypes
  <2>2. IspTypes' /\ HwTypes'
    BY DEF IspTypes, HwTypes, IsrSteps
  <2>3. CallInv' /\ LifeInv'
    BY DEF CallInv, LifeInv, Own, LockedSteps
  <2>4. HandlerInv' /\ MemoryInv' /\ MarksInv'
    BY DEF HandlerInv, MemoryInv, MarksInv, InUse, Own, LoadSet, SaveSet
  <2> QED
    BY <2>1, <2>2, <2>3, <2>4
<1>2. CASE IsrChooses
  <2> USE <1>2 DEF IsrChooses, BufNext, FindsOldestOrEmpty, FindsOldest, Vacant, Ready
  <2>1. StatTypes' /\ BufferTypes' /\ CallTypes'
    BY DEF StatTypes, BufferTypes, CallTypes
  <2>2. IspTypes' /\ HwTypes'
    BY DEF IspTypes, HwTypes, IsrSteps
  <2>3. CallInv' /\ LifeInv'
    BY DEF CallInv, LifeInv, Own, LockedSteps
  <2>4. HandlerInv' /\ MemoryInv' /\ MarksInv'
    BY DEF HandlerInv, MemoryInv, MarksInv, InUse, Own, LoadSet, SaveSet, NoBuf
  <2> QED
    BY <2>1, <2>2, <2>3, <2>4
<1>3. CASE IsrPrograms
  <2> USE <1>3 DEF IsrPrograms, StillAbandoned
  <2>1. StatTypes' /\ BufferTypes' /\ CallTypes'
    BY DEF StatTypes, BufferTypes, CallTypes
  <2>2. IspTypes' /\ HwTypes'
    BY DEF IspTypes, HwTypes, IsrSteps, HandlerInv, StatTypes
  <2>3. CallInv' /\ LifeInv'
    BY DEF CallInv, LifeInv, Own, LockedSteps, HandlerInv
  <2>4. HandlerInv' /\ MemoryInv' /\ MarksInv'
    BY DEF HandlerInv, MemoryInv, MarksInv, InUse, Own, LoadSet, SaveSet, LifeInv, StatTypes,
           BufferTypes, HwTypes, Buffers, NoBuf, Foreign
  <2> QED
    BY <2>1, <2>2, <2>3, <2>4
<1>4. CASE IsrOvertaken
  <2> USE <1>4 DEF IsrOvertaken
  <2>1. StatTypes' /\ BufferTypes' /\ CallTypes'
    BY DEF StatTypes, BufferTypes, CallTypes
  <2>2. IspTypes' /\ HwTypes'
    BY DEF IspTypes, HwTypes, IsrSteps, HandlerInv, StatTypes
  <2>3. CallInv' /\ LifeInv'
    BY DEF CallInv, LifeInv, Own, LockedSteps
  <2>4. HandlerInv' /\ MemoryInv' /\ MarksInv'
    BY DEF HandlerInv, MemoryInv, MarksInv, InUse, Own, LoadSet, SaveSet
  <2> QED
    BY <2>1, <2>2, <2>3, <2>4
<1>5. CASE IsrLoadSets
  <2> USE <1>5 DEF IsrLoadSets
  <2>1. StatTypes' /\ BufferTypes' /\ CallTypes'
    BY DEF StatTypes, BufferTypes, CallTypes, States
  <2>2. IspTypes' /\ HwTypes'
    BY DEF IspTypes, HwTypes, IsrSteps, HandlerInv, StatTypes
  <2>3. CallInv' /\ LifeInv'
    BY DEF CallInv, LifeInv, Own, LockedSteps, HandlerInv, BufferTypes, StatTypes
  <2>4. HandlerInv' /\ MemoryInv' /\ MarksInv'
    BY DEF HandlerInv, MemoryInv, MarksInv, InUse, Own, LoadSet, SaveSet, BufferTypes,
           StatTypes, LifeInv
  <2> QED
    BY <2>1, <2>2, <2>3, <2>4
<1> QED
  BY <1>1, <1>2, <1>3, <1>4, <1>5

LEMMA InvFetch == ASSUME Inv, NEW u \in Readers, Fetch(u) PROVE Inv'
<1> USE DEF Inv, TypeOK, statVars, bufVars, ownVars, flagVars, callVars, lifeVars,
            RequestFrame, CallFrame, Users, Goto
<1>1. CASE Request(u)
  <2> USE <1>1 DEF Request
  <2>1. StatTypes' /\ BufferTypes' /\ CallTypes'
    BY DEF StatTypes, BufferTypes, CallTypes
  <2>2. IspTypes' /\ HwTypes'
    BY DEF IspTypes, HwTypes
  <2>3. CallInv' /\ LifeInv'
    BY DEF CallInv, LifeInv, Own, LockedSteps
  <2>4. HandlerInv' /\ MemoryInv' /\ MarksInv'
    BY DEF HandlerInv, MemoryInv, MarksInv, InUse, Own, LoadSet, SaveSet
  <2> QED
    BY <2>1, <2>2, <2>3, <2>4
<1>2. CASE RequestFindsNone(u)
  <2> USE <1>2 DEF RequestFindsNone
  <2>1. StatTypes' /\ BufferTypes' /\ CallTypes'
    BY DEF StatTypes, BufferTypes, CallTypes
  <2>2. IspTypes' /\ HwTypes'
    BY DEF IspTypes, HwTypes
  <2>3. CallInv' /\ LifeInv'
    BY DEF CallInv, LifeInv, Own, LockedSteps
  <2>4. HandlerInv' /\ MemoryInv' /\ MarksInv'
    BY DEF HandlerInv, MemoryInv, MarksInv, InUse, Own, LoadSet, SaveSet
  <2> QED
    BY <2>1, <2>2, <2>3, <2>4
<1>3. CASE RequestGets(u)
  <2> USE <1>3 DEF RequestGets
  <2>1. StatTypes' /\ BufferTypes' /\ CallTypes'
    <3>1. StatTypes'
      BY DEF StatTypes
    <3>2. BufferTypes'
      BY DEF BufferTypes
    <3>3. CallTypes'
      BY DEF CallTypes, LockedSteps
    <3> QED
      BY <3>1, <3>2, <3>3
  <2>2. IspTypes' /\ HwTypes'
    BY DEF IspTypes, HwTypes
  <2>3. CallInv' /\ LifeInv'
    BY StatAssumption DEF CallInv, LifeInv, Own, LockedSteps, CallTypes
  <2>4. HandlerInv' /\ MemoryInv' /\ MarksInv'
    BY DEF HandlerInv, MemoryInv, MarksInv, InUse, Own, LoadSet, SaveSet
  <2> QED
    BY <2>1, <2>2, <2>3, <2>4
<1>4. CASE RequestCopies(u) \/ RequestFails(u)
  <2> USE <1>4 DEF RequestCopies, RequestFails, Releases
  <2>1. StatTypes' /\ BufferTypes' /\ CallTypes'
    BY DEF StatTypes, BufferTypes, CallTypes, States
  <2>2. IspTypes' /\ HwTypes'
    BY DEF IspTypes, HwTypes
  <2>3. CallInv' /\ LifeInv'
    BY DEF CallInv, LifeInv, Own, LockedSteps, CallTypes, BufferTypes, StatTypes
  <2>4. HandlerInv' /\ MemoryInv' /\ MarksInv'
    <3>1. \A b \in Buffers : state'[b] \in {state[b], "IDLE"}
      BY DEF BufferTypes
    <3>2. HandlerInv'
      BY <3>1, Indices DEF HandlerInv, InUse, LoadSet
    <3>3. MemoryInv'
      BY DEF MemoryInv, Own
    <3>4. MarksInv'
      BY <3>1, Indices DEF MarksInv, InUse, LoadSet, SaveSet
    <3> QED
      BY <3>2, <3>3, <3>4
  <2> QED
    BY <2>1, <2>2, <2>3, <2>4
<1> QED
  BY <1>1, <1>2, <1>3, <1>4 DEF Fetch

LEMMA InvControl == ASSUME Inv, NEW u \in Controllers, Control(u) PROVE Inv'
<1> USE DEF Inv, TypeOK, statVars, bufVars, ownVars, flagVars, callVars, lifeVars,
            ConfigFrame, CallFrame, Users, Goto
<1>1. CASE Config(u)
  <2> USE <1>1 DEF Config
  <2>1. StatTypes' /\ BufferTypes' /\ CallTypes'
    <3>1. StatTypes'
      BY DEF StatTypes
    <3>2. BufferTypes'
      BY DEF BufferTypes, States
    <3>3. CallTypes'
      BY DEF CallTypes, LockedSteps
    <3> QED
      BY <3>1, <3>2, <3>3
  <2>2. IspTypes' /\ HwTypes'
    BY DEF IspTypes, HwTypes
  <2>3. CallInv' /\ LifeInv'
    <3>1. \A v \in Users : pc[v] \notin LockedSteps
      BY StatAssumption DEF CallInv
    <3>2. \A b \in Own' : state'[b] = "IDLE"
      BY Indices DEF Own
    <3>3. CallInv'
      BY <3>1, <3>2 DEF CallInv, MemoryInv, LockedSteps, CallTypes
    <3>4. LifeInv'
      BY DEF LifeInv
    <3> QED
      BY <3>3, <3>4
  <2>4. HandlerInv' /\ MemoryInv' /\ MarksInv'
    BY StatAssumption DEF HandlerInv, MemoryInv, MarksInv, InUse, Own, LoadSet, SaveSet,
                          BufferTypes, StatTypes, Buffers, LifeInv
  <2> QED
    BY <2>1, <2>2, <2>3, <2>4
<1>2. CASE ConfigFrees(u)
  <2> USE <1>2 DEF ConfigFrees, FreeOwn
  <2>1. StatTypes' /\ BufferTypes' /\ CallTypes'
    <3>1. StatTypes'
      BY DEF StatTypes
    <3>2. BufferTypes'
      BY DEF BufferTypes
    <3>3. CallTypes'
      BY DEF CallTypes, LockedSteps
    <3> QED
      BY <3>1, <3>2, <3>3
  <2>2. IspTypes' /\ HwTypes'
    BY DEF IspTypes, HwTypes, Foreign
  <2>3. CallInv' /\ LifeInv'
    BY DEF CallInv, LifeInv, Own, LockedSteps, CallTypes, LifeInv, NoBuf
  <2>4. HandlerInv' /\ MemoryInv' /\ MarksInv'
    BY DEF HandlerInv, MemoryInv, MarksInv, InUse, Own, LoadSet, SaveSet, CallInv, LifeInv,
           BufferTypes, Buffers, NoBuf, Foreign
  <2> QED
    BY <2>1, <2>2, <2>3, <2>4
<1>3. CASE ConfigAllocs(u)
  <2> USE <1>3 DEF ConfigAllocs
  <2>1. StatTypes' /\ BufferTypes' /\ CallTypes'
    <3>1. buf_cnt' \in 0 .. 6
      BY StatAssumption DEF StatTypes
    <3>2. StatTypes'
      BY <3>1 DEF StatTypes
    <3>3. BufferTypes'
      BY DEF BufferTypes, States
    <3>4. CallTypes'
      BY DEF CallTypes, LockedSteps
    <3> QED
      BY <3>2, <3>3, <3>4
  <2>2. IspTypes' /\ HwTypes'
    <3>1. IspTypes'
      BY DEF IspTypes
    <3>2. HwTypes'
      BY DEF HwTypes
    <3> QED
      BY <3>1, <3>2
  <2>3. CallInv' /\ LifeInv'
    BY StatAssumption DEF CallInv, LifeInv, Own, LockedSteps, CallTypes
  <2>4. HandlerInv' /\ MemoryInv' /\ MarksInv'
    <3>1. in_use /\ ~enabled /\ ~served /\ active_buf = NoBuf
      BY DEF CallInv
    <3>2. HandlerInv'
      BY <3>1 DEF HandlerInv, InUse
    <3>3. /\ Own' = 1 .. sensor_fps - 1 /\ Own' \subseteq Buffers /\ 0 \in Buffers
          /\ 0 \notin Own' /\ InUse' \subseteq Own' \cup {0}
      BY StatAssumption DEF StatTypes, Own, InUse, Buffers
    <3>4. CASE buf_size'
      <4>1. /\ \A b \in Own' : dma_addr'[b] /\ state'[b] = "IDLE"
            /\ (dma_addr[0] => dma_addr'[0]) /\ state'[0] = state[0]
        BY <3>3, <3>4 DEF BufferTypes
      <4>2. MemoryInv'
        BY <3>1, <4>1 DEF MemoryInv
      <4>3. MarksInv'
        BY <3>1, <3>3, <4>1 DEF MarksInv, LoadSet, SaveSet
      <4> QED
        BY <3>2, <4>2, <4>3
    <3>5. CASE ~buf_size'
      <4>1. UNCHANGED <<dma_addr, served>> /\ state'[0] = state[0]
        BY <3>3, <3>5 DEF BufferTypes
      <4> QED
        BY <3>1, <3>2, <3>5, <4>1 DEF MemoryInv, MarksInv
    <3> QED
      BY <3>4, <3>5
  <2> QED
    BY <2>1, <2>2, <2>3, <2>4
<1>4. ASSUME NEW on \in BOOLEAN, Enable(u, on) PROVE Inv'
  <2> USE <1>4 DEF Enable, BufNext, FindsOldestOrEmpty, FindsOldest, Vacant, Ready, SlockFree
  <2>1. StatTypes' /\ BufferTypes' /\ CallTypes'
    BY DEF StatTypes, BufferTypes, CallTypes
  <2>2. IspTypes' /\ HwTypes'
    BY DEF IspTypes, HwTypes
  <2>3. CallInv' /\ LifeInv'
    BY StatAssumption DEF CallInv, LifeInv, Own, LockedSteps, CallTypes
  <2>4. HandlerInv' /\ MemoryInv' /\ MarksInv'
    BY DEF HandlerInv, MemoryInv, MarksInv, InUse, Own, LoadSet, SaveSet
  <2> QED
    BY <2>1, <2>2, <2>3, <2>4
<1>5. CASE SetLoadReg(u)
  <2> USE <1>5 DEF SetLoadReg, hwVars
  <2>1. StatTypes' /\ BufferTypes' /\ CallTypes'
    BY DEF StatTypes, BufferTypes, CallTypes
  <2>2. IspTypes' /\ HwTypes'
    BY DEF IspTypes, HwTypes
  <2>3. CallInv' /\ LifeInv'
    BY DEF CallInv, LifeInv, Own, LockedSteps
  <2>4. HandlerInv' /\ MemoryInv' /\ MarksInv'
    BY DEF HandlerInv, MemoryInv, MarksInv, InUse, Own, LoadSet, SaveSet
  <2> QED
    BY <2>1, <2>2, <2>3, <2>4
<1> QED
  BY <1>1, <1>2, <1>3, <1>4, <1>5 DEF Control

(***************************************************************************)
(* The theorems                                                            *)
(***************************************************************************)
LEMMA InvNext == Inv /\ [Next]_vars => Inv'
<1> SUFFICES ASSUME Inv, [Next]_vars PROVE Inv'
  OBVIOUS
<1>1. CASE Hardware
  BY <1>1, InvHardware
<1>2. CASE Isr
  BY <1>2, InvSave, InvLoad DEF Isr
<1>3. CASE Subdev
  BY <1>3, InvSubdev
<1>4. ASSUME NEW u \in Readers, Fetch(u) PROVE Inv'
  BY <1>4, InvFetch
<1>5. ASSUME NEW u \in Controllers, Control(u) PROVE Inv'
  BY <1>5, InvControl
<1>6. CASE UNCHANGED vars
  <2> USE <1>6 DEF Inv, TypeOK, vars, statVars, bufVars, ownVars, flagVars, callVars,
                   lifeVars, hwVars
  <2>1. StatTypes' /\ BufferTypes' /\ CallTypes'
    BY DEF StatTypes, BufferTypes, CallTypes
  <2>2. IspTypes' /\ HwTypes'
    BY DEF IspTypes, HwTypes
  <2>3. CallInv' /\ LifeInv'
    BY DEF CallInv, LifeInv, Own
  <2>4. HandlerInv' /\ MemoryInv' /\ MarksInv'
    BY DEF HandlerInv, MemoryInv, MarksInv, InUse, Own, LoadSet, SaveSet
  <2> QED
    BY <2>1, <2>2, <2>3, <2>4
<1> QED
  BY <1>1, <1>2, <1>3, <1>4, <1>5, <1>6 DEF Next

LEMMA InvAlways == Spec => []Inv
  BY InvInit, InvNext, PTL DEF Spec

(* Every variable keeps its type, for any number of threads and with every fault: *)
(* in particular the count of lost events stays within its limit, the handler     *)
(* never programs a buffer it does not have, and the indices stay in buf[].      *)
THEOREM TypeCorrect == Spec => []TypeOK
<1>1. Inv => TypeOK
  BY DEF Inv
<1> QED
  BY <1>1, InvAlways, PTL

(* isp_stat_isr may take the one buffer in LOAD_SET for the one that the register *)
(* names, also after an ISP that streams again without being opened again.       *)
THEOREM MarksAlwaysTrue == Spec => []MarksAreTrue
<1>1. Inv => MarksAreTrue
  BY DEF Inv, LifeInv, MarksInv, MarksAreTrue
<1> QED
  BY <1>1, InvAlways, PTL

(***************************************************************************)
(* The ISP writes to the driver's memory                                    *)
(***************************************************************************)
(* An ISP that streams again keeps the address of the last session.  That is    *)
(* safe only while the number of buffers cannot change.                       *)
OwnedMode == "restart" \notin Faults \/ \A c, d \in Counts : c = d

(* With one number of buffers they are freed only before they have all been      *)
(* allocated, when the ISP knows buffer 0 alone, which is never freed.          *)
OneCountInv ==
  /\ buf_size => buf_cnt \in Counts
  /\ \A u \in Users : pc[u] \in {"free", "alloc"} => ~buf_size
  /\ in_use => save_addr # Foreign /\ writing # Foreign
  /\ in_use /\ ~buf_size => save_addr = 0 /\ writing \in {0, NoBuf}

(* Without a restart they are freed before the first configuration of a session  *)
(* or after its stream.                                                      *)
OneStreamInv ==
  /\ streaming => save_addr # Foreign /\ writing # Foreign
  /\ streaming /\ ~served => save_addr = 0 /\ writing \in {0, NoBuf}

LEMMA OneCountNext ==
  ASSUME \A c, d \in Counts : c = d, Inv, OneCountInv, [Next]_vars
  PROVE  OneCountInv'
<1> USE DEF Inv, TypeOK, statVars, bufVars, ownVars, flagVars, callVars, lifeVars, hwVars
<1>1. CASE Hardware
  BY <1>1 DEF Hardware, HwLoad, HwSave, OneCountInv, LifeInv, NoBuf, Foreign
<1>2. CASE Isr /\ ~IsrPrograms
  BY <1>2 DEF Isr, IsrTakesSave, IsrSaveWithoutLoad, IsrSaveMarks, IsrMark, IsrLoadSkips, IsrChooses,
              IsrOvertaken, IsrLoadSets, StatIsr, SaveFrame, LoadFrame, OneCountInv
<1>3. CASE IsrPrograms
  <2>1. dma_addr[active_buf] /\ buf_size /\ active_buf # Foreign
    BY <1>3 DEF IsrPrograms, HandlerInv, LifeInv, MemoryInv, InUse, Own, StatTypes, Foreign
  <2> QED
    BY <1>3, <2>1 DEF IsrPrograms, LoadFrame, OneCountInv
<1>4. CASE Subdev
  <2>1. CASE SubdevInit
    BY <2>1 DEF SubdevInit, InitFrame, OneCountInv, LifeInv, NoBuf, Foreign
  <2>2. CASE Subdev /\ ~SubdevInit
    BY <2>2 DEF Subdev, SubdevExit, StreamOn, StreamOff, SensorFps, OneCountInv, LifeInv, NoBuf,
                Foreign
  <2> QED
    BY <1>4, <2>1, <2>2
<1>5. ASSUME NEW u \in Readers, Fetch(u) PROVE OneCountInv'
  BY <1>5 DEF Fetch, Request, RequestFindsNone, RequestGets, RequestCopies, RequestFails, Releases,
              RequestFrame, CallFrame, Goto, OneCountInv, CallTypes, Users
<1>6. ASSUME NEW u \in Controllers, Config(u) PROVE OneCountInv'
  <2>1. buf_size => buf_cnt = sensor_fps
    BY DEF OneCountInv, StatTypes
  <2> QED
    BY <1>6, <2>1 DEF Config, ConfigFrame, Goto, OneCountInv, CallTypes, Users
<1>7. ASSUME NEW u \in Controllers, ConfigFrees(u) PROVE OneCountInv'
  <2>1. in_use /\ ~buf_size /\ save_addr = 0 /\ writing \in {0, NoBuf}
    BY <1>7 DEF ConfigFrees, OneCountInv, CallInv, Users
  <2>2. save_addr' = save_addr /\ writing' = writing
    BY <1>7, <2>1 DEF ConfigFrees, FreeOwn, Own, NoBuf
  <2> QED
    BY <1>7, <2>1, <2>2 DEF ConfigFrees, ConfigFrame, Goto, OneCountInv, CallTypes, Users
<1>8. ASSUME NEW u \in Controllers, ConfigAllocs(u) PROVE OneCountInv'
  <2>1. \A v \in Users \ {u} : pc[v] \notin {"free", "alloc"}
    BY <1>8 DEF ConfigAllocs, CallInv, LockedSteps, Users
  <2> QED
    BY <1>8, <2>1 DEF ConfigAllocs, ConfigFrame, Goto, OneCountInv, CallTypes, Users, StatTypes
<1>9. ASSUME NEW u \in Controllers, Enable(u, TRUE) \/ Enable(u, FALSE) \/ SetLoadReg(u)
      PROVE OneCountInv'
  BY <1>9 DEF Enable, SetLoadReg, CallFrame, OneCountInv
<1>10. CASE UNCHANGED vars
  BY <1>10 DEF vars, OneCountInv
<1> QED
  BY <1>1, <1>2, <1>3, <1>4, <1>5, <1>6, <1>7, <1>8, <1>9, <1>10 DEF Next, Control

LEMMA OneStreamNext ==
  ASSUME "restart" \notin Faults, Inv, OneStreamInv, [Next]_vars
  PROVE  OneStreamInv'
<1> USE DEF Inv, TypeOK, statVars, bufVars, ownVars, flagVars, callVars, lifeVars, hwVars
<1>1. CASE Hardware
  BY <1>1 DEF Hardware, HwLoad, HwSave, OneStreamInv, NoBuf, Foreign
<1>2. CASE Isr /\ ~IsrPrograms
  BY <1>2 DEF Isr, IsrTakesSave, IsrSaveWithoutLoad, IsrSaveMarks, IsrMark, IsrLoadSkips, IsrChooses,
              IsrOvertaken, IsrLoadSets, StatIsr, SaveFrame, LoadFrame, OneStreamInv
<1>3. CASE IsrPrograms
  <2>1. dma_addr[active_buf] /\ served /\ active_buf # Foreign
    BY <1>3 DEF IsrPrograms, HandlerInv, LifeInv, MemoryInv, InUse, Own, StatTypes, Foreign
  <2> QED
    BY <1>3, <2>1 DEF IsrPrograms, LoadFrame, OneStreamInv
<1>4. CASE Subdev
  BY <1>4 DEF Subdev, SubdevInit, InitFrame, SubdevExit, StreamOn, StreamOff, SensorFps, OneStreamInv,
              LifeInv, NoBuf, Foreign
<1>5. ASSUME NEW u \in Readers, Fetch(u) PROVE OneStreamInv'
  BY <1>5 DEF Fetch, Request, RequestFindsNone, RequestGets, RequestCopies, RequestFails, Releases,
              RequestFrame, CallFrame, OneStreamInv
<1>6. ASSUME NEW u \in Controllers, Config(u) PROVE OneStreamInv'
  BY <1>6 DEF Config, ConfigFrame, OneStreamInv
<1>7. ASSUME NEW u \in Controllers, ConfigFrees(u) PROVE OneStreamInv'
  <2>1. ~served
    BY <1>7 DEF ConfigFrees, CallInv, Users
  <2>2. streaming => save_addr' = save_addr /\ writing' = writing
    BY <1>7, <2>1 DEF ConfigFrees, FreeOwn, Own, OneStreamInv, NoBuf
  <2> QED
    BY <1>7, <2>1, <2>2 DEF ConfigFrees, ConfigFrame, OneStreamInv
<1>8. ASSUME NEW u \in Controllers, ConfigAllocs(u) PROVE OneStreamInv'
  BY <1>8 DEF ConfigAllocs, ConfigFrame, OneStreamInv
<1>9. ASSUME NEW u \in Controllers, Enable(u, TRUE) \/ Enable(u, FALSE) \/ SetLoadReg(u)
      PROVE OneStreamInv'
  BY <1>9 DEF Enable, SetLoadReg, CallFrame, OneStreamInv
<1>10. CASE UNCHANGED vars
  BY <1>10 DEF vars, OneStreamInv
<1> QED
  BY <1>1, <1>2, <1>3, <1>4, <1>5, <1>6, <1>7, <1>8, <1>9, <1>10 DEF Next, Control

LEMMA OneStreamAlways == ASSUME "restart" \notin Faults PROVE Spec => []OneStreamInv
<1>1. Init => OneStreamInv
  BY DEF Init, OneStreamInv
<1>2. Inv /\ OneStreamInv /\ [Next]_vars => OneStreamInv'
  BY OneStreamNext
<1> QED
  BY <1>1, <1>2, InvAlways, PTL DEF Spec

(* The ISP never writes to memory that isp_stat_bufs_free has freed, whatever the *)
(* frame rates ask for and wherever the allocation fails.  An ISP that streams    *)
(* again without being opened again is included as long as there is one number    *)
(* of buffers: with two the old address is used although its memory is gone.      *)
THEOREM IspNeverWritesForeign == ASSUME OwnedMode PROVE Spec => []IspWritesOwned
<1>1. CASE "restart" \notin Faults
  <2>1. OneStreamInv => IspWritesOwned
    BY DEF OneStreamInv, IspWritesOwned
  <2> QED
    BY <1>1, <2>1, OneStreamAlways, PTL
<1>2. CASE \A c, d \in Counts : c = d
  <2>1. Init => OneCountInv
    BY DEF Init, OneCountInv
  <2>2. Inv /\ OneCountInv /\ [Next]_vars => OneCountInv'
    BY <1>2, OneCountNext
  <2>3. Inv /\ OneCountInv => IspWritesOwned
    BY DEF Inv, LifeInv, OneCountInv, IspWritesOwned
  <2> QED
    BY <2>1, <2>2, <2>3, InvAlways, PTL DEF Spec
<1> QED
  BY <1>1, <1>2 DEF OwnedMode

(***************************************************************************)
(* Copies are stable                                                       *)
(***************************************************************************)
(* How far the ISP can be ahead of the handler: a frame that has ended while     *)
(* the handler was on its way to PARA_LOAD has left that PARA_LOAD pending.      *)
PendingInv ==
  /\ save_pd /\ writing # NoBuf => load_pd
  /\ isr \in {"stat_first", "stat", "mark_first", "mark", "load"} =>
       /\ writing # NoBuf => load_pd
       /\ save_pd => load_pd /\ writing = NoBuf

(* When isp_stat_isr is to mark, the buffer it will mark ready is not written.   *)
LatchInv ==
  served /\ (save_pd \/ isr \in {"stat_first", "stat"}) /\ LoadSet # {} => writing \notin SaveSet

(* Before the first frame buffer 0 waits.                                       *)
FirstInv ==
  /\ in_use /\ ~started => state[0] = "LOAD_SET"
  /\ isr \in {"stat_first", "stat"} => served

(* A locked buffer holds statistics, is copied by the owner of ioctl_lock and is  *)
(* not the handler's.                                                        *)
LockedInv ==
  /\ \A u \in Users : pc[u] # "idle" => in_use
  /\ locked_buf # NoBuf =>
       /\ locked_buf \in InUse /\ state[locked_buf] = "READY" /\ locked_buf # active_buf
       /\ \E u \in Users : pc[u] = "copy" /\ ioctl_lock = u

(* CopyIsStable for every buffer with statistics, but for the one that the       *)
(* handler programs at this moment; buffers that do not count now are included.   *)
StableInv ==
  in_use => \A b \in Buffers \ abandoned :
    state[b] = "READY" /\ ~(isr = "check" /\ b = active_buf) => b \notin {save_addr, writing}

CopyInv == PendingInv /\ LatchInv /\ FirstInv /\ LockedInv /\ StableInv

LEMMA CopyInit == Init => CopyInv
<1> SUFFICES ASSUME Init PROVE CopyInv
  OBVIOUS
<1> QED
  BY DEF Init, CopyInv, PendingInv, LatchInv, FirstInv, LockedInv, StableInv

LEMMA NoBufIsNone ==
  NoBuf \notin InUse /\ Foreign \notin InUse /\ NoBuf \notin Buffers /\ Foreign \notin Buffers
  BY DEF NoBuf, Foreign, InUse, Buffers

LEMMA CopyHardware == ASSUME Inv, CopyInv, Hardware PROVE CopyInv'
<1> USE DEF Inv, CopyInv, statVars, bufVars, ownVars, flagVars, callVars, lifeVars
<1>1. CASE HwLoad
  <2> USE <1>1 DEF HwLoad
  <2>1. PendingInv'
    BY DEF PendingInv
  <2>2. LatchInv'
    <3>1. served /\ LoadSet # {} => save_addr \notin SaveSet
      BY DEF MarksInv, LoadSet, SaveSet
    <3> QED
      BY <3>1 DEF LatchInv, LoadSet, SaveSet, InUse
  <2>3. FirstInv' /\ LockedInv' /\ StableInv'
    BY DEF FirstInv, LockedInv, StableInv, InUse
  <2> QED
    BY <2>1, <2>2, <2>3
<1>2. CASE HwSave
  <2> USE <1>2 DEF HwSave, StillAbandoned
  <2>1. PendingInv'
    BY DEF PendingInv
  <2>2. LatchInv' /\ FirstInv' /\ LockedInv'
    BY NoBufIsNone DEF LatchInv, FirstInv, LockedInv, InUse, SaveSet, LoadSet
  <2>3. StableInv'
    BY NoBufIsNone DEF StableInv, InUse
  <2> QED
    BY <2>1, <2>2, <2>3
<1> QED
  BY <1>1, <1>2 DEF Hardware

LEMMA CopySubdev == ASSUME Inv, CopyInv, Subdev PROVE CopyInv'
<1> USE DEF Inv, CopyInv, statVars, bufVars, ownVars, flagVars, callVars, lifeVars, hwVars
<1>1. CASE SubdevInit
  <2> USE <1>1 DEF SubdevInit, InitFrame
  <2>1. writing = NoBuf /\ locked_buf = NoBuf
    BY DEF LifeInv, LockedInv
  <2>2. \A b \in Buffers : state'[b] = IF b = 0 THEN "LOAD_SET" ELSE state[b]
    BY DEF TypeOK, BufferTypes
  <2>3. PendingInv' /\ LatchInv' /\ FirstInv' /\ LockedInv'
    BY <2>1, <2>2, NoBufIsNone
    DEF PendingInv, LatchInv, FirstInv, LockedInv, InUse, LoadSet, SaveSet, Buffers
  <2>4. StableInv'
    BY <2>1, <2>2, NoBufIsNone, Indices DEF StableInv, InUse, TypeOK
  <2> QED
    BY <2>3, <2>4
<1>2. CASE SubdevExit
  BY <1>2 DEF SubdevExit, PendingInv, LatchInv, FirstInv, LockedInv, StableInv, InUse,
              LoadSet, SaveSet
<1>3. ASSUME NEW count \in Counts, SensorFps(count) PROVE CopyInv'
  <2>1. PendingInv' /\ LatchInv' /\ LockedInv' /\ StableInv'
    BY <1>3 DEF SensorFps, PendingInv, LatchInv, LockedInv, StableInv, InUse, LoadSet, SaveSet
  <2>2. FirstInv'
    BY <1>3 DEF SensorFps, FirstInv, LifeInv
  <2> QED
    BY <2>1, <2>2
<1>4. CASE StreamOn
  BY <1>4 DEF StreamOn, PendingInv, LatchInv, FirstInv, LockedInv, StableInv, InUse, LoadSet,
              SaveSet, LifeInv
<1>5. CASE StreamOff
  BY <1>5, NoBufIsNone DEF StreamOff, PendingInv, LatchInv, FirstInv, LockedInv, StableInv,
                           InUse, LoadSet, SaveSet
<1> QED
  BY <1>1, <1>2, <1>3, <1>4, <1>5 DEF Subdev

LEMMA CopySave ==
  ASSUME Inv, CopyInv, IsrTakesSave \/ IsrSaveWithoutLoad \/ IsrSaveMarks \/ IsrMark
  PROVE  CopyInv'
<1> USE DEF Inv, CopyInv, statVars, bufVars, ownVars, flagVars, callVars, lifeVars, hwVars
<1>1. CASE IsrTakesSave
  <2> USE <1>1 DEF IsrTakesSave, SaveFrame
  <2>1. PendingInv'
    BY DEF PendingInv
  <2>2. LatchInv' /\ FirstInv' /\ LockedInv'
    BY DEF LatchInv, FirstInv, LockedInv, InUse, LoadSet, SaveSet, LifeInv
  <2>3. StableInv'
    BY DEF StableInv, InUse
  <2> QED
    BY <2>1, <2>2, <2>3
<1>2. CASE IsrSaveWithoutLoad
  <2> USE <1>2 DEF IsrSaveWithoutLoad, StatIsr, SaveFrame
  <2>1. PendingInv'
    BY DEF PendingInv
  <2>2. LatchInv' /\ FirstInv' /\ LockedInv'
    BY DEF LatchInv, FirstInv, LockedInv, InUse, LoadSet, SaveSet
  <2>3. StableInv'
    BY DEF StableInv, InUse
  <2> QED
    BY <2>1, <2>2, <2>3
<1>3. CASE IsrSaveMarks
  <2> USE <1>3 DEF IsrSaveMarks, StatIsr, SaveFrame
  <2>1. \A b \in Buffers : state'[b] = Marked(b)
    OBVIOUS
  <2>2. InUse' = InUse /\ InUse \subseteq Buffers
    BY Indices DEF InUse, TypeOK
  <2>3. PendingInv'
    BY DEF PendingInv
  <2>4. LatchInv'
    BY <2>2, NoBufIsNone DEF LatchInv, PendingInv, SaveSet
  <2>5. FirstInv'
    BY DEF FirstInv, LifeInv
  <2>6. LockedInv'
    BY <2>1, <2>2, NoBufIsNone DEF LockedInv, Marked, LoadSet, SaveSet
  <2>7. StableInv'
    <3>1. save_addr \in LoadSet
      BY DEF FirstInv, MarksInv
    <3>2. SaveSet \cap {save_addr, writing} = {}
      BY <3>1 DEF FirstInv, LatchInv, LoadSet, SaveSet
    <3>3. \A b \in Buffers : state'[b] = "READY" => state[b] = "READY" \/ b \in SaveSet
      BY <2>1, <2>2 DEF Marked
    <3> QED
      BY <2>2, <3>2, <3>3 DEF StableInv
  <2> QED
    BY <2>3, <2>4, <2>5, <2>6, <2>7
<1>4. CASE IsrMark
  <2> USE <1>4 DEF IsrMark
  <2>1. PendingInv'
    BY DEF PendingInv
  <2>2. LatchInv' /\ FirstInv' /\ LockedInv'
    BY DEF LatchInv, FirstInv, LockedInv, InUse, LoadSet, SaveSet
  <2>3. StableInv'
    BY DEF StableInv, InUse
  <2> QED
    BY <2>1, <2>2, <2>3
<1> QED
  BY <1>1, <1>2, <1>3, <1>4

LEMMA CopyLoad ==
  ASSUME Inv, CopyInv,
         IsrLoadSkips \/ IsrChooses \/ IsrPrograms \/ IsrOvertaken \/ IsrLoadSets
  PROVE  CopyInv'
<1> USE DEF Inv, CopyInv, statVars, bufVars, ownVars, flagVars, callVars, lifeVars, hwVars,
            AtLoad, LoadFrame
<1>1. CASE IsrLoadSkips
  <2> USE <1>1 DEF IsrLoadSkips
  <2>1. PendingInv'
    BY DEF PendingInv
  <2>2. LatchInv' /\ FirstInv' /\ LockedInv'
    BY DEF LatchInv, FirstInv, LockedInv, InUse, LoadSet, SaveSet
  <2>3. StableInv'
    BY DEF StableInv, InUse
  <2> QED
    BY <2>1, <2>2, <2>3
<1>2. CASE IsrChooses
  <2> USE <1>2 DEF IsrChooses
  <2>1. PendingInv'
    BY DEF PendingInv
  <2>2. LatchInv' /\ FirstInv' /\ StableInv'
    BY DEF LatchInv, FirstInv, StableInv, InUse, LoadSet, SaveSet
  <2>3. LockedInv'
    BY DEF LockedInv, InUse, BufNext, FindsOldestOrEmpty, FindsOldest, Vacant, Ready
  <2> QED
    BY <2>1, <2>2, <2>3
<1>3. CASE IsrPrograms
  <2> USE <1>3 DEF IsrPrograms, StillAbandoned
  <2>1. PendingInv'
    BY DEF PendingInv
  <2>2. LatchInv' /\ FirstInv' /\ LockedInv'
    BY DEF LatchInv, FirstInv, LockedInv, InUse, LoadSet, SaveSet
  <2>3. StableInv'
    BY NoBufIsNone DEF StableInv, InUse
  <2> QED
    BY <2>1, <2>2, <2>3
<1>4. CASE IsrOvertaken
  <2> USE <1>4 DEF IsrOvertaken
  <2>1. PendingInv'
    BY DEF PendingInv
  <2>2. LatchInv' /\ FirstInv' /\ LockedInv'
    BY DEF LatchInv, FirstInv, LockedInv, InUse, LoadSet, SaveSet
  <2>3. StableInv'
    BY DEF StableInv, InUse
  <2> QED
    BY <2>1, <2>2, <2>3
<1>5. CASE IsrLoadSets
  <2> USE <1>5 DEF IsrLoadSets
  <2>1. \A b \in Buffers : state'[b] = IF b = active_buf THEN "LOAD_SET" ELSE state[b]
    BY DEF TypeOK, BufferTypes
  <2>2. InUse' = InUse /\ InUse \subseteq Buffers /\ 0 \in Buffers
    BY Indices DEF InUse, TypeOK
  <2>3. PendingInv'
    BY DEF PendingInv
  <2>4. LatchInv'
    BY <2>2, NoBufIsNone DEF LatchInv, PendingInv, SaveSet
  <2>5. FirstInv'
    BY <2>1, <2>2 DEF FirstInv
  <2>6. LockedInv'
    BY <2>1, <2>2 DEF LockedInv
  <2>7. StableInv'
    BY <2>1, <2>2 DEF StableInv
  <2> QED
    BY <2>3, <2>4, <2>5, <2>6, <2>7
<1> QED
  BY <1>1, <1>2, <1>3, <1>4, <1>5

LEMMA CopyFetch == ASSUME Inv, CopyInv, NEW u \in Readers, Fetch(u) PROVE CopyInv'
<1> USE DEF Inv, CopyInv, statVars, bufVars, ownVars, flagVars, callVars, lifeVars,
            RequestFrame, CallFrame, Users, Goto
<1>1. CASE Request(u) \/ RequestFindsNone(u)
  <2> USE <1>1 DEF Request, RequestFindsNone
  <2>1. PendingInv' /\ LatchInv' /\ FirstInv'
    BY DEF PendingInv, LatchInv, FirstInv, InUse, LoadSet, SaveSet
  <2>2. StableInv'
    BY DEF StableInv, InUse
  <2>3. LockedInv'
    BY DEF LockedInv, InUse, LifeInv, TypeOK, CallTypes
  <2> QED
    BY <2>1, <2>2, <2>3
<1>2. CASE RequestGets(u)
  <2> USE <1>2 DEF RequestGets
  <2>1. PendingInv' /\ LatchInv' /\ FirstInv'
    BY DEF PendingInv, LatchInv, FirstInv, InUse, LoadSet, SaveSet
  <2>2. StableInv'
    BY DEF StableInv, InUse
  <2>3. locked_buf' \in Ready
    BY DEF FindsOldest, Buffers, NoBuf
  <2>4. LockedInv'
    BY <2>3 DEF LockedInv, InUse, Ready, TypeOK, CallTypes
  <2> QED
    BY <2>1, <2>2, <2>4
<1>3. CASE RequestCopies(u) \/ RequestFails(u)
  <2> USE <1>3 DEF RequestCopies, RequestFails, Releases
  <2>1. \A b \in Buffers : state'[b] = IF b = locked_buf THEN "IDLE" ELSE state[b]
    BY DEF TypeOK, BufferTypes
  <2>2. InUse' = InUse /\ InUse \subseteq Buffers /\ 0 \in Buffers
    BY Indices DEF InUse, TypeOK
  <2>3. PendingInv'
    BY DEF PendingInv
  <2>4. LatchInv'
    BY <2>1, <2>2 DEF LatchInv, LoadSet, SaveSet
  <2>5. FirstInv'
    BY <2>1, <2>2, NoBufIsNone DEF FirstInv, LockedInv, NoBuf
  <2>6. LockedInv'
    BY DEF LockedInv, TypeOK, CallTypes
  <2>7. StableInv'
    BY <2>1, <2>2 DEF StableInv
  <2> QED
    BY <2>3, <2>4, <2>5, <2>6, <2>7
<1> QED
  BY <1>1, <1>2, <1>3 DEF Fetch

LEMMA CopyControl == ASSUME Inv, CopyInv, NEW u \in Controllers, Control(u) PROVE CopyInv'
<1> USE DEF Inv, CopyInv, statVars, bufVars, ownVars, flagVars, callVars, lifeVars,
            ConfigFrame, CallFrame, Users, Goto
<1>1. CASE Config(u)
  <2> USE <1>1 DEF Config
  <2>1. \A b \in Buffers : state'[b] = IF b \in Own THEN "IDLE" ELSE state[b]
    OBVIOUS
  <2>2. /\ InUse' = InUse /\ InUse \subseteq Buffers /\ Own \subseteq Buffers
        /\ 0 \in Buffers /\ 0 \notin Own
    BY Indices DEF InUse, TypeOK
  <2>3. PendingInv'
    BY DEF PendingInv
  <2>4. LatchInv'
    <3>1. \A b \in InUse' : b = 0 \/ state'[b] = "IDLE"
      BY <2>1, <2>2 DEF InUse, Own, TypeOK, StatTypes
    <3> QED
      BY <3>1 DEF LatchInv, LoadSet, SaveSet
  <2>5. FirstInv'
    BY <2>1, <2>2 DEF FirstInv, LifeInv
  <2>6. locked_buf = NoBuf
    BY StatAssumption DEF LockedInv
  <2>7. LockedInv'
    BY <2>6 DEF LockedInv, TypeOK, CallTypes
  <2>8. StableInv'
    BY <2>1, <2>2 DEF StableInv
  <2> QED
    BY <2>3, <2>4, <2>5, <2>7, <2>8
<1>2. CASE ConfigFrees(u)
  <2> USE <1>2 DEF ConfigFrees, FreeOwn
  <2>1. /\ save_addr' \in {save_addr, Foreign} /\ writing' \in {writing, Foreign}
        /\ writing' = NoBuf <=> writing = NoBuf
        /\ isr \notin {"program", "check"} /\ in_use
    BY DEF CallInv, HandlerInv, Own, NoBuf, Foreign
  <2>2. PendingInv'
    BY <2>1 DEF PendingInv
  <2>3. LatchInv' /\ FirstInv' /\ StableInv'
    BY <2>1, NoBufIsNone DEF LatchInv, FirstInv, StableInv, InUse, LoadSet, SaveSet
  <2>4. LockedInv'
    BY NoBufIsNone DEF LockedInv, InUse, TypeOK, CallTypes
  <2> QED
    BY <2>2, <2>3, <2>4
<1>3. CASE ConfigAllocs(u)
  <2> USE <1>3 DEF ConfigAllocs
  <2>1. in_use /\ ~served /\ isr \notin {"stat_first", "stat", "program", "check"}
    BY DEF CallInv, HandlerInv, FirstInv
  <2>2. 0 \in Buffers /\ state'[0] = state[0]
    BY Indices DEF TypeOK
  <2>3. locked_buf = NoBuf
    BY DEF LockedInv, CallInv, LockedSteps
  <2>4. \A b \in Buffers : state'[b] \in {state[b], "IDLE"}
    BY DEF TypeOK, BufferTypes
  <2>5. PendingInv'
    BY DEF PendingInv
  <2>6. LatchInv'
    <3>1. InUse' \subseteq Buffers /\ InUse' = 0 .. sensor_fps - 1
      BY StatAssumption DEF TypeOK, StatTypes, InUse, Buffers
    <3>2. ASSUME served', NEW b \in InUse', b # 0 PROVE state'[b] = "IDLE"
      <4>1. b \in Buffers /\ b \in 1 .. sensor_fps - 1
        BY <3>1, <3>2, StatAssumption DEF TypeOK, StatTypes
      <4> QED
        BY <2>1, <3>2, <4>1
    <3> QED
      BY <3>2 DEF LatchInv, LoadSet, SaveSet
  <2>7. StableInv'
    BY <2>1, <2>4 DEF StableInv
  <2>8. FirstInv'
    BY <2>1, <2>2 DEF FirstInv
  <2>9. LockedInv'
    BY <2>1, <2>3 DEF LockedInv, TypeOK, CallTypes
  <2> QED
    BY <2>5, <2>6, <2>7, <2>8, <2>9
<1>4. ASSUME NEW on \in BOOLEAN, Enable(u, on) PROVE CopyInv'
  <2> USE <1>4 DEF Enable, SlockFree
  <2>1. PendingInv'
    BY DEF PendingInv
  <2>2. LatchInv' /\ FirstInv' /\ StableInv'
    BY DEF LatchInv, FirstInv, StableInv, InUse, LoadSet, SaveSet
  <2>3. LockedInv'
    BY DEF LockedInv, InUse, BufNext, FindsOldestOrEmpty, FindsOldest, Vacant, Ready
  <2> QED
    BY <2>1, <2>2, <2>3
<1>5. CASE SetLoadReg(u)
  BY <1>5 DEF SetLoadReg, hwVars, PendingInv, LatchInv, FirstInv, LockedInv, StableInv,
              InUse, LoadSet, SaveSet
<1> QED
  BY <1>1, <1>2, <1>3, <1>4, <1>5 DEF Control

LEMMA CopyNext == Inv /\ CopyInv /\ [Next]_vars => CopyInv'
<1> SUFFICES ASSUME Inv, CopyInv, [Next]_vars PROVE CopyInv'
  OBVIOUS
<1>1. CASE Hardware
  BY <1>1, CopyHardware
<1>2. CASE Isr
  BY <1>2, CopySave, CopyLoad DEF Isr
<1>3. CASE Subdev
  BY <1>3, CopySubdev
<1>4. ASSUME NEW u \in Readers, Fetch(u) PROVE CopyInv'
  BY <1>4, CopyFetch
<1>5. ASSUME NEW u \in Controllers, Control(u) PROVE CopyInv'
  BY <1>5, CopyControl
<1>6. CASE UNCHANGED vars
  BY <1>6 DEF CopyInv, PendingInv, LatchInv, FirstInv, LockedInv, StableInv, InUse, LoadSet,
              SaveSet, vars, statVars, bufVars, ownVars, flagVars, callVars, lifeVars, hwVars
<1> QED
  BY <1>1, <1>2, <1>3, <1>4, <1>5, <1>6 DEF Next

(* What the application copies is not written meanwhile, however many threads ask *)
(* for statistics or configure, in every session and with every fault; only the    *)
(* buffer that a PARA_LOAD took from the handler is excepted.                    *)
THEOREM CopyAlwaysStable == Spec => []CopyIsStable
<1>1. Inv /\ CopyInv => CopyIsStable
  <2> SUFFICES ASSUME Inv, CopyInv, locked_buf # NoBuf, locked_buf \notin abandoned
               PROVE  locked_buf \notin {save_addr, writing}
    BY DEF CopyIsStable
  <2> QED
    BY Indices DEF Inv, TypeOK, CopyInv, LockedInv, StableInv
<1>2. Init => CopyInv
  BY CopyInit
<1>3. Inv /\ CopyInv /\ [Next]_vars => CopyInv'
  BY CopyNext
<1> QED
  BY <1>1, <1>2, <1>3, InvAlways, PTL DEF Spec

(***************************************************************************)
(* Statistics are whole                                                    *)
(***************************************************************************)
(* Buffers that the ISP has begun to write, or has written, since the handler     *)
(* chose them.                                                              *)
Reached == whole \cup {writing}

(* The buffer in SAVE_SET is the next to be latched or has been; it has been when *)
(* a PARA_LOAD is pending or the handler has chosen its successor, and it is      *)
(* whole when a PARA_SAVE is to mark it.                                       *)
SavedInv ==
  /\ streaming /\ served => \A b \in SaveSet : b = save_addr \/ b \in Reached
  /\ streaming /\ served /\ (LoadSet # {} \/ isr \in {"program", "check"}) =>
       SaveSet \subseteq Reached
  /\ load_pd /\ served => LoadSet \cup SaveSet \subseteq Reached
  /\ load_pd /\ ~served => 0 \in Reached
  /\ (save_pd \/ isr \in {"stat_first", "stat"}) /\ served /\ LoadSet # {} =>
       SaveSet \subseteq whole

(* A session starts with buffer 0 alone, which an ISP that streams before it is   *)
(* configured goes on using; after that the register names a buffer that counts.  *)
SessionInv ==
  /\ served /\ in_use /\ ~started => \A b \in Own : state[b] = "IDLE"
  /\ streaming /\ ~served => state[0] = "LOAD_SET"
  /\ streaming /\ served => save_addr \in InUse

(* ReadyIsWhole for every buffer, but for the one that the handler programs at    *)
(* this moment; buffers of a longer ring that is in use no more included.         *)
ReadyInv ==
  \A b \in Buffers \ abandoned :
    state[b] = "READY" /\ ~(isr = "check" /\ b = active_buf) => b \in whole

WholeInv == SavedInv /\ SessionInv /\ ReadyInv

LEMMA WholeInit == Init => WholeInv
<1> SUFFICES ASSUME Init PROVE WholeInv
  OBVIOUS
<1> QED
  BY DEF Init, WholeInv, SavedInv, SessionInv, ReadyInv

LEMMA WholeHardware == ASSUME Inv, CopyInv, WholeInv, Hardware PROVE WholeInv'
<1> USE DEF Inv, CopyInv, WholeInv, statVars, bufVars, ownVars, flagVars, callVars, lifeVars
<1>0. UNCHANGED <<InUse, Own, LoadSet, SaveSet>>
  BY DEF Hardware, HwLoad, HwSave, InUse, Own, LoadSet, SaveSet
<1>1. CASE HwLoad
  <2> USE <1>1 DEF HwLoad
  <2>1. SessionInv'
    BY <1>0 DEF SessionInv
  <2>2. ~served => save_addr = 0
    BY DEF SessionInv, MarksInv
  <2>3. served => LoadSet \subseteq {save_addr} /\ LoadSet \cap SaveSet = {}
    BY DEF MarksInv, LoadSet, SaveSet
  <2>4. NoBuf \notin SaveSet
    BY NoBufIsNone DEF SaveSet
  <2>5. SavedInv'
    BY <1>0, <2>2, <2>3, <2>4 DEF SavedInv, Reached
  <2>6. ReadyInv'
    <3>1. in_use
      BY DEF LifeInv
    <3>2. \A b \in Buffers \ abandoned :
            state[b] = "READY" /\ ~(isr = "check" /\ b = active_buf) => b # save_addr
      BY <2>2, <3>1 DEF SessionInv, StableInv
    <3> QED
      BY <3>2 DEF ReadyInv
  <2> QED
    BY <2>1, <2>5, <2>6
<1>2. CASE HwSave
  <2> USE <1>2 DEF HwSave, StillAbandoned
  <2>1. SessionInv'
    BY <1>0 DEF SessionInv
  <2>2. NoBuf \notin SaveSet \cup LoadSet /\ Foreign \notin SaveSet \cup LoadSet
    BY NoBufIsNone DEF SaveSet, LoadSet
  <2>3. whole' \cup {NoBuf, Foreign} = Reached \cup {NoBuf, Foreign} /\ 0 # Foreign
    BY DEF Reached, Foreign
  <2>4. SavedInv'
    BY <1>0, <2>2, <2>3 DEF SavedInv, Reached
  <2>5. ReadyInv'
    <3>1. Foreign \notin Buffers
      BY DEF Foreign, Buffers
    <3> QED
      BY <3>1 DEF ReadyInv
  <2> QED
    BY <2>1, <2>4, <2>5
<1> QED
  BY <1>1, <1>2 DEF Hardware

LEMMA WholeSubdev ==
  ASSUME "restart" \notin Faults, Inv, CopyInv, WholeInv, Subdev
  PROVE  WholeInv'
<1> USE DEF Inv, CopyInv, WholeInv, statVars, bufVars, ownVars, flagVars, callVars, lifeVars,
            hwVars
<1>1. CASE SubdevInit
  <2> USE <1>1 DEF SubdevInit, InitFrame
  <2>1. ~streaming /\ ~load_pd /\ ~save_pd
    BY DEF LifeInv
  <2>2. SavedInv' /\ SessionInv'
    BY <2>1 DEF SavedInv, SessionInv
  <2>3. \A b \in Buffers : state'[b] = IF b = 0 THEN "LOAD_SET" ELSE state[b]
    BY DEF TypeOK, BufferTypes
  <2>4. ReadyInv'
    BY <2>3 DEF ReadyInv
  <2> QED
    BY <2>2, <2>4
<1>2. CASE SubdevExit
  <2>1. UNCHANGED <<InUse, Own, LoadSet, SaveSet, Reached>>
    BY <1>2 DEF SubdevExit, InUse, Own, LoadSet, SaveSet, Reached
  <2> QED
    BY <1>2, <2>1 DEF SubdevExit, SavedInv, SessionInv, ReadyInv
<1>3. ASSUME NEW count \in Counts, SensorFps(count) PROVE WholeInv'
  <2> USE <1>3 DEF SensorFps
  <2>1. ~streaming /\ ~load_pd /\ ~save_pd /\ isr = "idle"
    BY DEF LifeInv
  <2>2. SavedInv' /\ SessionInv'
    BY <2>1 DEF SavedInv, SessionInv
  <2>3. ReadyInv'
    BY DEF ReadyInv
  <2> QED
    BY <2>2, <2>3
<1>4. CASE StreamOn
  <2> USE <1>4 DEF StreamOn
  <2>1. served => SaveSet = {}
    <3>1. InUse \subseteq Own \cup {0}
      BY DEF InUse, Own, TypeOK, StatTypes
    <3> QED
      BY <3>1 DEF SessionInv, FirstInv, SaveSet
  <2>2. UNCHANGED <<InUse, Own, LoadSet, SaveSet, Reached>>
    BY DEF InUse, Own, LoadSet, SaveSet, Reached
  <2>3. SavedInv'
    BY <2>1, <2>2 DEF SavedInv
  <2>4. SessionInv'
    <3>1. served => 0 \in InUse
      BY StatAssumption DEF MemoryInv, InUse, TypeOK, StatTypes
    <3>2. state[0] = "LOAD_SET" /\ save_addr = 0
      BY DEF FirstInv, LifeInv
    <3> QED
      BY <2>2, <3>1, <3>2 DEF SessionInv
  <2>5. ReadyInv'
    BY DEF ReadyInv
  <2> QED
    BY <2>3, <2>4, <2>5
<1>5. CASE StreamOff
  <2> USE <1>5 DEF StreamOff
  <2>1. UNCHANGED <<InUse, Own, LoadSet, SaveSet>>
    BY DEF InUse, Own, LoadSet, SaveSet
  <2>2. SavedInv'
    BY <2>1 DEF SavedInv
  <2>3. SessionInv' /\ ReadyInv'
    BY <2>1 DEF SessionInv, ReadyInv
  <2> QED
    BY <2>2, <2>3
<1> QED
  BY <1>1, <1>2, <1>3, <1>4, <1>5 DEF Subdev

LEMMA WholeSave ==
  ASSUME Inv, CopyInv, WholeInv,
         IsrTakesSave \/ IsrSaveWithoutLoad \/ IsrSaveMarks \/ IsrMark
  PROVE  WholeInv'
<1> USE DEF Inv, CopyInv, WholeInv, statVars, bufVars, ownVars, flagVars, callVars, lifeVars,
            hwVars
<1>1. CASE IsrTakesSave \/ IsrSaveWithoutLoad \/ IsrMark
  <2> USE <1>1 DEF IsrTakesSave, IsrSaveWithoutLoad, IsrMark, StatIsr, SaveFrame
  <2>1. UNCHANGED <<InUse, Own, LoadSet, SaveSet, Reached>>
    BY DEF InUse, Own, LoadSet, SaveSet, Reached
  <2>2. SavedInv'
    BY <2>1 DEF SavedInv
  <2>3. SessionInv'
    BY <2>1 DEF SessionInv
  <2>4. ReadyInv'
    BY DEF ReadyInv
  <2> QED
    BY <2>2, <2>3, <2>4
<1>2. CASE IsrSaveMarks
  <2> USE <1>2 DEF IsrSaveMarks, StatIsr, SaveFrame
  <2>1. \A b \in Buffers : state'[b] = Marked(b)
    OBVIOUS
  <2>2. UNCHANGED <<InUse, Own, Reached>> /\ InUse \subseteq Buffers /\ Own \subseteq Buffers
    BY Indices DEF InUse, Own, TypeOK, Reached
  <2>3. served /\ LoadSet \subseteq {save_addr} /\ LoadSet \cap SaveSet = {}
    BY DEF FirstInv, MarksInv, LoadSet, SaveSet
  <2>4. LoadSet' = {} /\ SaveSet' = LoadSet
    BY <2>1, <2>2 DEF LoadSet, SaveSet, Marked
  <2>5. SavedInv'
    BY <2>2, <2>3, <2>4 DEF SavedInv
  <2>6. SessionInv'
    BY <2>2, <2>3 DEF SessionInv, LifeInv
  <2>7. ReadyInv'
    <3>1. SaveSet \subseteq whole
      BY <2>3 DEF SavedInv
    <3>2. \A b \in Buffers : state'[b] = "READY" => state[b] = "READY" \/ b \in SaveSet
      BY <2>1 DEF Marked
    <3> QED
      BY <3>1, <3>2 DEF ReadyInv
  <2> QED
    BY <2>5, <2>6, <2>7
<1> QED
  BY <1>1, <1>2

LEMMA WholeLoad ==
  ASSUME Inv, CopyInv, WholeInv,
         IsrLoadSkips \/ IsrChooses \/ IsrPrograms \/ IsrOvertaken \/ IsrLoadSets
  PROVE  WholeInv'
<1> USE DEF Inv, CopyInv, WholeInv, statVars, bufVars, ownVars, flagVars, callVars, lifeVars,
            AtLoad, LoadFrame
<1>1. CASE IsrLoadSkips \/ IsrChooses \/ IsrOvertaken
  <2> USE <1>1 DEF IsrLoadSkips, IsrChooses, IsrOvertaken
  <2>1. UNCHANGED <<InUse, Own, LoadSet, SaveSet, Reached>>
    BY DEF InUse, Own, LoadSet, SaveSet, Reached
  <2>2. SavedInv'
    BY <2>1 DEF SavedInv, LifeInv, HandlerInv
  <2>3. SessionInv'
    BY <2>1 DEF SessionInv, LifeInv
  <2>4. ReadyInv'
    BY DEF ReadyInv
  <2> QED
    BY <2>2, <2>3, <2>4
<1>2. CASE IsrPrograms
  <2> USE <1>2 DEF IsrPrograms, StillAbandoned
  <2>1. UNCHANGED <<InUse, Own, LoadSet, SaveSet, Reached>>
    BY DEF InUse, Own, LoadSet, SaveSet, Reached
  <2>2. served /\ LoadSet = {} /\ active_buf \in InUse
    BY DEF HandlerInv, LifeInv
  <2>3. save_addr' = active_buf
    BY <2>2 DEF MemoryInv, LifeInv, HandlerInv, InUse, Own, TypeOK, StatTypes
  <2>4. SavedInv'
    BY <2>1, <2>2 DEF SavedInv
  <2>5. SessionInv'
    BY <2>1, <2>2, <2>3 DEF SessionInv, LifeInv
  <2>6. ReadyInv'
    BY DEF ReadyInv
  <2> QED
    BY <2>4, <2>5, <2>6
<1>3. CASE IsrLoadSets
  <2> USE <1>3 DEF IsrLoadSets
  <2>1. \A b \in Buffers : state'[b] = IF b = active_buf THEN "LOAD_SET" ELSE state[b]
    BY DEF TypeOK, BufferTypes
  <2>2. UNCHANGED <<InUse, Own>> /\ InUse \subseteq Buffers
    BY Indices DEF InUse, Own, TypeOK
  <2>3. served
    BY DEF HandlerInv, LifeInv
  <2>4. SaveSet' \subseteq SaveSet \ {active_buf}
    BY <2>1, <2>2 DEF SaveSet
  <2>5. save_pd => streaming /\ writing = NoBuf
    BY DEF PendingInv, LifeInv
  <2>6. NoBuf \notin SaveSet
    BY NoBufIsNone DEF SaveSet
  <2>7. SavedInv'
    BY <2>3, <2>4, <2>5, <2>6 DEF SavedInv, Reached
  <2>8. SessionInv'
    BY <2>2 DEF SessionInv, LifeInv
  <2>9. ReadyInv'
    BY <2>1 DEF ReadyInv
  <2> QED
    BY <2>7, <2>8, <2>9
<1> QED
  BY <1>1, <1>2, <1>3

LEMMA WholeFetch ==
  ASSUME Inv, CopyInv, WholeInv, NEW u \in Readers, Fetch(u)
  PROVE  WholeInv'
<1> USE DEF Inv, CopyInv, WholeInv, statVars, bufVars, ownVars, flagVars, callVars, lifeVars,
            RequestFrame, CallFrame
<1>1. CASE Request(u) \/ RequestFindsNone(u) \/ RequestGets(u)
  <2> USE <1>1 DEF Request, RequestFindsNone, RequestGets
  <2>1. UNCHANGED <<InUse, Own, LoadSet, SaveSet, Reached>>
    BY DEF InUse, Own, LoadSet, SaveSet, Reached
  <2>2. SavedInv'
    BY <2>1 DEF SavedInv
  <2>3. SessionInv' /\ ReadyInv'
    BY <2>1 DEF SessionInv, ReadyInv
  <2> QED
    BY <2>2, <2>3
<1>2. CASE RequestCopies(u) \/ RequestFails(u)
  <2> USE <1>2 DEF RequestCopies, RequestFails, Releases
  <2>1. \A b \in Buffers : state'[b] = IF b = locked_buf THEN "IDLE" ELSE state[b]
    BY DEF TypeOK, BufferTypes
  <2>2. UNCHANGED <<InUse, Own>> /\ InUse \subseteq Buffers /\ Own \subseteq Buffers
    BY Indices DEF InUse, Own, TypeOK
  <2>3. locked_buf # NoBuf => state[locked_buf] = "READY"
    BY DEF LockedInv
  <2>4. LoadSet' = LoadSet /\ SaveSet' = SaveSet /\ locked_buf \notin LoadSet \cup SaveSet
    BY <2>1, <2>2, <2>3, NoBufIsNone DEF LoadSet, SaveSet
  <2>5. streaming /\ ~served => locked_buf # 0
    BY <2>3 DEF SessionInv, NoBuf
  <2>6. SavedInv'
    BY <2>4, <2>5 DEF SavedInv, Reached, LifeInv
  <2>7. SessionInv'
    BY <2>1, <2>2, <2>5 DEF SessionInv, TypeOK, Buffers
  <2>8. ReadyInv'
    BY <2>1 DEF ReadyInv
  <2> QED
    BY <2>6, <2>7, <2>8
<1> QED
  BY <1>1, <1>2 DEF Fetch

LEMMA WholeControl ==
  ASSUME Inv, CopyInv, OneStreamInv, WholeInv, NEW u \in Controllers, Control(u)
  PROVE  WholeInv'
<1> USE DEF Inv, CopyInv, WholeInv, statVars, bufVars, ownVars, flagVars, callVars, lifeVars,
            ConfigFrame, CallFrame, Users
<1>1. CASE Config(u)
  <2> USE <1>1 DEF Config
  <2>1. \A b \in Buffers : state'[b] = IF b \in Own THEN "IDLE" ELSE state[b]
    OBVIOUS
  <2>2. /\ UNCHANGED <<InUse, Own>> /\ InUse \subseteq Buffers /\ Own \subseteq Buffers
        /\ 0 \in Buffers /\ 0 \notin Own /\ InUse \subseteq Own \cup {0}
    BY Indices DEF InUse, Own, TypeOK, StatTypes
  <2>3. LoadSet' = LoadSet \ Own /\ SaveSet' = SaveSet \ Own
    BY <2>1, <2>2 DEF LoadSet, SaveSet
  <2>4. streaming /\ ~served => SaveSet' = {} /\ LoadSet' \subseteq {0} /\ save_addr = 0
    BY <2>2, <2>3 DEF SessionInv, MarksInv, SaveSet, LoadSet
  <2>5. Reached \ Own \subseteq Reached'
    BY DEF Reached
  <2>6. SavedInv'
    <3>1. CASE served
      <4>1. served' = TRUE
        BY <3>1 DEF MemoryInv
      <4> QED
        BY <2>3, <2>5, <3>1, <4>1 DEF SavedInv, SlockFree
    <3>2. CASE ~served
      BY <2>2, <2>4, <2>5, <3>2 DEF SavedInv, LifeInv, FirstInv
    <3> QED
      BY <3>1, <3>2
  <2>7. SessionInv'
    <3>1. ~served /\ served' => buf_cnt = sensor_fps
      OBVIOUS
    <3>2. sensor_fps \in 3 .. 6
      BY StatAssumption DEF TypeOK, StatTypes
    <3>3. ~served /\ served' => 0 \in InUse
      BY <3>1, <3>2 DEF InUse
    <3> QED
      BY <2>1, <2>2, <2>4, <3>3 DEF SessionInv
  <2>8. ReadyInv'
    BY <2>1 DEF ReadyInv
  <2> QED
    BY <2>6, <2>7, <2>8
<1>2. CASE ConfigFrees(u)
  <2> USE <1>2 DEF ConfigFrees, FreeOwn
  <2>1. /\ writing' = writing /\ isr \notin {"program", "check"} /\ ~served /\ ~served'
    BY DEF CallInv, LifeInv, HandlerInv, OneStreamInv, Own, NoBuf
  <2>2. SavedInv'
    BY <2>1 DEF SavedInv, Reached, FirstInv
  <2>3. SessionInv' /\ ReadyInv'
    BY <2>1 DEF SessionInv, ReadyInv
  <2> QED
    BY <2>2, <2>3
<1>3. CASE ConfigAllocs(u)
  <2> USE <1>3 DEF ConfigAllocs
  <2>1. /\ in_use /\ ~served /\ isr \notin {"program", "check"}
        /\ streaming => save_addr = 0 /\ state[0] = "LOAD_SET"
    BY DEF CallInv, LifeInv, HandlerInv, SessionInv, MarksInv
  <2>2. state'[0] = state[0]
    BY <2>1, Indices DEF TypeOK, BufferTypes, StatTypes, Buffers
  <2>3. served' => \A b \in InUse' : b = 0 \/ state'[b] = "IDLE"
    <3>1. sensor_fps \in 3 .. 6 /\ buf_cnt' = sensor_fps
      BY StatAssumption DEF TypeOK, StatTypes
    <3>2. InUse' \subseteq Buffers /\ \A b \in InUse' : b = 0 \/ b \in 1 .. sensor_fps - 1
      BY <3>1 DEF InUse, Buffers
    <3> QED
      BY <2>1, <3>2
  <2>4. streaming /\ served' => SaveSet' = {} /\ LoadSet' \subseteq {0}
    BY <2>1, <2>2, <2>3 DEF SaveSet, LoadSet
  <2>5. SavedInv'
    BY <2>1, <2>4 DEF SavedInv, Reached, LifeInv, FirstInv
  <2>6. SessionInv'
    <3>1. 0 \in InUse' /\ Own' \subseteq InUse' /\ 0 \notin Own'
      BY StatAssumption DEF TypeOK, StatTypes, InUse, Own
    <3> QED
      BY <2>1, <2>2, <2>3, <3>1 DEF SessionInv
  <2>7. ReadyInv'
    <3>1. \A b \in Buffers : state'[b] \in {state[b], "IDLE"}
      OBVIOUS
    <3> QED
      BY <2>1, <3>1 DEF ReadyInv
  <2> QED
    BY <2>5, <2>6, <2>7
<1>4. ASSUME NEW on \in BOOLEAN, Enable(u, on) PROVE WholeInv'
  <2> USE <1>4 DEF Enable, SlockFree
  <2>1. UNCHANGED <<InUse, Own, LoadSet, SaveSet, Reached>>
    BY DEF InUse, Own, LoadSet, SaveSet, Reached
  <2>2. SavedInv'
    BY <2>1 DEF SavedInv
  <2>3. SessionInv' /\ ReadyInv'
    BY <2>1 DEF SessionInv, ReadyInv
  <2> QED
    BY <2>2, <2>3
<1>5. CASE SetLoadReg(u)
  <2>1. UNCHANGED <<InUse, Own, LoadSet, SaveSet, Reached>>
    BY <1>5 DEF SetLoadReg, InUse, Own, LoadSet, SaveSet, Reached, hwVars
  <2> QED
    BY <1>5, <2>1 DEF SetLoadReg, SavedInv, SessionInv, ReadyInv, hwVars
<1> QED
  BY <1>1, <1>2, <1>3, <1>4, <1>5 DEF Control

LEMMA WholeNext ==
  ASSUME "restart" \notin Faults
  PROVE  Inv /\ CopyInv /\ OneStreamInv /\ WholeInv /\ [Next]_vars => WholeInv'
<1> SUFFICES ASSUME Inv, CopyInv, OneStreamInv, WholeInv, [Next]_vars PROVE WholeInv'
  OBVIOUS
<1>1. CASE Hardware
  BY <1>1, WholeHardware
<1>2. CASE Isr
  BY <1>2, WholeSave, WholeLoad DEF Isr
<1>3. CASE Subdev
  BY <1>3, WholeSubdev
<1>4. ASSUME NEW u \in Readers, Fetch(u) PROVE WholeInv'
  BY <1>4, WholeFetch
<1>5. ASSUME NEW u \in Controllers, Control(u) PROVE WholeInv'
  BY <1>5, WholeControl
<1>6. CASE UNCHANGED vars
  <2> USE <1>6 DEF vars, statVars, bufVars, ownVars, flagVars, callVars, lifeVars, hwVars
  <2>1. UNCHANGED <<InUse, Own, LoadSet, SaveSet, Reached>>
    BY DEF InUse, Own, LoadSet, SaveSet, Reached
  <2> QED
    BY <2>1 DEF WholeInv, SavedInv, SessionInv, ReadyInv
<1> QED
  BY <1>1, <1>2, <1>3, <1>4, <1>5, <1>6 DEF Next

(* What the application is given is one whole frame, written after the handler     *)
(* chose the buffer, for any number of threads and buffers and with handlers that   *)
(* are overtaken, as long as the ISP is opened anew before it streams again.       *)
THEOREM ReadyAlwaysWhole ==
  ASSUME "restart" \notin Faults
  PROVE  Spec => []ReadyIsWhole
<1>1. Inv /\ CopyInv /\ WholeInv => ReadyIsWhole
  BY Indices DEF Inv, TypeOK, WholeInv, ReadyInv, ReadyIsWhole
<1>2. Init => CopyInv /\ WholeInv
  BY CopyInit, WholeInit
<1>3. Inv /\ CopyInv /\ OneStreamInv /\ WholeInv /\ [Next]_vars => CopyInv' /\ WholeInv'
  BY CopyNext, WholeNext
<1> QED
  BY <1>1, <1>2, <1>3, InvAlways, OneStreamAlways, PTL DEF Spec

(***************************************************************************)
(* There is a buffer for the next frame                                    *)
(***************************************************************************)
(* The flag and the state of a buffer agree: what is idle is empty, and what has   *)
(* statistics is not.  A copy that fails breaks this.                          *)
EmptyInv ==
  \A b \in Buffers : (IF b = 0 THEN in_use ELSE served /\ b \in InUse) =>
    /\ state[b] = "IDLE" => empty[b]
    /\ state[b] = "READY" => ~empty[b]

LEMMA EmptyNext ==
  ASSUME "copy" \notin Faults
  PROVE  Inv /\ CopyInv /\ EmptyInv /\ [Next]_vars => EmptyInv'
<1> SUFFICES ASSUME Inv, CopyInv, EmptyInv, [Next]_vars PROVE EmptyInv'
  OBVIOUS
<1> USE DEF Inv, CopyInv, statVars, bufVars, ownVars, flagVars, callVars, lifeVars, hwVars
<1>1. CASE Hardware
  BY <1>1 DEF Hardware, HwLoad, HwSave, EmptyInv, InUse
<1>2. CASE IsrTakesSave \/ IsrSaveWithoutLoad \/ IsrMark
  BY <1>2 DEF IsrTakesSave, IsrSaveWithoutLoad, IsrMark, StatIsr, SaveFrame, EmptyInv, InUse
<1>3. CASE IsrSaveMarks
  <2>1. \A b \in Buffers : /\ state'[b] = Marked(b)
                           /\ (empty'[b] <=> empty[b] /\ b \notin SaveSet)
    BY <1>3 DEF IsrSaveMarks
  <2>2. UNCHANGED <<InUse, served, in_use>>
    BY <1>3 DEF IsrSaveMarks, SaveFrame, StatIsr, InUse
  <2> QED
    BY <2>1, <2>2 DEF EmptyInv, Marked, LoadSet, SaveSet
<1>4. CASE IsrLoadSkips \/ IsrChooses \/ IsrPrograms \/ IsrOvertaken
  BY <1>4 DEF IsrLoadSkips, IsrChooses, IsrPrograms, IsrOvertaken, LoadFrame, EmptyInv, InUse
<1>5. CASE IsrLoadSets
  <2>1. \A b \in Buffers : state'[b] = "LOAD_SET" \/ state'[b] = state[b]
    BY <1>5 DEF IsrLoadSets, TypeOK, BufferTypes
  <2>2. UNCHANGED <<InUse, served, in_use, empty>>
    BY <1>5 DEF IsrLoadSets, InUse
  <2> QED
    BY <2>1, <2>2 DEF EmptyInv
<1>6. CASE Subdev
  BY <1>6 DEF Subdev, SubdevInit, InitFrame, SubdevExit, SensorFps, StreamOn, StreamOff,
              EmptyInv, InUse, TypeOK, BufferTypes
<1>7. ASSUME NEW u \in Readers, Fetch(u) PROVE EmptyInv'
  <2>1. CASE Request(u) \/ RequestFindsNone(u) \/ RequestGets(u)
    BY <2>1 DEF Request, RequestFindsNone, RequestGets, RequestFrame, CallFrame, EmptyInv,
                InUse
  <2>2. CASE RequestCopies(u)
    <3>1. \A b \in Buffers :
            \/ b = locked_buf /\ state'[b] = "IDLE" /\ empty'[b] = TRUE
            \/ state'[b] = state[b] /\ empty'[b] = empty[b]
      BY <2>2 DEF RequestCopies, Releases, TypeOK, BufferTypes
    <3>2. UNCHANGED <<InUse, served, in_use>>
      BY <2>2 DEF RequestCopies, Releases, RequestFrame, CallFrame, InUse
    <3> QED
      BY <3>1, <3>2 DEF EmptyInv
  <2> QED
    BY <1>7, <2>1, <2>2 DEF Fetch, RequestFails
<1>8. ASSUME NEW u \in Controllers, Control(u) PROVE EmptyInv'
  <2>1. CASE Config(u)
    <3>1. \A b \in Buffers : \/ state'[b] = "IDLE" /\ empty'[b] = TRUE
                             \/ b \notin Own /\ state'[b] = state[b] /\ empty'[b] = empty[b]
      BY <2>1 DEF Config, TypeOK, BufferTypes
    <3>2. UNCHANGED <<InUse, in_use>> /\ InUse \subseteq Own \cup {0}
      BY <2>1 DEF Config, ConfigFrame, InUse, Own, TypeOK, StatTypes
    <3> QED
      BY <3>1, <3>2 DEF EmptyInv
  <2>2. CASE ConfigFrees(u)
    <3>1. ~served' /\ UNCHANGED <<in_use, state>>
      BY <2>2 DEF ConfigFrees, ConfigFrame, CallInv, Users
    <3>2. 0 \notin Own
      BY DEF Own, TypeOK, StatTypes
    <3>3. empty'[0] = empty[0]
      BY <2>2, <3>2 DEF ConfigFrees, FreeOwn, TypeOK, BufferTypes, Buffers
    <3> QED
      BY <3>1, <3>3 DEF EmptyInv
  <2>3. CASE ConfigAllocs(u)
    <3>1. ~served /\ UNCHANGED in_use
      BY <2>3 DEF ConfigAllocs, ConfigFrame, CallInv, Users
    <3>2. sensor_fps \in 3 .. 6 /\ buf_cnt' = sensor_fps
      BY <2>3, StatAssumption DEF ConfigAllocs, TypeOK, StatTypes
    <3>3. 0 \in Buffers /\ 0 \notin 1 .. sensor_fps - 1
      BY <3>2 DEF Buffers
    <3>4. state'[0] = state[0] /\ empty'[0] = empty[0]
      BY <2>3, <3>2, <3>3 DEF ConfigAllocs, TypeOK, BufferTypes
    <3>5. \A b \in Buffers \cap InUse' : b = 0 \/ b \in 1 .. sensor_fps - 1
      BY <3>2 DEF InUse, Buffers
    <3>6. served' => \A b \in Buffers \cap (1 .. sensor_fps - 1) :
                       state'[b] = "IDLE" /\ empty'[b]
      BY <2>3, <3>1 DEF ConfigAllocs
    <3> QED
      BY <3>1, <3>4, <3>5, <3>6 DEF EmptyInv
  <2>4. ASSUME NEW on \in BOOLEAN, Enable(u, on) PROVE EmptyInv'
    BY <2>4 DEF Enable, CallFrame, EmptyInv, InUse
  <2>5. CASE SetLoadReg(u)
    BY <2>5 DEF SetLoadReg, EmptyInv, InUse
  <2> QED
    BY <1>8, <2>1, <2>2, <2>3, <2>4, <2>5 DEF Control
<1>9. CASE UNCHANGED vars
  BY <1>9 DEF vars, EmptyInv, InUse
<1> QED
  BY <1>1, <1>2, <1>3, <1>4, <1>5, <1>6, <1>7, <1>8, <1>9 DEF Next, Isr

(* A set of buffers has a first one.                                         *)
LEMMA FirstBuffer ==
  ASSUME NEW S, S \subseteq Buffers, S # {}
  PROVE  \E b \in S : \A c \in S : b <= c
<1>1. CASE 0 \in S
  BY <1>1 DEF Buffers
<1>2. CASE 0 \notin S /\ 1 \in S
  BY <1>2 DEF Buffers
<1>3. CASE 0 \notin S /\ 1 \notin S /\ 2 \in S
  BY <1>3 DEF Buffers
<1>4. CASE S \cap {0, 1, 2} = {} /\ 3 \in S
  BY <1>4 DEF Buffers
<1>5. CASE S \cap {0, 1, 2, 3} = {} /\ 4 \in S
  BY <1>5 DEF Buffers
<1>6. CASE S \cap {0, 1, 2, 3, 4} = {}
  <2>1. \A c \in S : c = 5
    BY <1>6 DEF Buffers
  <2> QED
    BY <2>1
<1> QED
  BY <1>1, <1>2, <1>3, <1>4, <1>5, <1>6

(* Of three buffers or more, one is neither copied nor in SAVE_SET when none is in *)
(* LOAD_SET: it is empty or has statistics that may be overwritten.             *)
LEMMA BufferLeft == ASSUME Inv, CopyInv, EmptyInv PROVE BufferFound
<1> SUFFICES ASSUME enabled, LoadSet = {}, active_buf = NoBuf
             PROVE  \E b \in Buffers : FindsOldestOrEmpty(b)
  BY DEF BufferFound
<1>1. served
  BY DEF Inv, LifeInv
<1>2. buf_cnt \in 3 .. 6
  BY <1>1, StatAssumption DEF Inv, MemoryInv, TypeOK, StatTypes
<1>3. {0, 1, 2} \subseteq InUse
  BY <1>2 DEF InUse
<1>4. \A b, c \in SaveSet : b = c
  BY <1>1 DEF Inv, MarksInv
<1>5. locked_buf \notin SaveSet
  BY NoBufIsNone DEF CopyInv, LockedInv, SaveSet
<1>6. PICK b \in InUse : b # locked_buf /\ b \notin SaveSet
  BY <1>3, <1>4
<1>7. b # active_buf /\ b \in Buffers
  BY NoBufIsNone, Indices DEF Inv, TypeOK
<1>8. state[b] = "IDLE" \/ state[b] = "READY"
  BY <1>6, <1>7 DEF Inv, TypeOK, BufferTypes, States, LoadSet, SaveSet
<1>9. b \in Vacant \cup Ready
  BY <1>1, <1>6, <1>7, <1>8 DEF EmptyInv, Vacant, Ready, Inv, LifeInv
<1>10. Vacant \subseteq Buffers /\ Ready \subseteq Buffers
  BY Indices DEF Inv, TypeOK, Vacant, Ready
<1>11. CASE Vacant # {}
  <2>1. PICK v \in Vacant : \A c \in Vacant : v <= c
    BY <1>10, <1>11, FirstBuffer
  <2> QED
    BY <1>10, <1>11, <2>1 DEF FindsOldestOrEmpty
<1>12. CASE Vacant = {}
  BY <1>9, <1>10, <1>12 DEF FindsOldestOrEmpty, FindsOldest
<1> QED
  BY <1>11, <1>12

(* The search never comes back empty-handed, for any number of buffers and however  *)
(* many threads fetch statistics, as long as no copy to the application fails.      *)
THEOREM BufferAlwaysFound ==
  ASSUME "copy" \notin Faults
  PROVE  Spec => []BufferFound
<1>1. Inv /\ CopyInv /\ EmptyInv => BufferFound
  BY BufferLeft
<1>2. Init => CopyInv /\ EmptyInv
  BY CopyInit DEF Init, EmptyInv
<1>3. Inv /\ CopyInv /\ EmptyInv /\ [Next]_vars => CopyInv' /\ EmptyInv'
  BY CopyNext, EmptyNext
<1> QED
  BY <1>1, <1>2, <1>3, InvAlways, PTL DEF Spec

(***************************************************************************)
(* The statistics buffers implement StatPool                                *)
(***************************************************************************)
(* A handler finds a new PARA_LOAD only when it has been overtaken.            *)
OvertakeInv == isr \in {"program", "check"} /\ load_pd => "overtake" \in Faults

LEMMA OvertakeNext == OvertakeInv /\ [Next]_vars => OvertakeInv'
<1> SUFFICES ASSUME OvertakeInv, [Next]_vars PROVE OvertakeInv'
  OBVIOUS
<1> USE DEF OvertakeInv, lifeVars, hwVars
<1>1. CASE Hardware
  BY <1>1 DEF Hardware, HwLoad, HwSave, SlockFree
<1>2. CASE Subdev
  BY <1>2 DEF Subdev, SubdevInit, InitFrame, SubdevExit, SensorFps, StreamOn, StreamOff
<1>3. CASE Isr
  BY <1>3 DEF Isr, IsrTakesSave, IsrSaveWithoutLoad, IsrSaveMarks, IsrMark, IsrLoadSkips, IsrChooses,
     IsrPrograms, IsrOvertaken, IsrLoadSets, StatIsr, SaveFrame, LoadFrame
<1>4. ASSUME NEW u \in Users, Fetch(u) \/ Control(u) PROVE OvertakeInv'
  BY <1>4 DEF Fetch, Control, Request, RequestFindsNone, RequestGets, RequestCopies, RequestFails,
     Releases, RequestFrame, CallFrame, Config, ConfigFrees, ConfigAllocs, ConfigFrame, Enable,
     SetLoadReg
<1>5. CASE UNCHANGED vars
  BY <1>5 DEF vars
<1> QED
  BY <1>1, <1>2, <1>3, <1>4, <1>5 DEF Next, Users

(* What the steps below rest on.                                             *)
PoolInv == Inv /\ CopyInv /\ OneStreamInv /\ WholeInv /\ OvertakeInv

(* The buffer being copied is not the handler's, and only an ioctl has it.       *)
LEMMA PoolFacts ==
  ASSUME PoolInv
  PROVE  /\ locked_buf \in Buffers \cup {NoBuf} /\ writing \in Buffers \cup {NoBuf}
         /\ active_buf \in Buffers \cup {NoBuf} /\ whole \subseteq Buffers
         /\ NoBuf \notin Buffers /\ Foreign \notin Buffers
         /\ locked_buf # NoBuf =>
              /\ locked_buf # active_buf /\ in_use /\ ioctl_lock \in Users
              /\ locked_buf \notin abandoned => locked_buf \notin {save_addr, writing}
<1>1. /\ locked_buf \in Buffers \cup {NoBuf} /\ active_buf \in Buffers \cup {NoBuf}
      /\ writing \in Buffers \cup {Foreign, NoBuf} /\ writing # Foreign /\ whole \subseteq Buffers
  BY DEF PoolInv, Inv, TypeOK, StatTypes, HwTypes, LifeInv, OneStreamInv, NoBuf, Foreign
<1>2. NoBuf \notin Buffers /\ Foreign \notin Buffers
  BY DEF Buffers, NoBuf, Foreign
<1>3. ASSUME locked_buf # NoBuf
      PROVE  /\ locked_buf # active_buf /\ in_use /\ ioctl_lock \in Users
             /\ locked_buf \notin abandoned => locked_buf \notin {save_addr, writing}
  <2>1. locked_buf \in InUse /\ state[locked_buf] = "READY" /\ locked_buf # active_buf
    BY <1>3 DEF PoolInv, CopyInv, LockedInv
  <2>2. PICK u \in Users : pc[u] = "copy" /\ ioctl_lock = u
    BY <1>3 DEF PoolInv, CopyInv, LockedInv
  <2>3. in_use
    BY <2>2 DEF PoolInv, CopyInv, LockedInv
  <2> QED
    BY <2>1, <2>2, <2>3, Indices DEF PoolInv, Inv, TypeOK, CopyInv, StableInv
<1> QED
  BY <1>1, <1>2, <1>3

(* A step that StatPool does not see.                                        *)
LEMMA PoolStutters ==
  ASSUME UNCHANGED <<writing, locked_buf, whole, abandoned>>
  PROVE  UNCHANGED StatPool!vars
  BY DEF StatPool!vars

(* A step that gives up statistics that nobody copies.                         *)
LEMMA PoolDiscards ==
  ASSUME NEW S, locked_buf \notin S, whole' = whole \ S, abandoned' = abandoned \ S,
         UNCHANGED <<writing, locked_buf>>
  PROVE  StatPool!Next
  BY DEF StatPool!Next, StatPool!Discard, StatPool!Settle

LEMMA PoolHardware == ASSUME PoolInv, Hardware PROVE StatPool!Next
<1>1. CASE HwLoad
  <2>1. /\ writing = NoBuf /\ writing' = save_addr /\ whole' = whole \ {save_addr}
        /\ UNCHANGED <<locked_buf, abandoned>> /\ streaming
    BY <1>1 DEF HwLoad, ownVars
  <2>2. save_addr \in Buffers
    BY <2>1 DEF PoolInv, Inv, TypeOK, HwTypes, OneStreamInv
  <2>3. save_addr # locked_buf \/ save_addr \in abandoned
    BY <2>2, PoolFacts
  <2> QED
    BY <2>1, <2>2, <2>3 DEF StatPool!Next, StatPool!Begin
<1>2. CASE HwSave
  <2>1. /\ writing # NoBuf /\ writing' = NoBuf /\ UNCHANGED locked_buf
        /\ whole' = (whole \cup {writing}) \ {Foreign}
        /\ abandoned' = StillAbandoned(save_addr, NoBuf)
    BY <1>2 DEF HwSave, ownVars
  <2>2. whole' = whole \cup {writing}
    BY <2>1, PoolFacts
  <2>3. StatPool!Settle
    BY <2>1 DEF StatPool!Settle, StillAbandoned
  <2> QED
    BY <2>1, <2>2, <2>3 DEF StatPool!Next, StatPool!Complete
<1> QED
  BY <1>1, <1>2 DEF Hardware

LEMMA PoolSubdev ==
  ASSUME PoolInv, Subdev
  PROVE  StatPool!Next \/ UNCHANGED StatPool!vars
<1> USE DEF statVars, bufVars, ownVars, flagVars, callVars, lifeVars, hwVars
<1>1. CASE SubdevInit
  <2>1. /\ ~in_use /\ whole' = whole \ {0} /\ abandoned' = abandoned \ {0}
        /\ UNCHANGED <<writing, locked_buf>>
    BY <1>1 DEF SubdevInit, InitFrame
  <2>2. locked_buf \notin {0}
    BY <2>1, PoolFacts DEF NoBuf
  <2> QED
    BY <2>1, <2>2, PoolDiscards
<1>2. CASE StreamOff
  <2>1. writing' = NoBuf /\ UNCHANGED <<locked_buf, whole, abandoned>>
    BY <1>2 DEF StreamOff
  <2> QED
    BY <2>1 DEF StatPool!Next, StatPool!Stop, StatPool!vars
<1>3. CASE SubdevExit \/ StreamOn
  BY <1>3, PoolStutters DEF SubdevExit, StreamOn
<1>4. ASSUME NEW count \in Counts, SensorFps(count) PROVE UNCHANGED StatPool!vars
  BY <1>4, PoolStutters DEF SensorFps
<1> QED
  BY <1>1, <1>2, <1>3, <1>4 DEF Subdev

LEMMA PoolIsr ==
  ASSUME PoolInv, Isr
  PROVE  StatPool!Next \/ UNCHANGED StatPool!vars
<1> USE DEF statVars, bufVars, ownVars, flagVars, callVars, lifeVars, hwVars
<1>1. CASE IsrTakesSave \/ IsrSaveWithoutLoad \/ IsrSaveMarks \/ IsrMark
  BY <1>1, PoolStutters DEF IsrTakesSave, IsrSaveWithoutLoad, IsrSaveMarks, IsrMark, StatIsr,
     SaveFrame
<1>2. CASE IsrLoadSkips \/ IsrChooses
  BY <1>2, PoolStutters DEF IsrLoadSkips, IsrChooses, LoadFrame
<1>3. CASE IsrPrograms
  <2>1. /\ UNCHANGED <<whole, writing, locked_buf>>
        /\ abandoned' = StillAbandoned(save_addr', writing)
    BY <1>3 DEF IsrPrograms, LoadFrame
  <2>2. StatPool!Settle
    BY <2>1 DEF StatPool!Settle, StillAbandoned
  <2> QED
    BY <2>1, <2>2 DEF StatPool!Next, StatPool!Discard
<1>4. CASE IsrOvertaken
  <2>1. /\ isr = "check" /\ load_pd /\ abandoned' = abandoned \cup {active_buf}
        /\ UNCHANGED <<whole, writing, locked_buf>>
    BY <1>4 DEF IsrOvertaken, LoadFrame
  <2>2. "overtake" \in Faults /\ active_buf \in Buffers
    BY <2>1, PoolFacts DEF PoolInv, OvertakeInv, Inv, HandlerInv
  <2>3. active_buf # locked_buf
    BY <2>2, PoolFacts
  <2> QED
    BY <2>1, <2>2, <2>3 DEF StatPool!Next, StatPool!Lose
<1>5. CASE IsrLoadSets
  <2>1. /\ whole' = whole \ {active_buf} /\ abandoned' = abandoned \ {active_buf}
        /\ UNCHANGED <<writing, locked_buf>> /\ isr = "check"
    BY <1>5 DEF IsrLoadSets
  <2>2. locked_buf \notin {active_buf}
    BY <2>1, PoolFacts DEF PoolInv, Inv, HandlerInv
  <2> QED
    BY <2>1, <2>2, PoolDiscards
<1> QED
  BY <1>1, <1>2, <1>3, <1>4, <1>5 DEF Isr

LEMMA PoolFetch ==
  ASSUME PoolInv, NEW u \in Readers, Fetch(u)
  PROVE  StatPool!Next \/ UNCHANGED StatPool!vars
<1> USE DEF lifeVars, RequestFrame, CallFrame
<1>1. CASE Request(u) \/ RequestFindsNone(u)
  BY <1>1, PoolStutters DEF Request, RequestFindsNone
<1>2. CASE RequestGets(u)
  <2>1. /\ pc[u] = "get" /\ ioctl_lock = NoUser /\ FindsOldest(locked_buf') /\ locked_buf' \in Buffers
        /\ UNCHANGED <<writing, whole, abandoned>>
    BY <1>2 DEF RequestGets
  <2>2. locked_buf' \in Ready
    BY <2>1, PoolFacts DEF FindsOldest
  <2>3. locked_buf = NoBuf
    BY <2>1, PoolFacts, StatAssumption DEF Users
  <2>4. in_use
    BY <2>1 DEF PoolInv, CopyInv, LockedInv, Users
  <2>5. /\ locked_buf' \in InUse /\ state[locked_buf'] = "READY" /\ locked_buf' # active_buf
    BY <2>2 DEF Ready
  <2>6. locked_buf' \notin abandoned => locked_buf' \in whole /\ locked_buf' # writing
    BY <2>1, <2>4, <2>5 DEF PoolInv, CopyInv, StableInv, WholeInv, ReadyInv
  <2> QED
    BY <2>1, <2>3, <2>6 DEF StatPool!Next, StatPool!Take
<1>3. CASE RequestCopies(u) \/ RequestFails(u)
  <2>1. /\ pc[u] = "copy" /\ locked_buf' = NoBuf /\ whole' = whole \ {locked_buf}
        /\ UNCHANGED <<writing, abandoned>>
    BY <1>3 DEF RequestCopies, RequestFails, Releases
  <2> QED
    BY <2>1, PoolFacts DEF StatPool!Next, StatPool!Return, StatPool!vars
<1> QED
  BY <1>1, <1>2, <1>3 DEF Fetch

LEMMA PoolControl ==
  ASSUME PoolInv, Inv', NEW u \in Controllers, Control(u)
  PROVE  StatPool!Next \/ UNCHANGED StatPool!vars
<1> USE DEF lifeVars, ownVars, hwVars, ConfigFrame, CallFrame
<1>1. CASE Config(u)
  <2>1. /\ ioctl_lock = NoUser /\ whole' = whole \ Own /\ abandoned' = abandoned \ Own
        /\ UNCHANGED <<writing, locked_buf>>
    BY <1>1 DEF Config
  <2>2. locked_buf \notin Own
    BY <2>1, PoolFacts, StatAssumption, NoBufIsNone DEF Users, Own, NoBuf
  <2> QED
    BY <2>1, <2>2, PoolDiscards
<1>2. CASE ConfigFrees(u)
  <2>1. UNCHANGED <<locked_buf, whole, abandoned>>
    BY <1>2 DEF ConfigFrees
  <2>2. writing' = writing
    BY <1>2 DEF ConfigFrees, FreeOwn, PoolInv, Inv, CallInv, LifeInv, OneStreamInv, Own, NoBuf,
                Users
  <2> QED
    BY <2>1, <2>2, PoolStutters
<1>3. CASE ConfigAllocs(u)
  BY <1>3, PoolStutters DEF ConfigAllocs
<1>4. CASE Enable(u, TRUE) \/ Enable(u, FALSE)
  BY <1>4, PoolStutters DEF Enable
<1>5. CASE SetLoadReg(u)
  BY <1>5, PoolStutters DEF SetLoadReg
<1> QED
  BY <1>1, <1>2, <1>3, <1>4, <1>5 DEF Control

LEMMA PoolInvAlways ==
  ASSUME "restart" \notin Faults
  PROVE  Spec => []PoolInv
<1>1. Init => CopyInv /\ WholeInv /\ OvertakeInv
  BY CopyInit, WholeInit DEF Init, OvertakeInv
<1>2. Inv /\ CopyInv /\ OneStreamInv /\ WholeInv /\ OvertakeInv /\ [Next]_vars
        => CopyInv' /\ WholeInv' /\ OvertakeInv'
  BY CopyNext, WholeNext, OvertakeNext
<1> QED
  BY <1>1, <1>2, InvAlways, OneStreamAlways, PTL DEF Spec, PoolInv

(* The statistics buffers keep the promise of StatPool, for any number of threads *)
(* and buffers and with every fault, unless the ISP streams again without being    *)
(* opened again; without handlers that are overtaken, StatPool has no strays.      *)
THEOREM StatImplementsPool ==
  ASSUME "restart" \notin Faults
  PROVE  Spec => ImplementsStatPool
<1>1. Init => StatPool!Init
  BY DEF Init, StatPool!Init
<1>2. ASSUME PoolInv, PoolInv', [Next]_vars PROVE [StatPool!Next]_(StatPool!vars)
  <2>1. CASE Hardware \/ Subdev \/ Isr
    BY <1>2, <2>1, PoolHardware, PoolSubdev, PoolIsr
  <2>2. ASSUME NEW u \in Readers, Fetch(u) PROVE StatPool!Next \/ UNCHANGED StatPool!vars
    BY <1>2, <2>2, PoolFetch
  <2>3. ASSUME NEW u \in Controllers, Control(u) PROVE StatPool!Next \/ UNCHANGED StatPool!vars
    BY <1>2, <2>3, PoolControl DEF PoolInv
  <2>4. CASE UNCHANGED vars
    BY <2>4, PoolStutters DEF vars, ownVars, hwVars
  <2> QED
    BY <1>2, <2>1, <2>2, <2>3, <2>4 DEF Next
<1> QED
  BY <1>1, <1>2, PoolInvAlways, PTL DEF Spec, ImplementsStatPool, StatPool!Spec

(* So what an application copies stays the statistics of one whole frame until it *)
(* gives the buffer back: StatPool itself says so.                            *)
THEOREM CopyAlwaysWhole ==
  ASSUME "restart" \notin Faults
  PROVE  Spec => []StatPool!TakenIsWhole
<1>1. StatPool!Init => StatPool!TakenIsWhole
  BY DEF StatPool!Init, StatPool!TakenIsWhole
<1>2. ASSUME StatPool!TakenIsWhole, [StatPool!Next]_(StatPool!vars) PROVE StatPool!TakenIsWhole'
  <2> USE <1>2 DEF StatPool!TakenIsWhole
  <2>1. CASE StatPool!Complete
    BY <2>1 DEF StatPool!Complete, StatPool!Settle
  <2>2. CASE StatPool!Stop \/ StatPool!Return
    BY <2>2 DEF StatPool!Stop, StatPool!Return
  <2>3. CASE StatPool!Discard
    BY <2>3 DEF StatPool!Discard, StatPool!Settle
  <2>4. ASSUME NEW b \in Buffers, StatPool!Begin(b) \/ StatPool!Take(b) \/ StatPool!Lose(b)
        PROVE  StatPool!TakenIsWhole'
    BY <2>4 DEF StatPool!Begin, StatPool!Take, StatPool!Lose
  <2>5. CASE UNCHANGED StatPool!vars
    BY <2>5 DEF StatPool!vars
  <2> QED
    BY <2>1, <2>2, <2>3, <2>4, <2>5 DEF StatPool!Next
<1> QED
  BY <1>1, <1>2, StatImplementsPool, PTL DEF ImplementsStatPool, StatPool!Spec
=============================================================================
