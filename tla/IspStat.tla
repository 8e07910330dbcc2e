-------------------------------- MODULE IspStat --------------------------------
(***************************************************************************)
(* The statistics buffers of the ISP (vin-stat/vin_h3a.c) with the parts of  *)
(* vin-isp/sunxi_isp.c that drive them: the init and stream calls of the ISP  *)
(* subdevice and the PARA_SAVE and PARA_LOAD interrupts (ISP_600).           *)
(*                                                                         *)
(* At the start of a frame the ISP latches its registers (PARA_LOAD), among   *)
(* them the address that the statistics of the frame go to; at its end they   *)
(* are in memory (PARA_SAVE).  A buffer that the handler programs is          *)
(* therefore latched one PARA_LOAD later and whole one PARA_SAVE after that.  *)
(* slock guards the handler's use of the buffers and the short parts of the   *)
(* ioctls, ioctl_lock a whole ioctl; a test made before a lock is taken is a    *)
(* step of its own.                                                         *)
(***************************************************************************)
EXTENDS Integers, FiniteSets

CONSTANTS
  Readers,    (* threads of the application that fetch statistics            *)
  Controllers,  (* threads that configure, enable and load parameters          *)
  NoUser,     (* nobody: owner of a free ioctl_lock                          *)
  Counts,     (* buffer counts that the frame rates of the sensor ask for     *)
  LostLimit,  (* frames without a new load after which an event is sent: 10    *)
  Faults      (* which of these happen: a "copy" to the application fails, no    *)
              (* memory ("nomem"), a PARA_LOAD "overtake"s the handler, the   *)
              (* ISP streams again without being opened again ("restart")     *)

ASSUME StatAssumption ==
  /\ NoUser \notin Readers \cup Controllers
  /\ Counts # {} /\ Counts \subseteq 3 .. 6
  /\ LostLimit \in Nat \ {0}
  /\ Faults \subseteq {"copy", "nomem", "overtake", "restart"}

Users == Readers \cup Controllers

Buffers == 0 .. 5   (* STAT_MAX_BUFS *)
NoBuf == -1         (* NULL *)
Foreign == -2       (* an address that is not the memory of a buffer          *)

VARIABLES
  (* struct isp_stat *)
  configured, enabled, sensor_fps, buf_cnt, buf_size,
  empty, state, dma_addr,           (* struct ispstat_buffer of each buffer   *)
  active_buf, locked_buf, ioctl_lock,
  (* struct isp_dev *)
  in_use, streaming, f1_after_librun, save_get_flag, load_save, event_lost_cnt,
  (* the callers and the handler *)
  pc,         (* the step that each user's ioctl has reached                 *)
  isr,        (* the step that isp_isr has reached                           *)
  served,     (* the application has configured since it opened the ISP and   *)
              (* set the format                                            *)
  started,    (* the ISP has streamed since it was opened                    *)
  (* the ISP *)
  save_addr,  (* the address in the register                                *)
  writing,    (* the address latched for this frame; NoBuf between frames     *)
  save_pd, load_pd,
  whole,      (* history: buffers written from start to end since they were    *)
              (* chosen, and neither released nor configured since           *)
  abandoned   (* history: buffers that the ISP writes to or is told to, but   *)
              (* whose handler has been overtaken before it marked them       *)

statVars == <<configured, enabled, sensor_fps, buf_cnt, buf_size>>
bufVars == <<empty, state, dma_addr>>
ownVars == <<active_buf, locked_buf>>
flagVars == <<f1_after_librun, save_get_flag, load_save, event_lost_cnt>>
callVars == <<ioctl_lock, pc>>
lifeVars == <<in_use, streaming, served, started>>
hwVars == <<save_addr, writing, save_pd, load_pd, whole>>
vars == <<statVars, bufVars, ownVars, flagVars, callVars, lifeVars, hwVars, isr, abandoned>>

States == {"IDLE", "LOAD_SET", "SAVE_SET", "READY"}
IsrSteps == {"idle", "stat_first", "stat", "mark_first", "mark", "load", "program", "check"}
LockedSteps == {"copy", "free", "alloc"}

StatTypes ==
  /\ configured \in BOOLEAN /\ enabled \in BOOLEAN /\ buf_size \in BOOLEAN
  /\ sensor_fps \in Counts /\ buf_cnt \in 0 .. 6
  /\ active_buf \in Buffers \cup {NoBuf} /\ locked_buf \in Buffers \cup {NoBuf}

BufferTypes ==
  /\ empty \in [Buffers -> BOOLEAN] /\ dma_addr \in [Buffers -> BOOLEAN]
  /\ state \in [Buffers -> States]

CallTypes ==
  /\ ioctl_lock \in Users \cup {NoUser}
  /\ pc \in [Users -> LockedSteps \cup {"idle", "get"}]

IspTypes ==
  /\ in_use \in BOOLEAN /\ streaming \in BOOLEAN /\ served \in BOOLEAN /\ started \in BOOLEAN
  /\ f1_after_librun \in BOOLEAN /\ save_get_flag \in BOOLEAN /\ load_save \in BOOLEAN
  /\ event_lost_cnt \in 0 .. LostLimit

HwTypes ==
  /\ isr \in IsrSteps /\ save_pd \in BOOLEAN /\ load_pd \in BOOLEAN
  /\ save_addr \in Buffers \cup {Foreign} /\ writing \in Buffers \cup {Foreign, NoBuf}
  /\ whole \subseteq Buffers /\ abandoned \subseteq Buffers

TypeOK == StatTypes /\ BufferTypes /\ CallTypes /\ IspTypes /\ HwTypes

(* A zeroed struct isp_dev.                                                  *)
Init ==
  /\ configured = FALSE /\ enabled = FALSE
  /\ sensor_fps \in Counts /\ buf_cnt = 0 /\ buf_size = FALSE
  /\ empty = [b \in Buffers |-> FALSE] /\ state = [b \in Buffers |-> "IDLE"]
  /\ dma_addr = [b \in Buffers |-> FALSE]
  /\ active_buf = NoBuf /\ locked_buf = NoBuf /\ ioctl_lock = NoUser
  /\ in_use = FALSE /\ streaming = FALSE
  /\ f1_after_librun = FALSE /\ save_get_flag = FALSE /\ load_save = FALSE
  /\ event_lost_cnt = 0
  /\ pc = [u \in Users |-> "idle"] /\ isr = "idle"
  /\ served = FALSE /\ started = FALSE
  /\ save_addr = Foreign /\ writing = NoBuf /\ save_pd = FALSE /\ load_pd = FALSE
  /\ whole = {} /\ abandoned = {}

(* The buffers that count, and those of them which config gives up.          *)
InUse == 0 .. buf_cnt - 1
Own == 1 .. buf_cnt - 1

Goto(u, step) == pc' = [pc EXCEPT ![u] = step]

(* The handler holds slock while it chooses and programs a buffer.            *)
SlockFree == isr \notin {"program", "check"}

(***************************************************************************)
(* __isp_stat_buf_find: the first empty buffer, if that will do, or else the  *)
(* oldest statistics; never a buffer that is copied or that is active.  Frame   *)
(* numbers are not modelled (subdev_init and s_stream reset only some of them):  *)
(* any statistics may be the oldest.                                         *)
(***************************************************************************)
(* Mutation: a buffer that is being copied is no exception.                    *)
ReadyOrCopied == {b \in InUse \ {active_buf} : state[b] = "READY" /\ ~empty[b]}

(* Mutation: a request may take the buffer that the handler has chosen.         *)
ReadyOrActive == {b \in InUse \ {locked_buf} : state[b] = "READY" /\ ~empty[b]}

Vacant == {b \in InUse \ {locked_buf, active_buf} : empty[b] /\ state[b] = "IDLE"}
Ready == {b \in InUse \ {locked_buf, active_buf} : state[b] = "READY" /\ ~empty[b]}

FindsOldest(b) ==
  IF Ready = {} THEN b = NoBuf ELSE b \in Ready

FindsOldestOrEmpty(b) ==
  IF Vacant = {} THEN FindsOldest(b) ELSE b \in Vacant /\ \A c \in Vacant : b <= c

(* isp_stat_buf_next *)
BufNext ==
  IF active_buf # NoBuf THEN UNCHANGED active_buf
  ELSE \E b \in Buffers \cup {NoBuf} : FindsOldestOrEmpty(b) /\ active_buf' = b

(***************************************************************************)
(* The ISP subdevice: init by the first and last user, and s_stream, which     *)
(* sleeps long enough on its way off for isp_isr to end.  The application      *)
(* disables the statistics before it closes the video node.                  *)
(***************************************************************************)
InitFrame ==
  UNCHANGED <<statVars, ownVars, flagVars, callVars, streaming, isr, writing,
              save_pd, load_pd>>

(* Mutation: the address register keeps what the last session left in it.     *)
SubdevInitKeepsAddr ==
  /\ ~in_use /\ isr = "idle"
  /\ in_use' = TRUE /\ served' = FALSE /\ started' = FALSE
  /\ empty' = [empty EXCEPT ![0] = TRUE] /\ state' = [state EXCEPT ![0] = "LOAD_SET"]
  /\ dma_addr' = [dma_addr EXCEPT ![0] = TRUE]
  /\ whole' = whole \ {0} /\ abandoned' = abandoned \ {0}
  /\ UNCHANGED save_addr /\ InitFrame

SubdevInit ==
  /\ ~in_use /\ isr = "idle"
  /\ in_use' = TRUE /\ served' = FALSE /\ started' = FALSE
  /\ empty' = [empty EXCEPT ![0] = TRUE] /\ state' = [state EXCEPT ![0] = "LOAD_SET"]
  /\ dma_addr' = [dma_addr EXCEPT ![0] = TRUE]
  /\ whole' = whole \ {0} /\ abandoned' = abandoned \ {0}
  /\ save_addr' = 0 /\ InitFrame

SubdevExit ==
  /\ in_use /\ ~streaming /\ ~enabled /\ \A u \in Users : pc[u] = "idle"
  /\ in_use' = FALSE
  /\ UNCHANGED <<statVars, bufVars, ownVars, flagVars, callVars, streaming, served, started,
                 hwVars, isr, abandoned>>

(* The frame rate of the sensor mode, at VIDIOC_S_FMT, which is refused while the *)
(* node streams; the application disables the statistics before and configures    *)
(* them once more after it.                                                  *)
SensorFps(count) ==
  /\ in_use /\ ~streaming /\ isr = "idle" /\ ~enabled
  /\ sensor_fps' = count /\ served' = FALSE
  /\ UNCHANGED <<configured, enabled, buf_cnt, buf_size, bufVars, ownVars, flagVars, callVars,
                 in_use, streaming, started, hwVars, isr, abandoned>>

StreamOn ==
  /\ in_use /\ ~streaming /\ isr = "idle" /\ (started => "restart" \in Faults)
  /\ streaming' = TRUE /\ started' = TRUE
  /\ save_pd' = FALSE /\ load_pd' = FALSE
  /\ UNCHANGED <<statVars, bufVars, ownVars, flagVars, callVars, in_use, served, save_addr,
                 writing, whole, isr, abandoned>>

StreamOff ==
  /\ streaming /\ streaming' = FALSE
  /\ writing' = NoBuf /\ save_pd' = FALSE /\ load_pd' = FALSE
  /\ f1_after_librun' = FALSE
  /\ UNCHANGED <<statVars, bufVars, ownVars, save_get_flag, load_save, event_lost_cnt,
                 callVars, in_use, served, started, save_addr, whole, isr, abandoned>>

(* An abandoned buffer is safe again once it is whole and the ISP has let go    *)
(* of it.                                                                   *)
StillAbandoned(next, now) == {b \in abandoned : b \in whole' => b \in {next, now}}

(***************************************************************************)
(* The ISP: one frame after the other.  isp_isr has cleared a PARA_LOAD by the *)
(* next one, but with "overtake" it need not have programmed the address, as    *)
(* long as (a bound) no other buffer is abandoned.                            *)
(***************************************************************************)
HwLoad ==
  /\ streaming /\ writing = NoBuf /\ ~load_pd
  /\ SlockFree \/ ("overtake" \in Faults /\ abandoned = {})
  /\ writing' = save_addr
  /\ whole' = whole \ {save_addr}
  /\ load_pd' = TRUE
  /\ UNCHANGED <<statVars, bufVars, ownVars, flagVars, callVars, lifeVars, save_addr, save_pd,
                 isr, abandoned>>

HwSave ==
  /\ streaming /\ writing # NoBuf
  /\ writing' = NoBuf
  /\ whole' = (whole \cup {writing}) \ {Foreign}
  /\ save_pd' = TRUE
  /\ abandoned' = StillAbandoned(save_addr, NoBuf)
  /\ UNCHANGED <<statVars, bufVars, ownVars, flagVars, callVars, lifeVars, save_addr, load_pd,
                 isr>>

(***************************************************************************)
(* isp_isr: PARA_SAVE is served first, without slock but for the marking.      *)
(***************************************************************************)
(* From the second frame with statistics on, sunxi_isp_frame_sync_isr is only  *)
(* called when the last one had no statistics, the application has loaded new   *)
(* parameters, or too many frames have passed.                                *)
FrameSync ==
  ~f1_after_librun \/ save_get_flag \/ load_save \/ event_lost_cnt = LostLimit

LoadSet == {b \in InUse : state[b] = "LOAD_SET"}
SaveSet == {b \in InUse : state[b] = "SAVE_SET"}

(* Mutation: the count starts again only with a new load.                      *)
EventLostRunsOn ==
  IF ~f1_after_librun THEN event_lost_cnt
  ELSE IF save_get_flag \/ load_save THEN 0 ELSE event_lost_cnt + 1

EventLost ==
  IF ~f1_after_librun THEN event_lost_cnt ELSE IF FrameSync THEN 0 ELSE event_lost_cnt + 1

SaveFrame == UNCHANGED <<statVars, dma_addr, locked_buf, f1_after_librun, load_save, callVars,
                         lifeVars, save_addr, writing, load_pd, whole, abandoned>>

(* isp_stat_isr looks at the engine before it takes slock.                     *)
IsrTakesSave ==
  /\ isr = "idle" /\ save_pd /\ save_pd' = FALSE
  /\ event_lost_cnt' = EventLost
  /\ \/ ~f1_after_librun /\ isr' = IF enabled THEN "stat_first" ELSE "mark_first"
     \/ f1_after_librun /\ isr' = IF FrameSync /\ enabled THEN "stat" ELSE "mark"
  /\ SaveFrame /\ UNCHANGED <<empty, state, active_buf, save_get_flag>>

StatIsr ==
  /\ isr \in {"stat_first", "stat"}
  /\ isr' = IF isr = "stat_first" THEN "mark_first" ELSE "mark"
  /\ SaveFrame /\ UNCHANGED <<event_lost_cnt, save_pd>>

(* isp_stat_isr: no buffer has been programmed since the last PARA_SAVE.       *)
IsrSaveWithoutLoad ==
  /\ StatIsr /\ LoadSet = {}
  /\ save_get_flag' = TRUE
  /\ UNCHANGED <<empty, state, active_buf>>

(* Mutation: statistics are taken for ready one PARA_SAVE early.              *)
MarkedEarly(b) == IF b \in LoadSet \cup SaveSet THEN "READY" ELSE state[b]

(* isp_stat_isr: the buffer programmed last is latched next, and the one before *)
(* it is done.                                                              *)
Marked(b) ==
  IF b \in LoadSet THEN "SAVE_SET" ELSE IF b \in SaveSet THEN "READY" ELSE state[b]

(* Mutation: the handler keeps the buffer that it has marked.                  *)
IsrSaveMarksKeepsActive ==
  /\ StatIsr /\ LoadSet # {}
  /\ state' = [b \in Buffers |-> Marked(b)]
  /\ empty' = [b \in Buffers |-> empty[b] /\ b \notin SaveSet]
  /\ save_get_flag' = (SaveSet = {})
  /\ UNCHANGED active_buf

IsrSaveMarks ==
  /\ StatIsr /\ LoadSet # {}
  /\ state' = [b \in Buffers |-> Marked(b)]
  /\ empty' = [b \in Buffers |-> empty[b] /\ b \notin SaveSet]
  /\ save_get_flag' = (SaveSet = {})
  /\ active_buf' = NoBuf

IsrMark ==
  /\ isr \in {"mark_first", "mark"} /\ isr' = "load"
  /\ f1_after_librun' = (f1_after_librun \/ (isr = "mark_first" /\ enabled))
  /\ load_save' = FALSE
  /\ UNCHANGED <<statVars, bufVars, ownVars, save_get_flag, event_lost_cnt, callVars, lifeVars,
                 hwVars, abandoned>>

(***************************************************************************)
(* Then PARA_LOAD, with slock held: isp_stat_load_set chooses a buffer,        *)
(* programs its address and finds out whether a PARA_LOAD has overtaken it.    *)
(***************************************************************************)
LoadFrame == UNCHANGED <<statVars, empty, dma_addr, locked_buf, flagVars, callVars, lifeVars,
                         writing, save_pd, whole>>

(* The handler has served PARA_SAVE or was called for a PARA_LOAD alone.        *)
AtLoad == isr = "load" \/ (isr = "idle" /\ ~save_pd /\ load_pd)

(* Nothing to load, the engine is off, or a buffer waits for its PARA_SAVE.    *)
IsrLoadSkips ==
  /\ AtLoad /\ (load_pd => ~enabled \/ LoadSet # {})
  /\ load_pd' = FALSE /\ isr' = "idle"
  /\ LoadFrame /\ UNCHANGED <<state, active_buf, save_addr, abandoned>>

IsrChooses ==
  /\ AtLoad /\ load_pd /\ enabled /\ LoadSet = {}
  /\ load_pd' = FALSE
  /\ BufNext
  /\ isr' = IF active_buf' = NoBuf THEN "idle" ELSE "program"
  /\ LoadFrame /\ UNCHANGED <<state, save_addr, abandoned>>

IsrPrograms ==
  /\ isr = "program" /\ isr' = "check"
  /\ LoadFrame /\ UNCHANGED <<state, active_buf, load_pd>>
  /\ save_addr' = IF dma_addr[active_buf] THEN active_buf ELSE Foreign
  /\ abandoned' = StillAbandoned(save_addr', writing)

IsrOvertaken ==
  /\ isr = "check" /\ load_pd /\ isr' = "idle"
  /\ abandoned' = abandoned \cup {active_buf} /\ active_buf' = NoBuf
  /\ LoadFrame /\ UNCHANGED <<state, save_addr, load_pd>>

IsrLoadSets ==
  /\ isr = "check" /\ ~load_pd /\ isr' = "idle"
  /\ state' = [state EXCEPT ![active_buf] = "LOAD_SET"]
  /\ whole' = whole \ {active_buf}
  /\ abandoned' = abandoned \ {active_buf}
  /\ UNCHANGED <<statVars, empty, dma_addr, ownVars, flagVars, callVars, lifeVars,
                 save_addr, writing, save_pd, load_pd>>

(***************************************************************************)
(* VIDIOC_VIN_ISP_STAT_REQ                                                   *)
(***************************************************************************)
CallFrame == UNCHANGED <<sensor_fps, lifeVars, writing, save_pd, load_pd, isr, abandoned>>

RequestFrame ==
  /\ UNCHANGED <<configured, enabled, buf_cnt, buf_size, dma_addr, active_buf, flagVars,
                 save_addr>>
  /\ CallFrame

(* The engine is found enabled, without a lock.                               *)
Request(u) ==
  /\ pc[u] = "idle" /\ enabled /\ Goto(u, "get")
  /\ RequestFrame /\ UNCHANGED <<empty, state, locked_buf, ioctl_lock, whole>>

RequestFindsNone(u) ==
  /\ pc[u] = "get" /\ ioctl_lock = NoUser /\ SlockFree /\ FindsOldest(NoBuf)
  /\ Goto(u, "idle")
  /\ RequestFrame /\ UNCHANGED <<empty, state, locked_buf, ioctl_lock, whole>>

RequestGets(u) ==
  /\ pc[u] = "get" /\ ioctl_lock = NoUser /\ SlockFree
  /\ \E b \in Buffers : FindsOldest(b) /\ locked_buf' = b
  /\ ioctl_lock' = u /\ Goto(u, "copy")
  /\ RequestFrame /\ UNCHANGED <<empty, state, whole>>

(* isp_stat_buf_release; the caller has marked the buffer empty, which nobody   *)
(* looks at while it is locked.                                             *)
Releases(u) ==
  /\ pc[u] = "copy" /\ SlockFree
  /\ state' = [state EXCEPT ![locked_buf] = "IDLE"] /\ locked_buf' = NoBuf
  /\ ioctl_lock' = NoUser /\ Goto(u, "idle") /\ whole' = whole \ {locked_buf}
  /\ RequestFrame

(* Mutation: the buffer is released, but not marked empty.                     *)
RequestCopiesKeepsFull(u) == Releases(u) /\ UNCHANGED empty

RequestCopies(u) == Releases(u) /\ empty' = [empty EXCEPT ![locked_buf] = TRUE]

(* The application's buffer is too small or not writable.                     *)
RequestFails(u) == "copy" \in Faults /\ Releases(u) /\ UNCHANGED empty

(***************************************************************************)
(* VIDIOC_VIN_ISP_H3A_CFG: the application configures a disabled engine.       *)
(***************************************************************************)
ConfigFrame == UNCHANGED <<enabled, locked_buf, flagVars>> /\ UNCHANGED <<sensor_fps,
  in_use, streaming, started, save_pd, load_pd, isr>>

(* Mutation: the buffers stay what they were in the last session.               *)
ConfigKeepsStates(u) ==
  /\ pc[u] = "idle" /\ in_use /\ ~enabled /\ ioctl_lock = NoUser /\ SlockFree
  /\ empty' = [b \in Buffers |-> empty[b] \/ b \in Own]
  /\ whole' = whole \ Own /\ abandoned' = abandoned \ Own
  /\ \/ /\ buf_size /\ buf_cnt = sensor_fps
        /\ configured' = TRUE /\ served' = TRUE
        /\ UNCHANGED <<ioctl_lock, pc>>
     \/ /\ ~(buf_size /\ buf_cnt = sensor_fps)
        /\ ioctl_lock' = u /\ Goto(u, "free")
        /\ UNCHANGED <<configured, served>>
  /\ ConfigFrame /\ UNCHANGED <<state, buf_cnt, buf_size, dma_addr, active_buf, save_addr, writing>>

(* isp_stat_bufs_alloc up to the end of its slock: buffer 0 is left alone.     *)
Config(u) ==
  /\ pc[u] = "idle" /\ in_use /\ ~enabled /\ ioctl_lock = NoUser /\ SlockFree
  /\ empty' = [b \in Buffers |-> empty[b] \/ b \in Own]
  /\ state' = [b \in Buffers |-> IF b \in Own THEN "IDLE" ELSE state[b]]
  /\ whole' = whole \ Own /\ abandoned' = abandoned \ Own
  /\ \/ /\ buf_size /\ buf_cnt = sensor_fps
        /\ configured' = TRUE /\ served' = TRUE
        /\ UNCHANGED <<ioctl_lock, pc>>
     \/ /\ ~(buf_size /\ buf_cnt = sensor_fps)
        /\ ioctl_lock' = u /\ Goto(u, "free")
        /\ UNCHANGED <<configured, served>>
  /\ ConfigFrame /\ UNCHANGED <<buf_cnt, buf_size, dma_addr, active_buf, save_addr, writing>>

(* isp_stat_bufs_free, which does not take slock.                             *)
FreeOwn ==
  /\ dma_addr' = [b \in Buffers |-> dma_addr[b] /\ b \notin Own]
  /\ empty' = [b \in Buffers |-> empty[b] \/ (b \in Own /\ dma_addr[b])]
  /\ save_addr' = IF save_addr \in Own THEN Foreign ELSE save_addr
  /\ writing' = IF writing \in Own THEN Foreign ELSE writing
  /\ active_buf' = NoBuf

ConfigFrees(u) ==
  /\ pc[u] = "free" /\ Goto(u, "alloc")
  /\ FreeOwn /\ buf_size' = FALSE
  /\ ConfigFrame /\ UNCHANGED <<configured, served, buf_cnt, state, ioctl_lock, whole,
                                abandoned>>

ConfigAllocs(u) ==
  /\ pc[u] = "alloc" /\ Goto(u, "idle") /\ ioctl_lock' = NoUser
  /\ buf_cnt' = sensor_fps
  /\ \/ LET new == 1 .. sensor_fps - 1
        IN  /\ dma_addr' = [b \in Buffers |-> dma_addr[b] \/ b \in new]
            /\ empty' = [b \in Buffers |-> empty[b] \/ b \in new]
            /\ state' = [b \in Buffers |-> IF b \in new THEN "IDLE" ELSE state[b]]
            /\ buf_size' = TRUE /\ configured' = TRUE /\ served' = TRUE
     \/ \E failed \in 1 .. sensor_fps - 1 :
            /\ "nomem" \in Faults /\ buf_size' = FALSE
            /\ empty' = [b \in Buffers |-> empty[b] \/ b \in 1 .. failed - 1]
            /\ state' = [b \in Buffers |-> IF b \in 1 .. failed - 1 THEN "IDLE" ELSE state[b]]
            /\ UNCHANGED <<dma_addr, configured, served>>
  /\ ConfigFrame /\ UNCHANGED <<active_buf, save_addr, writing, whole, abandoned>>

(***************************************************************************)
(* VIDIOC_VIN_ISP_STAT_EN: the application enables what it has configured since  *)
(* it opened the ISP, and disables.                                         *)
(***************************************************************************)
Enable(u, on) ==
  /\ pc[u] = "idle" /\ in_use /\ ioctl_lock = NoUser /\ SlockFree
  /\ on => configured /\ served
  /\ enabled' = on /\ f1_after_librun' = FALSE /\ BufNext
  /\ UNCHANGED <<configured, buf_cnt, buf_size, empty, state, dma_addr, locked_buf,
                 save_get_flag, load_save, event_lost_cnt, callVars, save_addr, whole>>
  /\ CallFrame

(* VIDIOC_ISP_LOAD_REG: new parameters for the ISP.                           *)
SetLoadReg(u) ==
  /\ pc[u] = "idle" /\ enabled /\ load_save' = TRUE
  /\ UNCHANGED <<statVars, bufVars, ownVars, f1_after_librun, save_get_flag, event_lost_cnt,
                 callVars, lifeVars, hwVars, isr, abandoned>>

(***************************************************************************)
(* The specification                                                       *)
(***************************************************************************)
Hardware == HwLoad \/ HwSave

Isr ==
  \/ IsrTakesSave \/ IsrSaveWithoutLoad \/ IsrSaveMarks \/ IsrMark
  \/ IsrLoadSkips \/ IsrChooses \/ IsrPrograms \/ IsrOvertaken \/ IsrLoadSets

Subdev ==
  \/ SubdevInit \/ SubdevExit \/ StreamOn \/ StreamOff
  \/ \E count \in Counts : SensorFps(count)

Fetch(u) ==
  \/ Request(u) \/ RequestFindsNone(u) \/ RequestGets(u)
  \/ RequestCopies(u) \/ RequestFails(u)

Control(u) ==
  \/ Config(u) \/ ConfigFrees(u) \/ ConfigAllocs(u)
  \/ Enable(u, TRUE) \/ Enable(u, FALSE) \/ SetLoadReg(u)

Next ==
  \/ Hardware \/ Isr \/ Subdev
  \/ \E u \in Readers : Fetch(u)
  \/ \E u \in Controllers : Control(u)

Spec == Init /\ [][Next]_vars

(* Frames keep coming while the ISP streams, and its interrupt is served.      *)
FairSpec == Spec /\ WF_vars(Hardware) /\ WF_vars(Isr)

-----------------------------------------------------------------------------
(* While the application copies a buffer the ISP neither writes to it nor is    *)
(* about to: "don't select the buffer which is ... used by the module".  The    *)
(* exception is the buffer of a handler that a PARA_LOAD has overtaken, whose    *)
(* address stays in the register.                                           *)
CopyIsStable ==
  locked_buf # NoBuf /\ locked_buf \notin abandoned => locked_buf \notin {save_addr, writing}

(* Statistics that the application may be given are those of one whole frame,  *)
(* written after the buffer was chosen, however late and however often the      *)
(* handler skips a PARA_SAVE.                                                *)
ReadyIsWhole ==
  \A b \in InUse \ ({active_buf} \cup abandoned) :
    state[b] = "READY" => b \in whole

(* A streaming ISP writes to memory that the driver holds, although the number  *)
(* of buffers changes with the frame rate and config frees them.  An ISP that   *)
(* streams again without being opened again is told nothing of that (restart).  *)
IspWritesOwned == streaming => writing # Foreign /\ save_addr # Foreign

(* The handler's two marks mean what isp_stat_isr takes them for: the buffer in  *)
(* LOAD_SET is the one that the register names, and there is one at most in each *)
(* of the two states, from one session to the next and over failed and repeated  *)
(* configurations.                                                          *)
MarksAreTrue ==
  enabled => LoadSet \subseteq {save_addr} /\ \A b, c \in SaveSet : b = c

(* "Get next free buffer to write the statistics to": there always is one when   *)
(* the handler asks, whatever the application copies meanwhile.               *)
BufferFound ==
  AtLoad /\ load_pd /\ enabled /\ LoadSet = {} /\ active_buf = NoBuf
    => \E b \in Buffers : FindsOldestOrEmpty(b)

(* An enabled engine on a streaming ISP always comes to have statistics for the *)
(* application, also when a new load is lost to the handler's own reset of it.    *)
StatsKeepComing ==
  streaming /\ enabled ~>
    (~streaming \/ ~enabled \/ \E b \in InUse : state[b] = "READY")
=============================================================================
