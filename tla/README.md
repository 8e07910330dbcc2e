# Verification of the VIN camera stack (Cubie A7S, IMX477)

The repository brings up an IMX477 camera on the Allwinner A733. Its own subject
is the camera stack in `drivers/vin`: the sensor driver, the paired capture of the
full frame and the refusal of the merge for 1920x1080. The rest of the tree is a
vendor BSP that the repository carries unchanged (listed in `PROJECT.json`, not
modelled). This directory holds TLA+ models of the stack, TLC configurations and
proofs.

Paths below are relative to `src/drivers/vin`. The build is that of the A733:
`CSIC_DMA_VER_140_000`, `ISP_600`, `TDM_V200`, `VIPP_200`, kernel 5.15, and the
options that are off by default stay off (`BUF_AUTO_UPDATE`, `DISPPLAY_SYNC`,
`VIDEO_SUNXI_VIN_SPECIAL`, `CSI_CCI`, `SUPPORT_PTN`, `PIPELINE_RESET`). On the board
one sensor, MIPI and CSI feed two ISPs; TDM, ISP, VIPP and DMA work offline.

## 1. The system

| Component | State | Operations | Interacts with | What is hard | What makes it correct |
|---|---|---|---|---|---|
| Video node (`vin-video/vin_video.c`, `vin_core.c`) | `vidq_active`, vb2's lists, `VIN_STREAM`/`BUSY`/`LPM`, `first_flag`, `frame_delay_cnt` | V4L2 ioctls, `open`, `close`, `vin_isr`, `s_stream` of CAPTURE | the DMA, the application, the ISP reset handlers | handler, DMA and ioctls interleave; the handler is late; STREAMOFF during an interrupt | one owner per buffer, the DMA only in the driver's buffers, whole frames in order, every buffer given back |
| Media device (`vin.c`) | `use_count`, `stream_count` per subdevice, `vind->use_count`, links, `graph_mutex` | pipeline prepare/open/close, `set_stream` with rollback, suspend and resume | every node | shared subdevices, failures in the middle of a walk, decisions on stale pipelines | running implies powered, streaming implies running, closed implies off |
| Paired capture (`vin_video.c`, `vin-tdm`, `vin-vipp`, `vin-csi`) | `dma_merge_mode`, `large_image`, `cap->frame`, the width that TDM and scaler halve, the TDM's receive buffers | the ioctls of `/dev/video1` that also act on `/dev/video0` | two nodes, the TDM, one sensor | what one session leaves to the next; half of the pair fails | both halves or none, DMAs in one queue, buffers of the right size, nothing left on |
| ISP (`vin-isp/sunxi_isp.c`) | load buffers, `load_flag`, reset state | `s_stream`, `isp_isr`, resets | nodes (`frame_delay_cnt`), H3A | resets run against streams | resets cost frames, never wrong frames |
| H3A (`vin-stat/vin_h3a.c`) | `buf[]`, `active_buf`, `locked_buf`, `configured`, `enabled` | config, enable, request, load_set, isr | ISP interrupt, user space | the handler is overtaken by the next frame; `isp_stat_isr` tests the engine before `slock`; the number of buffers changes | a buffer is written by the ISP or read by the user, not both; what is given away is one whole frame |
| TDM (`vin-tdm/vin_tdm.c`) | receive buffers, stream count, reset flags | `s_stream`, interrupt, reset work | pipeline walks, scaler | the reset work against STREAMOFF | buffers fit the image |
| CSI, MIPI, scaler | registers | `s_stream`, `s_power` | pipeline walks | order of start and stop | as for the media device |
| Sensor (`modules/sensor/imx477_mipi.c`) | registers | `s_stream`, `init`, `s_power` | pipeline walks | I2C errors | its errors leave the pipeline consistent |
| CCI, actuators, flash, tables, `vin-rp` | - | - | - | - | not built or without control flow |

Locks: ioctls of a node hold `vdev->lock` (one at a time per node); the list and
`vin_isr` use `cap->slock`; walks over a pipeline hold the media device's
`graph_mutex`; link set-up takes and releases it in between. The statistics have a
`slock` of their own and an `ioctl_lock` for a whole ioctl.

## 2. Modules

| Module | What it is |
|---|---|
| `VinCapture` | One node's buffer ring: ioctls, `vin_isr`, DMA. One action per step that another context can see. |
| `FrameQueue` | Abstract: a pool of buffers with one owner each; the hardware writes only into buffers of the driver. |
| `VinFrameQueue` | The refinement mapping from `VinCapture` to `FrameQueue`. |
| `VinFrameOrder` | `VinCapture` with a history variable `before`: the pairs of buffers with a whole frame of which the first was filled earlier. |
| `VinPipeline` | Several nodes, their pipelines, counts, links, power, sleep, `graph_mutex`. |
| `VinPair` | The two nodes that capture one full frame, session after session. |
| `IspStat` | The statistics buffers between ISP, `isp_isr` and the application. |
| `StatPool` | Abstract: an application copies whole statistics of one frame, each once, and nobody writes over them meanwhile. |
| `IspStatPool` | The refinement mapping from `IspStat` to `StatPool`. |
| `VinCaptureProofs`, `VinFreshProofs`, `VinFrameQueueProofs` | Theorems about `VinCapture`. |
| `VinPipelineProofs`, `VinCountsProofs`, `VinCameraProofs` | Theorems about `VinPipeline`; each module builds on the one before. |
| `VinPairProofs` | Theorems about `VinPair`. |
| `IspStatProofs` | Theorems about `IspStat`. |
| `MCVinCapture`, `MCVinFrameOrder`, `MCVinPipeline`, `MCVinPair`, `MCIspStat` | Small constants for TLC. |

### VinCapture and the code

- `vb[b]` is the vb2 state of a buffer; `queued` and `done` are vb2's lists,
  `vidq_active` the driver's. `ioctl` and `isr` are program counters: an ioctl is
  split where `vin_isr` or the DMA can act in between, `vin_isr` where an ioctl can
  (before `slock`, around the overflow reset, and between acknowledging the vsync
  and programming the address).
- `Streamon`, `SetStreamOn`, `SetStreamBit` are `vidioc_streamon`;
  `Streamoff`, `SetStreamOff`, `StopStreaming`, `QueueFree` are `vidioc_streamoff` (or
  the close of a streaming node), in the order of the code.
- `IsrEnters` ... `IsrCaptureDone` are `vin_isr`. `VsyncKeepsHead` is "only two
  buffers left", `VsyncRecyclesHead` the frame dropped for `frame_delay_cnt`,
  `VsyncDeliversHead` the `vb2_buffer_done`, `VsyncProgramsNext` the new address.
- `HwVsync`, `HwFrameEnd`, `HwMiss`, `HwOverflow` are the DMA (external): it latches the
  address at a vsync, uses an old one again or drops the frame (`Unready`).
- `Delays` is how many frames the flip controls and the reset handlers ask to drop (the
  reset of an ISP that works offline, as the board's, returns before it asks).
- `RawOutput` says that the output format is one of SBGGR8 ... SRGGB16. For those
  `vin_isr` prints `PIXEL_MISS` and `LINE_MISS` and does not add them to
  `frame_delay_cnt` (`vin_core.c:1341`-`1405`): a short RAW frame is delivered
  (`DropsFor`).
- Assumption on the hardware: in IMAGE mode a frame that is short or overflows raises
  no `CAPTURE_DONE` (`HwMiss`, `HwOverflow`).
- `Faults` switches the disturbances on: `miss` (a short frame at any time),
  `served_miss` (a short frame while the stream is on and the handler has nothing
  pending), `overflow` (FIFO), `on` and `off` (`set_stream(1)` or
  `(0)` fails after CAPTURE). `IsrLatency` is `late` (any time before the next vsync's
  programming) or `any`.

### VinPipeline and the code

- A subdevice is `[kind, node]`; kinds in `Shared` belong to all nodes (`OneCamera`
  is the board's device tree: one sensor, MIPI and CSI; nodes on two ISPs).
- `use_count`, `stream_count`, `md_use_count`, `ppu` are the code's counters;
  `powered` and `running` are what the last `s_power` and `s_stream` call did.
- `SetStream` and `SetStreamFails` are one subdevice of `__vin_pipeline_s_stream`,
  with the `seq` table in `StreamOrder` and the rollback as `walk.undo`. The walks
  advance one subdevice at a time because link set-up reads stream counts without
  the mutex. A power walk is one step: it holds `graph_mutex` and nothing it changes
  is read elsewhere.
- `SInput`, `SInputLinksTdm`, `PipelineOpen` are `__vin_s_input`; the mutex is free
  between them, as in the code. `PipelineOpenFails` is its return at
  `vin_video.c:2415`-`2418`: the power walk has turned back, PPU and clocks are still
  counted, and `graph_mutex` stays locked by a call that is over (`Kept`). `Streamon` ... `StreamonDone`, `Streamoff`,
  `StreamoffDone`, `OpenTest`/`OpenLocked` and the `Close...` actions follow
  `vidioc_streamon`, `vidioc_streamoff`, `vin_open`, `vin_close`.
- `SuspendResume` is a system sleep, `vin_core_suspend` and `vin_core_resume` of some or
  all nodes (another device may refuse the sleep), while no call is under way (the
  kernel has frozen the applications).
- Faults: `on` (the first `s_stream(1)` of a sensor, ISP, scaler or DMA fails,
  `MayRefuse`: the sensor does not answer, the ISP has no memory, scaler and DMA are
  excluded by another one's online mode; CSI, MIPI and TDM receiver return 0 on this
  build), `off` (the sensor's `s_stream(0)` fails), `init` (wrong chip id), `power` (the
  sensor's `s_power` fails; no other subdevice of the walk has an `s_power`), `no_input` (an application that skips S_INPUT), `two_openers` (two `vin_open` calls
  pass the test of `VIN_BUSY` together), `suspend`.
- External: that the media core answers -EBUSY for a link of a streaming entity, and
  that setting a link to its present state succeeds.

### VinPair and the code

- `Main` is `/dev/video1` (`id % 4 == 1`), `Bind` the node before it. The application's
  sequence of calls is that of `vin_test/mplane_image/csi_test_mplane.c`, or with S_FMT
  before S_PARM (`FormatFirst`); `did` is what it has called since its open.
- `SetDmaMerge`, `SInput`, `SParm`, `SFmt`, `Streamon`, `Streamoff` are the ioctls, each
  with what it does to the bind node: two steps (`half`) where no lock is held from one
  to the other, one step where `graph_mutex` is. `CloseUnused` is the early return of
  `vin_close`, `CloseUsed` the rest. A walk over a pipeline is one step.
- `Stitches` is the refusal of the merge for 1920x1080 (`vin_video.c:2571`), which
  looks at `frame`, what the last S_FMT has left. `halved` counts the times that
  `tdm_set_rx_cfg` and the scaler have halved their width in place since S_FMT.
- `Written` is `vin_set_next_buf_addr`, which gives the main node's buffer to both DMAs.
- `rx_bufs` is the image for which a receiver's buffers were allocated
  (`tdm_rx_bufs_alloc` keeps what is there), `Frees` who frees them: the stop of a
  receiver while another one streams, else the last stop of the scaler.
- Faults: `init_main`, `init_bind` (no sensor found), `start` (the sensor's
  `s_stream(1)` fails and the walk is undone), `restart` (STREAMON after STREAMOFF
  without S_FMT), `killed` (close between SET_DMA_MERGE and S_INPUT), `two_users`.

### IspStat and the code

- `state`, `empty`, `dma_addr`, `active_buf`, `locked_buf` are those of `vin_h3a.c`;
  `pc[u]` is the step of a thread's ioctl: readers copy statistics
  (`isp_stat_request_statistics`), controllers configure, enable and load parameters.
- `IsrTakesSave` ... `IsrLoadSets` follow `isp_isr` in `sunxi_isp.c`: PARA_SAVE calls
  `isp_stat_isr`, PARA_LOAD calls `isp_stat_load_set` and programs `save_addr`. The test
  of `enabled` before `slock` is a step of its own.
- The ISP (external): `HwLoad` latches the address at the start of a frame, `HwSave` has
  the statistics in memory at its end. With `overtake` a PARA_LOAD comes before the
  handler has served the last one.
- `whole` and `abandoned` are history: buffers with one complete frame; buffers that
  the ISP writes to although the handler, overtaken, has marked another.
- `SensorFps` is S_FMT, which the code refuses only while the node streams
  (`vin_video.c:1077`, `1124`): it may come before the stream or after STREAMOFF. The
  application disables the statistics before, and configures after each open and
  each S_FMT and before it enables (`served`); the code does not ask for it (see
  hazards).
- Faults: `overtake`, `nomem`, `copy` (`copy_to_user` fails), `restart` (STREAMON again
  without the ISP being opened again).

## 3. Runs

| Run | Instance | Shows |
|---|---|---|
| `capture_late` | 4 buffers, not RAW, late handler, `on`, `served_miss`, dropped frames | Ownership, list agreement, whole frames, order of delivery, DMA off at the end of STREAMOFF, refinement of `FrameQueue` |
| `capture_live` | 3 buffers, no deadline, `off`, any number of buffers queued | Lists agree even then; each buffer of the driver is given back |
| `capture_image` | `V4L2_MODE_IMAGE`, RAW, `on`, `overflow`, `miss` | The one buffer is delivered with a whole picture, the DMA reset in the handler included |
| `capture_off_fails` | `off` | Finding 1 |
| `capture_image_stop` | IMAGE, STREAMOFF at any time | Finding 2 |
| `pipe_cameras` | 2 nodes, a camera each, `on`, `init`, `power`, `suspend` | Closed is off, no orphaned vb2 queue, nothing runs without power or queue, source starts last, calls return unless a sensor could not be powered |
| `pipe_shared` | 2 nodes, one camera, offline DMA, `init`, `two_openers` | Streaming nodes run, counts are the users, awake is powered |
| `pipe_close_leaks` | 2 nodes, one camera | Finding 3 |
| `pair_careful` | both nodes, S_FMT before S_PARM, one application at a time, `init_main` | A full frame is taken by both halves, all others are whole, DMAs in the streaming queue, halves powered, TDM buffers fit, nothing left on |
| `pair_retry` | the board's two uses, `start` | Finding 4 |
| `stat_run` | 3 buffers, one reader, one controller, `overtake` | No buffer is copied while the ISP writes, whole frames, a buffer for each frame, refinement of `StatPool` with strays, statistics keep coming |
| `stat_resize` | 3 or 4 buffers, `nomem`, `copy` | An ISP that is opened before each stream never writes to freed memory; marks name what is programmed; refinement of `StatPool` without strays |

### Bounds

- Three buffers are what `queue_setup` enforces at least, and the handler only
  distinguishes lists of 0, 1, 2 and more; four let a delivery, a recycled frame and a
  queued buffer be under way together. `MinQueued = 1`: an application queues a buffer
  before it starts; `capture_live` has 0, where `vin_set_next_buf_addr` takes the list
  head for a buffer.
- `MaxDelay = 2` bounds only when short frames are produced. `Delays` asks for 1 to 3
  frames, the values used by the code. `capture_live` has `MaxDelay = 0`.
- `MaxInputs = 1` (S_INPUT once per open) and `MaxUses` (no S_INPUT when the count has
  reached it, 2 or 3) keep the counters finite: the leaks of finding 3 make them grow
  for ever. For the same reason a node may be left that can neither select nor close,
  so these runs have `CHECK_DEADLOCK FALSE`, and in `pipe_cameras` a mutex that was kept
  stops everybody; that calls return is checked by
  `CallsReturn`. The pair's runs have it, too: `MaxHalvings` (2, more than a session
  uses) and `MaxUses` end a behaviour. `capture_image` has it because taking the head
  of an empty list (finding 2) leaves the handler stuck in the model.
- Two nodes are enough for every decision of `vin.c`, which compares a count with 0 or
  1, and the theorems cover any number. Two nodes are the whole pair.
- The three start orders (`StreamIdx` 2, 3, 4) behave alike in the theorems; the board
  uses 2.
- `Counts` of 3 and 4 are the imx477's (30 and 60 frames per second). `LostLimit = 1`
  stands for 10: the code only compares the count with it. One reader and one
  controller let every pair of steps interleave, as `ioctl_lock` admits one ioctl at a
  time; the theorems cover any number.

### Fairness

- `VinCapture!FairSpec`: the sensor keeps delivering frames, `vin_isr` and an ioctl
  under way run to their end, the application dequeues and queues again (weak
  fairness). QBUF and `stop_streaming` wait for `slock`, which `vin_isr` takes again and
  again: the kernel's queued spin locks serve waiters in turn, hence strong fairness.
  Nothing obliges the application to stop. `BufferServed` has the premise that the ISP
  stops asking for frames to be dropped (`DelaysStop`): a stream all of whose frames
  are dropped delivers nothing.
- `VinPipeline!FairSpec`: a call that was made goes on; mutex waiters are served in
  turn (the kernel's mutex hands over to a waiting task), hence strong fairness per
  node. No fairness on new calls.
- `IspStat!FairSpec`: the ISP goes on with a stream, and `isp_isr` with an interrupt.
  Nothing is assumed of the application.

Liveness runs use no symmetry.

## 4. Findings

1. `capture_off_fails`: when a subdevice fails in `set_stream(0)` the rollback starts
   the subdevices again, the DMA too (`vin.c:1503`), while `vidioc_streamoff` returns and
   frees the buffers. `stop_streaming` is commented "abort streaming and wait for last
   buffer".
2. `capture_image_stop`: `vin_isr` tests `VIN_STREAM` before `slock` and in IMAGE mode
   takes `vidq_active.next` without `list_empty` (`vin_core.c:1537`), after
   `stop_streaming` may have emptied the list.
3. `pipe_close_leaks`: a close of one node between another's link set-up and pipeline
   open leaves that one powered for ever (`vin_video.c:3749`).
4. `pair_retry`: a start that the sensor fails is undone in an order in which neither
   the TDM receiver nor the scaler frees the receive buffers; they stay, STREAMOFF and
   close stop nothing, and `tdm_rx_bufs_alloc` (`vin_tdm.c:141`) returns them for every
   later size and number. After a failed 1920x1080 start the halves of the full frame
   go to buffers that are too small; after a failed full frame 1920x1080 at 60 frames per
   second is given three addresses of which one is none. The repository's README says
   of the failing first stream that "the retry produces a valid frame", and that
   opening `/dev/video1` after a `/dev/video0` capture "can hard-lock" the stack; the
   model explains a way from one to the other, but no run shows it to be the cause.

Also met while exploring, without a run of its own. The runs name the faults that are
off; the properties are checked where the code does keep them.

- Capture: with FIFO overflows the reset in the handler (`vin_core.c:1156`-`1178`) can
  switch the DMA on after STREAMOFF stopped it (`StopAbortsDma`). A short frame that is
  not served in time is charged to the wrong buffer, one of a RAW format is delivered, and after STREAMON without a
  buffer the first one queued is delivered for a frame written elsewhere
  (`DoneIsFresh`). In two-buffer mode the delivered buffer stays the next target of the
  DMA (`vin_core.c:1471`, `1508`), so `DmaTargetsActive` is not what that mode promises,
  and the handler may take the head of an empty list as in finding 2 (`HeadExists`); with
  IMAGE mode a buffer that comes back never enters `vidq_active` (`ListsAgree`).
- Pipelines: `VIN_STREAM` is set after a failed start (`vin_video.c:2214`), so
  `StreamingRuns` fails with `on`; with one camera for two nodes a refused link leaves
  the vb2 queue running (`QueueFollowsStream`); with `off` the counts disagree
  afterwards (`CountsAgree`) and the DMA may run without a queue; S_INPUT twice per open
  leaks use counts (`ClosedIsOff`). Without S_INPUT a reopened node leaves low-power
  mode without power (`vin_video.c:2194`, against the message at `4200`), and so does
  resume for a node that is open and has not selected its input (`AwakeIsPowered`).
  S_INPUT whose pipeline open fails returns with `graph_mutex` locked
  (`vin_video.c:2415`-`2418`), after which no node starts, stops or closes any more;
  `CallsReturn` excepts what comes after it. It takes an `s_power` that fails, and each
  sensor driver of this tree returns 0 from `PWR_ON` whatever its regulators answer.
- Statistics: with `copy` a buffer is lost at each failure, and after three there is
  none (`BufferFound`, `StatsKeepComing`); with `restart` a request gets statistics that
  the ISP never finished (`ReadyIsWhole`). With `restart` and a change of the frame rate
  - STREAMOFF, statistics off, S_FMT, configure (which frees the old buffers,
  `vin_h3a.c:216`), statistics on, STREAMON - the ISP begins in memory that has been
  freed (`IspWritesOwned`): `sunxi_isp_subdev_s_stream` leaves the address register as
  it was, and only the init call at S_INPUT programs it. For a buffer that an overtaken handler
  abandons no promise is kept until it is whole again: `CopyIsStable` and
  `ReadyIsWhole` except it.
- Pair: `restart` breaks `FullFrameIsPaired` (the width is halved again); a bind half
  that fails to start is only printed (`FullFrameIsPaired` with `start`); `killed` leaves
  the merge to the next application (`OtherFramesAreWhole`, `DmaWritesQueue`,
  `ClosedIsUnused`); `init_bind` leaves power and merge on (the same three); `two_users`
  breaks everything, as nothing claims the bind node. With S_PARM first, the order of
  the test programs, the refusal of the merge looks at the frame of the session before:
  the first 1920x1080 stream after boot is merged to half its width and raises no frame
  interrupts, and after a 1920x1080 capture the bind half of a full frame is not merged.
  A merge of a full frame on `/dev/video0` itself raises no interrupts in any order.

## 5. Proofs

All theorems hold for every number of buffers, nodes or threads.

**Capture.** `RingMode` is the ordinary mode: `V4L2_MODE_VIDEO`, normal buffer number,
a handler that programs an address before the next vsync (`IsrLatency # "any"`) and a
`set_stream(0)` that does not fail. Short frames, overflows, dropped frames and failing
starts are included.

- `TypeCorrect`: `[]TypeOK`, with no restriction on mode, faults or latency.
- `ListsAlwaysAgree`: `[]ListsAgree` under `ListsMode`: every mode, latency and fault (a
  failing `set_stream(0)`, too) but two buffers in IMAGE mode.
- `DmaNeverLeavesDriver`: `[]DmaTargetsActive` under `RingMode`.
- `StreamoffAbortsDma`: `[]StopAbortsDma` in every mode and without a deadline, with
  neither an overflow nor a failing `set_stream(0)` (either makes it false, see above).
- `CaptureImplementsFrameQueue`: `Spec => FrameQueue!Spec` under `RingMode` or
  `SingleMode` (below), the latter without a deadline.
- `HeadExistsUntilStop` (`VinFreshProofs`): `HeadExists` as long as `VIN_STREAM` is set,
  with one buffer queued before STREAMON, in every mode but two buffers in IMAGE mode
  and with any latency (in IMAGE mode without `off`); in a video node that is not
  in two-buffer mode always. Outside of that it is false, so finding 2 is the race with
  STREAMOFF and nothing else.
- `DoneAlwaysFresh` and `FramesAlwaysInOrder` (`VinFreshProofs`): `[]DoneIsFresh` and
  `[]FramesInOrder` under `FreshMode`: `RingMode`, no fault but `on` and `served_miss`, the
  latter not in a RAW format, and at least one buffer queued before STREAMON.
- `ImageDmaNeverLeavesDriver`: `[]DmaTargetsActive` under `SingleMode`: IMAGE mode or one
  buffer, no failing `set_stream(0)`. The handler has no deadline here.
- `ImageAlwaysWhole` (`VinFreshProofs`): `[]DoneIsFresh` under `ImageMode`, again without a
  deadline, in every format and with every fault but `off`. It rests on the assumption
  on `CAPTURE_DONE` in section 2.

None of the properties is inductive. For the lists `LInv` adds when `vidq_active` may be
non-empty (`PhaseInv`), the third list `queued` (`OwnersInv`), and that in two-buffer mode
the buffers that have entered `vidq_active` stay on it while the stream lasts, so that
`first_qbuf` says which they are (`TwoBufferInv`). `buffer_queue` relies on it: a buffer
that comes back is only marked.

That the head may be completed depends on where the DMA is. `IInv` adds `StreamInv`
(when the parser may run, that the count is 0 or 1) and `DmaInv`: before the first frame
both addresses are the head of the list (`FirstFrameInv`); afterwards the list has two
buffers, the next address is the second and the current one the first or second, and
while a vsync waits for `vin_isr` the head is not the current one (`RingInv`). That last
clause is why the handler may complete the head, and it is what a missed deadline
breaks. The refinement follows from the part of `IInv` or `SInv` (below) that is named
`QueueInv`: a delivery is `Finish` because after it the
targets are still active buffers and the delivered one is not; the end of a stream is
`Return` and `Free` because `StreamInv` leaves the DMA without targets.

`FreshInv` adds where the last whole frame is: which buffer the DMA has filled when the
vsync is served (`FillInv`, `HeadInv`), and that a new address is armed exactly when the
handler has been there (`ArmedInv`, `HandlerInv`). After a short frame the head need not
be whole, but then a frame has still to be dropped, or the handler has still to count it
(`MissPending`); it does so before the next vsync, so the buffer dropped is that one.
`OrderInv` adds that whole frames wait in the first two places of `vidq_active` only, the
second filled after the first and both after all that is done (`PlaceInv`), and who owns
a buffer with a whole frame (`StateInv`). A dropped head loses its frame and its place
in `before`, so its way to the tail disturbs nothing.

With one buffer nothing is programmed after the start: `SingleInv` says that the address
is the head of the list, and that a frame under way excludes an end of capture that is
still to be served; with the lists and `LeftInv` it makes `SInv`. `LeftInv` says that no handler of the stream before is left when
one starts. `ImageInv` adds that nothing but the vsync has happened while the one frame
of a start is awaited, and that a pending end of capture means a whole frame in the head.
Hence `HeadExistsUntilStop` for IMAGE mode; in two-buffer mode it follows from the
handler only rotating the list (`RotatesInv`), in an ordinary node from the test for two
buffers, which an empty list meets, too. `StreamoffAbortsDma` needs `StreamInv` and
`OffInv` only: no overflow is pending, and the DMA is on only while the count is one.

**Pipelines.** `TypeCorrect`: `[]TypeOK` for any sharing and all faults. `TypeOK` bounds
`files` and `selected`; `FilesInv` carries the bound from the test of an operation to its
effect.

`CountMode` is `MaxInputs = 1` without `off` and `no_input`; starts and power may fail. There `CountInv` compares the counts with
cardinalities of sets of nodes: a `use_count` is at least the number of nodes that have
opened a pipeline with the subdevice (a call that fails half-way leaves more,
`PowerInv`); a `stream_count` is at most the number of nodes that have it started, with
the position of the walk in `Started`, and exactly that number when no start fails
(`StreamInv`). From it:

- `AlwaysPowered` (`RunningIsPowered`), `DmaAlwaysHasQueue` (`DmaHasQueue`, DMAs not
  shared), and without failing starts `AlwaysRuns` (`StreamingRuns`) and
  `CountsAlwaysAgree` (`CountsAgree`), for any sharing and across sleeps;
- `AwakeAlwaysPowered` (`AwakeIsPowered`) without `suspend`.

`CameraMode` adds that each node has its sensor and that no two opens race. `CameraInv`
then knows each node's links and pipeline exactly from the step of its call
(`LinkInv`), and the use counts are exact, those of PPU and clocks unless the mutex is
`Kept` (`ExactInv`), which gives `ClosedAlwaysOff`, `QueueAlwaysFollows` and, with
`StartInv` (what a start walk has started so far, for each of the three orders),
`SourceAlwaysLast`. With a shared camera the first two are false (finding 3).

**Statistics.** `Inv` is `TypeOK` with `CallInv` (calls and their lock), `LifeInv`
(init, stream and configuration), `HandlerInv` (the handler), `MemoryInv`
(which buffers have memory) and `MarksInv` (the marks). It gives `TypeCorrect` and `MarksAlwaysTrue`
with every fault. What the address register names while the ISP streams is a matter of
its own: without `restart` the ISP has been opened since S_FMT, so that an ISP that
streams before the configuration has buffer 0 programmed and afterwards one in use
(`OneStreamInv`); with one
buffer count for all frame rates buffers are freed only before all have been allocated,
when the ISP knows buffer 0 alone, which never is (`OneCountInv`). `IspNeverWritesForeign` holds under either (`OwnedMode`), and
with every other fault; with `restart` and two counts it is false (section 4). `CopyInv` adds where the latched and the
programmed address are while an interrupt is pending and that a locked buffer is
neither: `CopyAlwaysStable`. `WholeInv` follows one buffer from LOAD_SET over SAVE_SET to
READY: `ReadyAlwaysWhole`, without `restart`. `EmptyInv` says that a buffer in state IDLE
is marked empty, and one in READY is not, so that one of the two searches finds it: `BufferAlwaysFound`, without `copy`.

`StatImplementsPool`: `Spec => StatPool!Spec` without `restart`, step by step from these
invariants (`PoolInv`). A latched address is `Begin`, and not in the locked buffer
because of `CopyInv`; a request is `Take`, of whole statistics because of `WholeInv`; the
buffer of an overtaken handler is `Lose`, which `OvertakeInv` allows with `overtake`
only, and no other step makes a stray. `StatPool!TakenIsWhole`, an invariant of the
abstract specification alone, then holds of the code (`CopyAlwaysWhole`): from the
request to the release a reader copies the statistics of one frame.

**Pair.** `PairMode` has no failing start and one application at a time; what the
applications ask for, the order of S_PARM and S_FMT, a sensor that is not found and a
killed process are left open. `PairInv` adds to `TypeOK` what the calls of the session
say (`SessionInv`), that S_INPUT has powered every node it acts on, and half-way through
it the bind (`InputInv`), and that the nodes that stream are exactly those of the session
that is `on`, counted once, with the receive buffers of their image (`StreamInv`). The
delicate point is that `Nodes(v)` follows `dma_merge_mode`, which SET_DMA_MERGE and the
refusal in S_PARM change: both come only while nothing streams. It gives
`PairTypeCorrect`, `StreamAlwaysPowered` (`StreamIsPowered`) and `TdmBuffersAlwaysFit`
(`TdmBuffersFit`, which `pair_retry` shows false once a start may fail).

`FormatMode` adds that S_FMT comes before S_PARM. `FullInv` then knows the size of every
node of a session (`FormatInv`) and, for a merge of the full frame, that both nodes and
the parser take halves (`PairedInv`); without `restart`, `HalvedInv` knows that S_FMT has
taken back what an earlier start has halved. Hence `FullFrameAlwaysPaired`, for any
requests of the applications, a missing sensor and killed processes.

`CarefulMode` is that of `pair_careful`: merges are asked for the full frame on the main
node, or on the bind where they are refused; the bind's sensor is found, nobody is
killed between SET_DMA_MERGE and S_INPUT, and STREAMON may come again after
STREAMOFF. A session then has the merge that it asked for and no other (`MergeInv`), the
use counts are those of the sessions (`CountsInv`), a session that is not a pair finds
nothing of one (`WholeInv`), and the DMAs of a stream have its queue (`TargetInv`):
`OtherFramesAlwaysWhole`, `DmaAlwaysWritesQueue` and `ClosedAlwaysUnused`. Section 4 says
what breaks them outside of this mode.

Assumptions are those of the modules (`NoBufAssumption`, `ModeAssumption`,
`BoundAssumption`, `BufferCountAssumption`; `NoVideoAssumption`, `PipelineAssumption`,
`SharedAssumption`; `StatAssumption`; `PairAssumption`), evaluated by TLC in the runs.

Only model-checked is liveness (`BufferServed`, `CallsReturn`, `StatsKeepComing`):
temporal reasoning with fairness is out of the prover's reach. Every other property of a
passing run is stated by a theorem, in a mode that includes the run's.

## 6. Not modelled

- Video nodes: format negotiation and controls, the in-kernel special API (not built),
  OSD, the 2-in-1 work mode, `vin_core_shutdown`, the top interrupt `vin_top_isr`
  (multi-frame mode, not configured). The two-buffer and one-buffer modes of the
  encoder link are in `VinCapture` and in the theorems on lists and single buffers; no
  run selects them. A refused link in STREAMON is left to
  `VinPipeline`.
- Media device: probing and registration, clock rates and pins, what the hardware
  forgets in a sleep. Of the ways in which `vin_pipeline_call(open)` may fail only a
  sensor's `s_power` is modelled; the others (no pipeline, no media device) need a
  device that was not probed.
- Pair: `large_image` 1 and 2, `VIDIOC_SET_SENSOR_ISP_CFG` (which overwrites the ISP's
  `large_image`, `vin_video.c:2984`), the copying of parameters between the two ISPs,
  crop and flip of the halves, a failing allocation. Frame sizes are two: 1920x1080 and
  all others.
- TDM: online mode, several receivers for one wide-dynamic-range image, its interrupt
  and its reset work. The reset work releases `graph_mutex` without having taken it
  (`vin_tdm.c:1910`); what follows is outside the program.
- ISP: parameters and load buffers, error interrupts and resets except for the frames
  they drop, frame numbers (any READY buffer may be the oldest in `IspStat`).
- Register contents everywhere, the sensor's tables, I2C, exposure and gain; all of
  the BSP outside `drivers/vin`.

## 7. Plan

1. The TDM's reset work against STREAMOFF and the parser's stop and start, once it is
   settled which lock it is meant to take.
2. The ISP's load buffers (`load_shadow`, `load_flag`) and resets, with `VinCapture`'s
   `Delays` as what they do to a node.
3. `VinPair` with the walks of `VinPipeline` in place of its single steps, and a frame
   order for the two DMAs of one buffer.
4. Proofs: `CameraMode`'s results for two nodes that share the camera, as far as
   finding 3 leaves them; the counts of `VinPipeline` with failing `set_stream(0)`.
