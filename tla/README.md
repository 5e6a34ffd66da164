# Verification of Autopilot-ESP32-CAM-Zephyr

TLA+ models of the ESP32-CAM firmware in `src/src/`, TLC runs that check them on
small instances, and TLAPS proofs for every value of the constants.
`PROJECT.json` lists components, runs, mutants, the map from definitions to
source lines, findings, hazards and theorems.

    tlc -workers 2 -config StreamServer.cfg MCStreamServer.tla
    tlapm StreamServer_proofs.tla

## 1. The system

Five activities share one core (Zephyr on the ESP32's PRO CPU, preemptive):

| activity | code | priority |
|---|---|---|
| main thread: boot, then heartbeat, watchdog and status log | `main.c` | 0 |
| HTTP thread: both listening sockets, all requests | `http_server.c`, `http_api.c` | 7 |
| stream worker: one streaming client at a time, captures frames | `stream_handler.c`, `frame_source.c`, `cam_i2s_capture.c`, `cam_jpeg_fixup.c` | 8 |
| net_mgmt thread: Wi-Fi and DHCP events | `wifi_manager.c` handlers | the stack's |
| interrupts: VSYNC edge, DMA buffer full | `cam_i2s_hw.c` | - |

| component | state | operations | shared with |
|---|---|---|---|
| HTTP server | listening sockets, the current client (locals) | poll, accept, `handle_client`, `handle_stream_client` | slot, descriptors |
| stream handler | `stream_sem`, `stream_client_fd`, `cur_mode`, `ws_pending_key`, fps counters | `stream_try_start`, `stream_is_busy`, `stream_force_stop`, the worker | HTTP thread, descriptors |
| frame source | `camera_available` | `frame_source_init`, `frame_source_get` | worker |
| capture | `warmed_up`, saved header | `cam_i2s_capture_frame`, `cam_i2s_reset_warmup` | worker, HTTP thread |
| I2S hardware | frame buffer, `frame_done`, `vsync_blanking`, `capturing`, `vsync_skip_remaining`, `extract_active`, DMA ring | `cam_i2s_hw_*`, `vsync_isr`, `cam_i2s_isr` | capture, interrupts |
| JPEG fixup | saved header | extract, reset, fix up | capture |
| camera configuration | `current_res`, the sensor's registers | `camera_init`, `camera_set_resolution` | HTTP thread, main |
| register tables | none (data) | - | camera configuration |
| WebSocket | none | handshake, binary frame | worker |
| Wi-Fi manager | `connected`, `ip_addr_str`, two counters, a semaphore | event handlers, `wifi_manager_init`, getters | main, HTTP thread |
| LED | `led_on`, `manual_mode`, the pin | set, toggle, auto, heartbeat | main, HTTP thread |

How they interact: the HTTP thread hands a client's descriptor to the worker
through `stream_client_fd` and `stream_sem`; the worker asks the frame source for
frames, which runs a capture against the two interrupt handlers; a resolution
request in the HTTP thread stops the stream by closing the worker's descriptor,
resets the capture state and writes the sensor's registers.

What is hard here: the slot is taken and freed without a lock; a descriptor
number is closed by one thread while another holds it, and numbers are reused;
one thread serves everybody; a capture depends on the order of two interrupts
and on a thread being in time; events are handled after the state they are about
has changed; timeouts end waits like success does; the sensor keeps its registers and its
register bank when the processor is reset; what is sent can be cut anywhere. `PROJECT.json` lists each as a
hazard at its line with the properties that would show it going wrong.

What makes each component correct:

- HTTP server and stream handler: one stream at a time, taken up once, in the
  mode asked for; no lost wakeup; no lost descriptor; every answer and every
  frame to the client it is meant for; the server always comes back.
- Capture: the result is one frame from its start, stays as it is until the next
  capture, and a capture ends; a reset makes the next capture start afresh.
- Wi-Fi manager: when events are handled an address is reported as it is, and a lost link is known.
- LED: a manual command holds; auto mode shows the link.
- Main: the starts come in the order the other modules take for granted; a hang in the
  main loop ends in a reset, after which everything works again, and nothing else does.
- Resolution switch: no frame mixes two resolutions, in its data or its header;
  what the program believes of the sensor is true after every success.
- Sensor: every register is written in its own bank; after a boot and a success the sensor does
  what is reported; a boot leaves nothing of an earlier configuration.
- JPEG fixup: a frame is framed and within its buffer; a saved header is the camera's; a
  frame that lost its beginning becomes the picture again.
- What goes over a connection: the client can always tell what it reads, and gets a whole
  response unless a send failed.

## 2. Modules

| module | models | extends or instantiates |
|---|---|---|
| `StreamSlot` | abstract: what `stream_handler.h` promises of the slot | |
| `StreamServer` | HTTP thread, stream worker, descriptor table, clients | `StreamSlot` (refinement) |
| `MCStreamServer` | instances of it for TLC | `StreamServer` |
| `StreamServer_proofs` | theorems about it | `StreamServer`, `TLAPS` |
| `CamCapture` | camera, DMA ring, interrupt handlers, capturing thread | |
| `CamCapture_proofs` | theorems about it | `CamCapture`, `SequenceTheorems`, `TLAPS` |
| `JpegFixup` | header extraction and frame fixup on bytes | |
| `MCJpegFixup` | headers, scans and junk for TLC | `JpegFixup` |
| `JpegFixup_proofs` | theorems about it | `JpegFixup`, `SequenceTheorems`, `TLAPS` |
| `SensorConfig` | abstract: what `camera_init` and `camera_set_resolution` promise of the sensor | |
| `ResolutionSwitch` | boot of the camera, stream worker and resolution requests in seconds, sensor | `SensorConfig`, `StreamSlot` (refinements) |
| `ResolutionSwitch_proofs` | theorems about it | `ResolutionSwitch`, `TLAPS` |
| `Sensor` | the OV2640's registers and banks, written table by table | `SensorConfig` (refinement) |
| `Sensor_proofs` | theorems about it | `Sensor`, `SequenceTheorems`, `TLAPS` |
| `Wire` | every response and stream in its parts, and the client that reads it | |
| `Wire_proofs` | theorems about it | `Wire`, `SequenceTheorems`, `TLAPS` |
| `WifiManager` | event handlers, boot-time wait, interface | |
| `WifiManager_proofs` | theorems about it | `WifiManager`, `SequenceTheorems`, `FiniteSetTheorems`, `TLAPS` |
| `LedControl` | main thread's and HTTP thread's use of the LED | |
| `Device` | `main.c`: boot, main loop and watchdog around both | `WifiManager`, `LedControl` (composition and refinement) |
| `Device_proofs` | theorems about the composition, and about `LedControl` as part of it | `Device`, `WifiManager_proofs` |

In every module, an operator whose comment begins with "Mutant" and whose name
extends that of the next definition (`StopClose_NoWait`) is a plausible bug. It is
no part of the specification; `PROJECT.json` says which property finds it.

### StreamServer

Each thread has a control point (`hpc`, `wpc`); one action is the code between
two accesses to shared state. `Read` is `http_read_request` and the parsing: the
set `Requests` holds every outcome (nothing received, no request line, incomplete
headers, other methods, a missing key), and `HttpRoute`/`StreamRoute` are the two
handlers' case distinctions, which differ: the stream port looks neither at the
method nor at the end of the headers. `TryFree`, `StoreKey`, `StoreMode`,
`Publish`, `Give` are `stream_try_start`; `StopRead`, `StopClose`, `StopDone`,
`StopTimeout` are `stream_force_stop`; `Take` to `Release` are
`stream_thread_fn`.

`fdt` maps each descriptor number to the connection behind it: `accept` takes any
free number (Zephyr takes the lowest, which is one of the behaviours), `zsock_close`
frees it, closing a closed number does nothing. Clients connect, leave at any
time, and may read slowly: a send may always fail and succeeds only on an open
socket with its client there.

The threads may be interleaved in any way. Their priorities allow less; what holds
here holds for them. Abstracted: bytes and sizes, partial sends, the 503 and 404
texts, waits for the peer's close (time only, since they end by themselves),
`poll` errors, the cases of the stream handlers in which `frame_source_get`
fails, which it never does (`frame_source.c:52-54`).

`claimConn` and `claimMode` are history: connection and mode of the claim that
stands in the slot. `hconn` is history too: the connection accepted on `hfd`; and so is
`forced`, which says whether a forced stop has closed a descriptor yet (`"waited"`)
and whether one has ended by its 50 polls instead of by the worker (`"gaveUp"`, possible
at any poll). What a property promises only up to that point says so.

### CamCapture

Data are chunks, one DMA buffer each, marked with frame, place and whether the
buffer began at a chunk boundary of the frame (a restart in the middle of a frame
does not). The camera sends `VSYNC`, a blanking, then up to `Chunks` chunks. The
DMA engine does not look at the owner bit (`check_owner = 0`); a buffer interrupt
raised while one is pending is merged into it, at most `MaxMissed` times per start
of the DMA. The interrupts of one frame may come in either order. The thread may be
preempted anywhere: `late` is history and says that in this capture the frame's first line
came before the thread had restarted the DMA, which is when `OneFrame` promises nothing.
`Deadline` lets the 5 s deadline pass at any time. `hw_prepare`, `hw_dma_start` and
`hw_stop` are one step each: the DMA is idle or leaving, or its descriptors are empty, so
that a handler in between does nothing. `cam_i2s_hw_prepare(999)` is `NeverSkipped`, which
is not counted down: 200 ms are three frames.

### JpegFixup

Bytes are numbers and buffers functions from 0, as in the code; `Stale` is a byte that is
not of this capture. A `Picture` is SOI, header segments from the first DQT to SOS, scan
data, EOI. `CaptureHeader` captures any piece of two pictures in a row, as
`extract_dqt_tables` does; `FindDqt` to `SosNotFound` are the walk in
`jpeg_extract_and_save_header`. `CaptureFrame` captures any piece of one picture with a
few other bytes around it. `SoiAtStart` to `Prepend` are the first half of
`jpeg_fixup_frame`, one action per branch; `TrimToEoi`, `AppendEoi`, `NoRoomForEoi` the
second. The search for the place where the capture resumes is `Matches`. A copy that would
go past the buffer ends in `Overrun`, and `RoomSuffices` says when that cannot happen.

History: `clean` (the header was looked for in a capture whose first DQT begins a whole
header) and `shot` (which picture was captured, from which byte to which). `ChangeResolution`
is `cam_i2s_reset_warmup` followed by the sensor's new header, between captures; a reset
during one is `ResolutionSwitch`'s. The bytes of an old saved header are zeroed here; they
are not read again before they are written.

### Sensor

A table of `ov2640_regs.h` is a sequence of bank selects and writes; `camera_init.c` and
`camera_config.c` put tables one behind the other, and each write is a step that may fail,
with or without its effect, which ends the call. An address means another register in the
other bank, so the model has `bank` as state of the sensor: a write while the wrong bank is
selected does not reach its register. `Restart` resets the processor and leaves the sensor;
every register is then `"old"`, that is, something the boot does not know. Registers that
only tune the picture are one register, `tuning`; output geometry and sensor array are one
each; those that no table names are `others`. A value is what it does or the resolution it is for.

A switch writes window, quality, JPEG coder, port and clock (`Shows`); sensor array, geometry and the
DSP's bypass are set by the boot only (`UxgaSensor`). `Configured` promises both (`Delivers`) after a
success if the boot has succeeded. The HTTP server serves resolution requests after a boot of the
camera that broke off too: then `Configured` promises the switch's own part, and `UxgaFirst`, which says
that a window is never written to a sensor without the rest, is violated (section 4).

The same operations are three coarse steps in `ResolutionSwitch`, where they meet captures. That the
two agree is stated by `SensorConfig`, which both implement: the sensor as its window, its quality,
whether the port is held in reset and what the last call returned; a switch as a sequence of parts, each
of which is written completely before the next begins, may be cut short anywhere, and ends then. `Sensor`
maps its registers to it (`Window`: all three window registers show the same resolution) and the writes
left of a sequence to the part they belong to (`Stage`); there each write is a step. In `ResolutionSwitch`
a part is one step.

### Wire

A handler sends parts. Of a part the model has its kind, its number of bytes and, if it
is a header, what it tells the client to read next. `SendSome` sends any number of bytes of
the first part, `SendFails` ends the handler, as every caller of `http_sendall` does but
one (`Ignores`). The client (`due`, `mid`) reads what it was told to read; `inStep` is
history: no byte has been taken for something it is not. Lengths are scaled down:
`ShortLimit` is 126 and `FieldSize` 2^16. The handshake's input is its length only.
The route, the slot and the descriptor are `StreamServer`'s.

### ResolutionSwitch

`camera_init`, then the first capture in `frame_source_init`, then the HTTP thread
(`hpc`) and the stream worker (`wpc`). `stream_try_start` to `Release` are the slot and
the worker of `StreamServer`, without sockets and reduced to what takes time: a wait
has a timeout in `left`, the forced stop has `budget`, and `Tick` lets a second pass in
both. A step that is not a wait takes no time, and no wait runs past its end (`Tick`
is not possible then). A send or a blanking may end at any second of its wait. Capture is
the outline of `CamCapture`: its calls, its two waits and the flags that
`cam_i2s_reset_warmup` can change under it from the other thread.

`window`, `quality` and `held` are the sensor's registers: the output window, `QS`, and
the DVP reset that the JPEG table opens with and closes at its end. `Mixed` is a window
of which not all registers are written. `seen` is what a capture copies, as the set of
windows the sensor had meanwhile; a saved header has the window it was copied from.
`WriteWindow`, `WriteJpeg`, `WriteClock` are the three parts of
`camera_set_resolution`; each may break off at any register, with or without an effect of the
last write, which ends the request.

History: `applied` (the last configuration succeeded), `overtaken` (a forced stop has
given up on a capture, and no later switch has found the slot free), `warmedBy` (the
windows of the capture that set `warmed_up`), `spent` (seconds of capture and send
since the forced stop began).

Abstracted: the 200 ms of the header extraction, the 500 us of the drain, the sleeps of
10 and 30 ms and the transfers take no time; the 50 polls of 100 ms are 5 s. They last
5.0 s to 5.5 s, depending on the tick of the system clock, and a capture up to
5.2 s, so that on one build the stop outlasts every capture and on another it does not:
the model has the second. After a boot without a camera, or with a first capture that
failed, the test pattern is sent for ever; a request still writes the sensor.

### WifiManager

The interface (`lease`) is external. A new address (`Assign`), a lost link and a failed attempt
to associate (`LinkLost`) each put an event in the queue; a handler runs later and reads the
interface as it is then. An address that DHCP takes away while the link stays up (`LeaseLost`)
puts none there: it raises `NET_EVENT_IPV4_ADDR_DEL` only, which the program does not subscribe
to (`wifi_manager.c:133`). `lapsed` is history: the last address was lost that way. Without one,
`Settled` allows to be connected only then. The net_mgmt queue of 10 events loses none here: `Raise` waits
for room. `MaxDrops` bounds disconnections.

### LedControl

The main thread's heartbeat is one step for the HTTP thread (priority 0 against 7, one
core, no wait in it), except that it reads `connected` in a step of its own. An
`/api/led` command is split at every access to shared state, and heartbeats may come in
between. `want` is history: what the last command asked for. The connection state is
somebody else's here (`WifiChange`).

### Device

`main.c` composes the two: `LedBoot` is the blinking, `BootWifi` runs
`wifi_manager_init`, `BootDone` takes its result, `CameraBoot`, `ServerBoot` and
`WatchdogBoot` are the rest of the boot, each of which may fail and is passed over, `Loop`
is the heartbeat. The variable `connected` is shared: `Handler` writes it in the net_mgmt
thread, `Look` reads it in the main thread. `Device` implements `LedControl`
(`ImplementsLed`): that the connection state changes only after the boot blinks and that
commands come only after `wifi_manager_init` are assumptions of `LedControl` and facts of
`main.c`. The HTTP thread runs only if the server was started.

`Hang` stops the main thread in a driver, for good. `WatchdogReset` happens when the
watchdog was started and nobody feeds it, and starts everything anew: all of the program's
state, the event queue and the interface. Nothing of this program outlives a reset but the
sensor's registers (`Sensor`).

## 3. Runs

| run | checks | instance | result |
|---|---|---|---|
| `StreamServer` | `TypeOK`, `NoLeak`, `NoLostWakeup`, `ServesTheClaim`, `WorkerTouchesItsClient`, `RepliesUnforced`, `ImplementsSlot`; `ClaimTakenUp`, `BacklogServed`, `SlotReleased` | 2 clients, 2 descriptors, backlog 1, all paths, forced stop may give up | holds, 261 000 states |
| `StreamServerCooldown` | `ReplyReachesRequester` | 2 clients | violated |
| `ResolutionSwitch` | `TypeOK`, `SwitchForcesWarmup`, `FrameFits`, `StopSuffices` | 2 resolutions, any timeouts, any failing write | holds, 1.97 million states |
| `Sensor` | `TypeOK`, `InItsBank`, `Configured`, `BootLasts`, `ConfigSteps` | 3 resolutions, any failing write, any resets | holds, 118 000 states |
| `CamCapture` | `TypeOK`, `OneFrame`, `FrameStable`; `CaptureEnds` | frames up to 3 chunks, 2 buffers, room for 2, 1 merged interrupt, thread may be late, timeouts | holds, 431 000 states |
| `CamCaptureTimeout` | `ReturnsWholeFrame` | frames up to 2 chunks, 2 buffers, 2 merged interrupts, thread may be late, timeouts | violated |
| `JpegFixup` | `TypeOK`, `SavedIsHeader`, `Framed`, `Restored`, `RoomSuffices` | 3 headers, 2 scans, buffer of 32 bytes, headers up to 19 | holds, 168 000 states |
| `JpegFixupPartial` | `HeaderComplete` | the same | violated |
| `Wire` | `WireTypeOK`, `InStep`, `Complete` | frames of 1 to 7 bytes with a field of 8, 2 pages, 6 keys | holds, 443 states |
| `WireLength` | `WsInStep` | frames up to 9 bytes with a field of 8 | violated |
| `Device` | `DeviceTypeOK`, `Settled`, `Counters`, `CommandHolds`, `ReportsLink`, `LedShowsLink`, `ImplementsLed`, `HangEnds`, `ResetsHangOnly` | 2 addresses, 2 disconnections per boot, queue of 3, 1 boot blink | holds, 388 000 states |
| `DeviceBlink` | `BlinksWhenDown` | the same | violated |

Eight more configurations are no runs of the project, since what they show is stated in section 4 in a
sentence, but they are kept beside it for a reader who wants the behaviour. TLC finds each of them violated:

| configuration | module | violates |
|---|---|---|
| `CamCaptureLate.cfg` | `CamCapture` | `VsyncDelimited` |
| `CamCaptureOvertaken.cfg` | `CamCapture` | `CompleteInTime` |
| `SensorWindow.cfg` | `Sensor` | `UxgaFirst` |
| `JpegFixupRoom.cfg` | `MCJpegFixup` | `WithinCapacity` |
| `WireAnswer.cfg` | `Wire` | `AnswersInStep` |
| `DeviceLease.cfg` | `Device` | `ConnectedHasAddress` |
| `DeviceIp.cfg` | `Device` | `NoIpWhenDown` |
| `DevicePower.cfg` | `Device` | `PowerSaveDisabled` |

Why the bounds are enough. *StreamServer*: a conflict needs one client in the HTTP
thread and one in the slot; clients come back for ever, so that a third to wait is one that
has left and come again; two descriptors are all that the two threads can hold, and make
reuse immediate. The safety properties hold for any number of clients, descriptors and waiting
connections (section 5); the run adds the liveness. The state space is finite with no bound on
the length of a behaviour. *CamCapture*: `Cap` below `Chunks` makes the frame
buffer overflow, two buffers make the ring wrap and fill, one warm-up frame separates the warm
and the cold case, two frame numbers tell neighbours apart. *JpegFixup*: the buffer is shorter
than a picture with a header injected, one header is too large to be saved, all
tables begin with the same four bytes, one scan is longer than the marker search: every branch is
taken.
*Sensor*: one resolution that the boot sets and two it does not; the state is finite.
*Wire*: frames below, at and above `ShortLimit` and up to the largest that fits the field; any
cut of any part. *ResolutionSwitch*: two resolutions make an old and a new one, and `Mixed` a third; the
timeouts are the code's own, and nothing else is bounded. *Device*: two addresses
and two disconnections give every order of two cycles with a failure between, a queue of three lets
the handlers lag behind a whole cycle; blinks after the first repeat it; resets and lapsed leases are
not bounded.

Fairness. *StreamServer*: weak fairness of each thread. Both are always ready or
waiting on something with a timeout (receives 2 s, sends 5 s, peer waits 1 s, captures 5 s), the
HTTP thread waits for the slot only in the forced stop, and the lower-priority worker
gets the core because the HTTP thread sleeps in `poll`, in receives and in the forced
stop. Nothing is assumed of clients. `SlotReleased` excepts behaviours in which a
forced stop gave up: the worker's closed number may then be given to a new client and the
old stream goes on there. *CamCapture*: frames come, interrupts are handled, the thread
runs; strong fairness of `Drain` because a handler takes less time than filling a buffer,
so that moments with nothing pending recur; no fairness of deadlines, which `CaptureEnds` does
without. *Device*: weak fairness of the main thread,
which has the highest priority of the application and whose sleeps end, of the
net_mgmt thread, and of the watchdog, whose 30 s pass. No link has to come up, no command has to
come or to be finished, nothing has to hang.

Deadlock is checked in every run. A thread that has ended or hangs (`Dead`, `Ended`) and a copy
past the buffer (`Overrun`) are stuttering steps of their own.

Two more invariants are proved and in no run: `QuietSwitch` of `StreamServer` (the camera is
switched only with the stream over, unless a forced stop gave up) and `AppliedMeansSet` of
`ResolutionSwitch`, of which `Sensor`'s `Configured` is the finer form; likewise the action property
`ResetForcesExtraction` of `CamCapture`, which `SwitchForcesWarmup` takes up in the program, and the two
refinements of `ResolutionSwitch`, `ConfigSteps` and `SlotKept`, whose finer forms `Sensor` and `StreamServer`
have in their runs. `HashFits` and `TypeOK` of `Wire` are checked together, as `WireTypeOK`.

## 4. What the runs found

Five runs show the code doing something other than what a comment says of it (`findings` in
`PROJECT.json` quotes each). A property of a passing run states what does hold, and names the exception:

1. `StreamServerCooldown`: a resolution request that arrives in the worker's cooldown closes a
   number that may be the requester's own socket (`stream_handler.c:116`). `RepliesUnforced` holds
   until a descriptor is closed by force.
2. `CamCaptureTimeout`: a capture that times out within the frame returns 0 (`cam_i2s_capture.c:85`).
   `ReturnsWholeFrame` would fail in two more ways without that. A preemption between the VSYNC edge
   and the restart of the DMA gives a frame without its beginning (`cam_i2s_capture.c:81`,
   `CamCaptureLate.cfg`), which `OneFrame` excepts by `late`. A handler that is a whole ring behind
   loses chunks (`cam_i2s_hw.c:150`, `CamCaptureOvertaken.cfg`); `OneFrame` holds with fewer merged
   interrupts than descriptors.
3. `JpegFixupPartial`: the saved header may begin with a later table or end in bytes that were not
   captured (`cam_jpeg_fixup.c:88`). `SavedIsHeader` supposes a capture whose first DQT begins a header.
4. `WireLength`: a WebSocket frame of 64 KB or more is announced with the wrong length
   (`ws_protocol.c:171`). `InStep` supposes frames that fit.
5. `DeviceBlink`: the LED stays dark while no connection comes, where the comment says "blink"
   (`led_control.c:75`). `BlinksWhenDown` would fail in another way without that: an address that is lost
   with the link up leaves the program connected (`wifi_manager.c:59`, `DeviceLease.cfg`; `wifi_manager.h:23`
   says "Check if WiFi is connected and IP address is assigned") and the LED lit. `Settled` and
   `LedShowsLink` except it by `lapsed`.

Five more were met, each with its configuration:

- Power save stays on if the first connection is late (`wifi_manager.c:150`): `wifi_manager_init` returns
  before `esp_wifi_set_ps`, and `README.md:11` of the program says "power save disabled" (`DevicePower.cfg`).
- After a disconnection `wifi_manager_get_ip` still returns the old address (`wifi_manager.c:54`), while
  `wifi_manager.h:31` says "0.0.0.0" (`DeviceIp.cfg`).
- After a boot that broke off a switch returns 0 on a sensor that is not set up (`camera_config.c:206`), while
  `ov2640_regs.h:308` says "UXGA sensor resolution (needed before any windowing)" (`SensorWindow.cfg`).
  `Configured` promises less then.
- A header is put in front of a frame with no test of the room (`cam_jpeg_fixup.c:187`, 209), while
  `cam_jpeg_fixup.h:40` names the buffer's total capacity (`JpegFixupRoom.cfg`). `RoomSuffices` says which
  room is enough.
- The body of the answer to a failed switch is sent even if its header was not (`http_api.c:254`), while
  `http_api.h:28` says "a complete HTTP response" (`WireAnswer.cfg`). `InStep` excepts this answer.

Noted while modelling, with no configuration:

- Buffers still full when the frame's end is seen are dropped (`cam_i2s_hw.c:145`), although
  `cam_i2s_capture.c:89` says "Let ISR drain remaining descriptors".
- If all of a picture's header is lost, nothing of it matches and the saved header is put in before
  the first marker that was captured, which may be the picture's EOI; `Restored` asks for a marker
  of the header.
- After a failed switch `camera_get_resolution` returns the old resolution although the window may
  be the new one (`camera_config.c:206`), and `camera_init.h:39` ascribes to
  `camera_set_resolution` a reset of the header cache that its caller does (`http_api.c:243`).

## 5. Proofs

`StreamServer_proofs` proves, for any finite or infinite sets of connections and
descriptors, any `Paths` and any backlog (assumption `ConstAssumption` only, unless
stated):

- `Invariant`: `Spec => []IInv`. `NoLostWakeup`, `NoLeak` and `ServesTheClaim` are
  not inductive alone. `HttpInv` adds what each control point of the HTTP thread knows:
  that the slot stays free between the test and `Publish`, that key and mode
  written before `Publish` are the client's, that the stream port comes to
  `stream_try_start` with a free slot. `ClaimInv` says that the claim in the slot
  carries its connection's mode and key. `ClosedInv` says of a number
  that the worker has closed and not yet released that it is free or in use by the HTTP thread's
  client, so that `NoLeak` survives `Release`.
- `TypeCorrect`, `DescriptorsOwned`, `WakeupsKept`, `ClaimServed`: four
  invariants of the run.
- `SwitchIsQuiet`, `WorkerKeepsToItsClient`, `AnswersReachAskers`: the three about forced
  stops, by `SwitchInv` and `TouchInv`. The latter is the ownership of numbers until a
  forced stop gives up: the HTTP thread's number is its client's except after a close
  of the slot's number, the slot's number is the stream's until the worker or the forced
  stop closes it, and then stays unused because the only thread that accepts is the one
  that waits. The condition on `forced` in `AnswersReachAskers` is needed:
  `StreamServerCooldown` is the counterexample without it.
- `SlotRefinement`: `StreamServer` implements `StreamSlot`. `Publish` is `Claim`,
  `Dispatch` is `Serve`, `Release` is `Release`, all other steps stutter.

`ResolutionSwitch_proofs` proves the invariants of that run and `AppliedMeansSet` for any set of resolutions
(assumption `ResAssumption`). `IInv` adds what they lean on: `ControlInv`, the slot is
busy while the worker works and the descriptor stays closed until the request is over;
`SettingInv`, what each register write has achieved; `FreshInv`, no capture is in
progress from the reset to the last write, and a capture at any other time copies one window
only; `WaitInv`, the account of the seconds since the close: what has passed is `spent`,
plus what is gone of the peer's wait and the cooldown. `FlagsStep` has the Boolean
variables on their own, which the SMT solver handles badly among the others. `ConfigStepsHold` is
the refinement of `SensorConfig`: `camera_init` is its `Boot` or `Booted`, `cam_i2s_reset_warmup` its
`Begin`, the three writes its parts, and all that worker, waits and forced stops do is a stutter
(`OthersStutter`). `SlotIsKept` is that of `StreamSlot`, by `ControlInv`: what is reduced to its timing
here keeps the promise that `StreamServer` keeps in detail.

`Sensor_proofs` proves every property of its run for any resolutions, that is, for a code with more of
them than three (`SensorAssumption`: no resolution is one of the other register values). The tables are
data, but what happens to them is not, since any of them may break off anywhere and any other follow. So
each table gets a lemma that says what it does, and a sequence of tables is joined from them:
`Banked`, every write comes after a selection of its bank with no selection or reset between;
`Settles`, the last thing done to a register is to give it a value; `Leaves`, a register is not
touched. The invariant says the same of what is left of the sequence (`todo`) together with what has been
written: `BankInv`, each write left finds its bank selected before it or already; `BootInv` and
`SwitchInv`, each configured register has its value or gets it; `BootedInv`, what the boot has set is
left alone; `AppliedInv`, after success all of it is there. From these follow `TypeCorrect`,
`WritesInTheirBank`, `AppliedIsConfigured` and `BootSettingsLast`. `ConfigStepsHold` is the refinement of
`SensorConfig`. It needs the place of each write left in its sequence (`PlaceInv`, `IsRest`): with 11
writes left no window register is among them, so that by `SwitchInv` all of them have their value, which is
what `SensorConfig` asks for before the next part; and that the boot shows nothing but QVGA.

`CamCapture_proofs` proves, for any number of chunks, buffers and warm-up frames:

- `TypeCorrect`: the frame buffer is never overrun. `FrameStable` (`FramesAreStable`) and
  `ResetForcesExtraction` follow from the flags alone.
- `FramesAreWhole`, if fewer interrupts are merged than there are descriptors
  (`MaxMissed < Bufs`). `OneFrame` speaks of the end of a capture; the invariant has to carry
  the ring from the restart on. `Lag` is how many buffers are full and unread: the merged
  interrupts and the pending one. `Ring(f, n)`: the last `Lag` of the `n` chunks of frame `f`
  stand in the ring behind `isr_next_desc`, in order; `Copied(f, n)`: the others are in
  `frame_buf`, as far as it has room. `EdgeInv` says that a thread in time restarts the DMA in
  the blanking with nothing pending, `FrameInv` that until the second edge is handled the ring
  is that of one frame, and that nothing is copied after it. With `MaxMissed >= Bufs` the DMA
  overtakes the handler and the frame has gaps.

`JpegFixup_proofs` proves, for any sizes, headers, scans and captures, `TypeCorrect` (every frame
lies in the buffer), `FramesAreFramed` and `RoomIsEnough`. `ShapeInv` adds that the walk goes
forward from the header's start, that a saved header begins with SOI, and that so does every
frame before its end is looked for.

The other two invariants of that run are about what a search finds in the camera's bytes, and hold only of
bytes like the camera's. What the code takes for granted of them is stated, as a hypothesis of
the theorems, and the instance that TLC checks has it (the `ASSUME` of `MCJpegFixup`):

- `Segmented`: a header is a chain of segments, each as long as its length field says, that begins with a DQT
  and ends with the SOS.
  Under it `SavedHeaderIsWhole` proves `SavedIsHeader`. `SavedInvariant` adds that the walk of
  `jpeg_extract_and_save_header` stands on the start of a segment of the camera's header whenever
  it looks at a marker, so that it can take nothing for SOS but the SOS.
- `Recognisable`: no marker of a header is SOI or EOI, each has its six bytes in the header and they
  stand nowhere before it; scan data have no markers (stuffed zeros see to it), and the few bytes before a picture
  no FF. Under both `FramesRestored` proves `Restored`.
  `FrameInvariant` relates the buffer to the picture that was captured: which bytes of which picture
  are where (`CapturedAt`), and what has been put in front of them (`Rebuilt`), so that the place the search
  finds is the place where the capture resumes.

`Wire_proofs` proves `TypeCorrect`, `ClientsInStep` and `HashInputFits` for any sizes (the first and the last
together are `TypesAndBuffers`), and
`ResponsesComplete` for frames that fit the length field (`Small`). `SyncInv` is the agreement
of the two ends: as long as nothing failed, the client reads exactly the first part of `todo`, has
as much of it before it as the program has left, and the parts behind lead from one to the next
(`WellSent`) to where the client waits for the next frame or the end. `GaveUpInv`: after
a failed send nothing more is sent, but by one handler.

`WifiManager_proofs` proves `StateSettles`, `TypeCorrect` and `CountersAgree` for any addresses, any
queue size and any number of disconnections. `Settled` alone is not inductive: `SettleInv`
adds that the last event of the queue is of an address exactly if the interface has one or has
lost it in a lapse, so that whoever handles the last one
finds what it announces or an address that went without an event. `CountersAgree` counts events in the queue as the cardinality of a set of
places, and needs how that set changes when an event is put in or taken out.

`Device_proofs` proves of `LedControl` alone `LedCommandsHold`, by the invariant that manual mode is on
from a command's first step, and `LedTypeCorrect`. It carries these and `WifiManager`'s over to the program: every step of `Device`, watchdog resets
included, is a step or a stutter of `WifiManager` (`ImplementsWifi`) and of `LedControl` (`LedRefinement`,
by the invariant `OrderInv`: until the blinks are over no connection was asked for and no event
raised), hence `DeviceSettles`, `DeviceTypes`, `DeviceCounters` and `DeviceCommandsHold`. `ResetsAreHangs`
proves `ResetsHangOnly`: in the loop the channel is known whenever the watchdog runs.

Every invariant, action property and refinement of a passing run is proved. Only model-checked is liveness,
which is out of the prover's reach, as is `ENABLED`: `ClaimTakenUp`, `BacklogServed`, `SlotReleased`,
`CaptureEnds`, `ReportsLink`, `LedShowsLink`, `HangEnds`.

## 6. Not modelled

- `html_pages.h` and the test pattern are data; so are the values of the registers that tune the
  picture.
- SHA-1's rounds and base64 compute only; the handshake is modelled by the lengths they rely on.
- The parsing of request lines and headers (`http_parse_request`, `http_find_header`) is one step
  with every outcome (`Requests`): it is string handling with no state of its own.
- `cam_i2s_hw_init` (registers, GPIO matrix, interrupt allocation) configures hardware once and
  keeps no state; diagnostics, logs, frame counters and fps are reported and never read back by
  the program.
- The network stack, the drivers and the shell scripts are outside the program. The loss of an
  event in the net_mgmt queue is the stack's (`wifi_manager.c:55` in the hazards).

## 7. What could come next

1. `AppliedMeansSet` proved once, of `SensorConfig`, and carried down by the two refinements.
2. The outline of a capture in `ResolutionSwitch` shown to be that of `CamCapture`.
3. The request parsers as functions over bounded inputs.
