-------------------------- MODULE ResolutionSwitch --------------------------
(***************************************************************************)
(* Changing the resolution: the HTTP thread stops the stream, resets the   *)
(* capture state and writes the sensor's registers (http_api.c,            *)
(* camera_config.c); the stream worker meanwhile captures, sends, waits    *)
(* for its peer and cools down (stream_handler.c, frame_source.c,          *)
(* cam_i2s_capture.c).  The forced stop waits 5 s, and whether that is     *)
(* enough is a matter of time, which is counted here in seconds: Tick lets *)
(* one pass, everything else takes none.  Waits for the bus, the 200 ms of *)
(* the header extraction and the 500 us of the drain count as no time.     *)
(*                                                                         *)
(* CamCapture has the inside of a capture; here it is its calls, its two   *)
(* waits and the flags that a reset can change under it.  A picture is the *)
(* set of windows the sensor had while its data were copied.               *)
(***************************************************************************)
EXTENDS Naturals

CONSTANTS
    Res,      \* enum camera_resolution
    Qvga,     \* CAM_RES_QVGA
    Mixed,    \* an output window of which not all registers are written
    None      \* no resolution

ASSUME ResAssumption ==
    /\ Qvga \in Res /\ Mixed \notin Res /\ None \notin Res \cup {Mixed}

(* The code's timeouts, in seconds.                                        *)
CaptureTimeout == 5   \* CAPTURE_TIMEOUT_MS
SendTimeout    == 5   \* STREAM_SEND_TIMEOUT_S
PeerWait       == 1   \* http_wait_for_peer_close(fd, 1000)
Cooldown       == 3   \* STREAM_CLOSE_COOLDOWN_S
StopBudget_Less == 4  \* Mutant: 40 polls
StopBudget     == 5   \* 50 polls of 100 ms

VARIABLES
    \* the sensor and the capture hardware
    window,       \* resolution of the output window registers
    quality,      \* resolution whose QS is written
    held,         \* the DVP port is held in reset
    ready,        \* cam_i2s_init has succeeded: frames and interrupts arrive
    \* camera_config.c, cam_i2s_capture.c, cam_jpeg_fixup.c, frame_source.c
    current_res, warmed_up,
    header,       \* resolution of the saved JPEG header
    camera_available,
    capturing,    \* the VSYNC handler counts edges
    extracting,   \* the DMA runs and its data are copied
    seen,         \* windows the sensor had while data were copied
    \* the stream worker and the slot
    busy,         \* stream_client_fd >= 0
    closed,       \* its descriptor was closed by force
    wpc, left,    \* control point, and seconds until its timeout
    out,          \* the frame being sent
    \* main until the server is started, then the HTTP thread
    hpc, target,
    budget,       \* seconds the forced stop will still wait
    \* history
    applied,      \* the last configuration of the sensor succeeded
    overtaken,    \* a switch did not wait for a capture that was running,
                  \* and none has found the slot free since
    warmedBy,     \* windows of the capture that set warmed_up
    spent         \* seconds of capture and send since the forced stop began

sensorVars  == <<window, quality, held, ready, current_res, applied>>
captureVars == <<warmed_up, header, capturing, extracting, seen, warmedBy>>
slotVars    == <<busy, closed>>
workerVars  == <<wpc, left, out>>
httpVars    == <<hpc, target, budget, overtaken>>
vars == <<sensorVars, captureVars, camera_available, slotVars, workerVars,
          httpVars, spent>>

Windows == Res \cup {Mixed}
Capturing == {"call", "dqt", "prepare", "blanking", "restart", "frame", "drain"}
Asking    == Capturing \cup {"begin", "get"}   \* captures before it sends
Working   == {"open", "blanking", "frame", "send"}
Timed     == Working \cup {"peer", "refused", "cooldown"}
Switching == {"reset", "window", "jpeg", "clock"}

Pictures == [kind : {"camera"}, hdr : Windows \cup {None}, data : SUBSET Windows]
Pattern  == [kind |-> "pattern", hdr |-> None, data |-> {}]
NoFrame  == [kind |-> "none",    hdr |-> None, data |-> {}]

(* What the sensor delivers.                                               *)
Output(w, h) == IF ready /\ ~h THEN {w} ELSE {}

Init ==
    /\ window = Mixed /\ quality = Mixed /\ held = FALSE /\ ready = FALSE
    /\ current_res = Qvga /\ warmed_up = FALSE /\ header = None
    /\ camera_available = FALSE
    /\ capturing = FALSE /\ extracting = FALSE /\ seen = {}
    /\ busy = FALSE /\ closed = FALSE
    /\ wpc = "idle" /\ left = 0 /\ out = NoFrame
    /\ hpc = "camera_init" /\ target = None /\ budget = 0
    /\ applied = FALSE /\ overtaken = FALSE /\ warmedBy = {} /\ spent = 0
-----------------------------------------------------------------------------
(* Boot, in main.                                                          *)

(* Any step may fail: the clock, the power pin, the probe, a table.  The   *)
(* I2S driver is initialised only after success.                           *)
camera_init ==
    /\ hpc = "camera_init"
    /\ \/ /\ window' = Qvga /\ quality' = Qvga /\ held' = FALSE
          /\ ready' \in BOOLEAN
          /\ applied' = TRUE
       \/ /\ window' \in {Mixed, Qvga} /\ quality' \in {Mixed, Qvga}
          /\ held' \in BOOLEAN
          /\ UNCHANGED <<ready, applied>>
    /\ hpc' = "frame_source_init" /\ wpc' = "call"
    /\ UNCHANGED <<current_res, captureVars, camera_available, slotVars, left,
                   out, target, budget, overtaken, spent>>

(* A capture returns: to frame_source_init, which keeps whether it worked, *)
(* or to frame_source_get, which replaces a failed one.                    *)
frame_source_get_Unchecked(ok, frame) == frame  \* Mutant: ret is not tested
frame_source_get(ok, frame) == IF ok THEN frame ELSE Pattern

Return(ok, frame) ==
    IF hpc = "frame_source_init"
    THEN /\ camera_available' = ok
         /\ hpc' = "idle" /\ wpc' = "idle" /\ left' = 0
         /\ UNCHANGED out
    ELSE /\ wpc' = "send" /\ left' = SendTimeout
         /\ out' = frame_source_get(ok, frame)
         /\ UNCHANGED <<camera_available, hpc>>
-----------------------------------------------------------------------------
(* The stream worker.                                                      *)

(* Streams send a handshake or a header before the first frame, snapshots  *)
(* do not.                                                                 *)
Begin ==
    /\ wpc = "begin"
    /\ \/ wpc' = "open" /\ left' = SendTimeout
       \/ wpc' = "get" /\ left' = 0
    /\ UNCHANGED <<sensorVars, captureVars, camera_available, slotVars, out,
                   httpVars, spent>>

(* Sent, or not: a header, or a handshake.                                 *)
Open ==
    /\ wpc = "open"
    /\ \/ ~closed /\ wpc' = "get" /\ left' = 0
       \/ wpc' \in {"peer", "refused"} /\ left' = PeerWait
    /\ UNCHANGED <<sensorVars, captureVars, camera_available, slotVars, out,
                   httpVars, spent>>

Get ==
    /\ wpc = "get"
    /\ IF camera_available
       THEN wpc' = "call" /\ UNCHANGED <<left, out>>
       ELSE wpc' = "send" /\ left' = SendTimeout /\ out' = Pattern
    /\ UNCHANGED <<sensorVars, captureVars, camera_available, slotVars,
                   httpVars, spent>>

hw_start ==
    /\ extracting' = TRUE
    /\ seen' = Output(window, held)

hw_stop == capturing' = FALSE /\ extracting' = FALSE

Call ==
    /\ wpc = "call"
    /\ IF ~warmed_up /\ header = None
       THEN wpc' = "dqt" /\ capturing' = TRUE /\ hw_start
       ELSE wpc' = "prepare" /\ UNCHANGED <<capturing, extracting, seen>>
    /\ UNCHANGED <<sensorVars, warmed_up, header, warmedBy, camera_available,
                   slotVars, left, out, httpVars, spent>>

(* The header is the first one found in what was copied, if there is one.  *)
DqtEnd ==
    /\ wpc = "dqt"
    /\ hw_stop
    /\ header' \in {header} \cup seen
    /\ wpc' = "prepare"
    /\ UNCHANGED <<sensorVars, warmed_up, seen, warmedBy, camera_available,
                   slotVars, left, out, httpVars, spent>>

Prepare ==
    /\ wpc = "prepare"
    /\ capturing' = TRUE /\ extracting' = FALSE /\ seen' = {}
    /\ wpc' = "blanking" /\ left' = CaptureTimeout
    /\ UNCHANGED <<sensorVars, warmed_up, header, warmedBy, camera_available,
                   slotVars, out, httpVars, spent>>

(* Phase 1 ends with a VSYNC edge that the handler still counts.           *)
SeeBlanking ==
    /\ wpc = "blanking" /\ capturing /\ Output(window, held) # {}
    /\ wpc' = "restart"
    /\ UNCHANGED <<sensorVars, captureVars, camera_available, slotVars, left,
                   out, httpVars, spent>>

BlankingTimeout ==
    /\ wpc = "blanking" /\ left = 0
    /\ hw_stop
    /\ Return(FALSE, NoFrame)
    /\ UNCHANGED <<sensorVars, warmed_up, header, seen, warmedBy, slotVars,
                   target, budget, overtaken, spent>>

Restart ==
    /\ wpc = "restart"
    /\ hw_start
    /\ wpc' = "frame"
    /\ UNCHANGED <<sensorVars, warmed_up, header, capturing, warmedBy,
                   camera_available, slotVars, left, out, httpVars, spent>>

(* Phase 3 ends with the next edge, or silently at the deadline.           *)
SeeDone ==
    /\ wpc = "frame"
    /\ left = 0 \/ (capturing /\ Output(window, held) # {})
    /\ wpc' = "drain"
    /\ UNCHANGED <<sensorVars, captureVars, camera_available, slotVars, left,
                   out, httpVars, spent>>

(* Nothing was copied: -ENODATA.                                           *)
Empty ==
    /\ Return(FALSE, NoFrame)
    /\ UNCHANGED <<warmed_up, warmedBy>>

(* jpeg_fixup_frame finds no marker, finds the picture's own header, or    *)
(* injects the saved one.                                                  *)
Filled ==
    /\ seen # {}
    /\ warmed_up' = TRUE /\ warmedBy' = seen
    /\ \/ Return(FALSE, NoFrame)
       \/ \E h \in seen \cup {header} :
             Return(TRUE, [kind |-> "camera", hdr |-> h, data |-> seen])

FrameEnd ==
    /\ wpc = "drain"
    /\ hw_stop
    /\ Empty \/ Filled
    /\ UNCHANGED <<sensorVars, header, seen, slotVars, target, budget, overtaken,
                   spent>>

(* Sent: the next frame, or the end of a snapshot.  A send can fail at any *)
(* time, and on a descriptor that was closed it does.                      *)
Send ==
    /\ wpc = "send"
    /\ \/ ~closed /\ wpc' = "get" /\ left' = 0
       \/ wpc' = "peer" /\ left' = PeerWait
    /\ out' = NoFrame
    /\ UNCHANGED <<sensorVars, captureVars, camera_available, slotVars,
                   httpVars, spent>>

Peer ==
    /\ wpc = "peer"
    /\ wpc' = "cooldown" /\ left' = Cooldown
    /\ UNCHANGED <<sensorVars, captureVars, camera_available, slotVars, out,
                   httpVars, spent>>

(* A refused handshake has no cooldown.                                    *)
Release ==
    /\ wpc = "refused" \/ (wpc = "cooldown" /\ left = 0)
    /\ wpc' = "idle" /\ left' = 0
    /\ busy' = FALSE /\ closed' = FALSE
    /\ UNCHANGED <<sensorVars, captureVars, camera_available, out, httpVars,
                   spent>>

Worker ==
    \/ Begin \/ Open \/ Get \/ Call \/ DqtEnd \/ Prepare \/ SeeBlanking
    \/ BlankingTimeout \/ Restart \/ SeeDone \/ FrameEnd \/ Send \/ Peer
    \/ Release
-----------------------------------------------------------------------------
(* The HTTP thread.                                                        *)

stream_try_start ==
    /\ hpc = "idle" /\ ~busy
    /\ busy' = TRUE
    /\ wpc' = "begin"
    /\ UNCHANGED <<sensorVars, captureVars, camera_available, closed, left, out,
                   httpVars, spent>>

(* The number of a descriptor closed by force is given to a new client.    *)
Reuse ==
    /\ hpc = "idle" /\ closed
    /\ closed' = FALSE
    /\ UNCHANGED <<sensorVars, captureVars, camera_available, busy, workerVars,
                   httpVars, spent>>

(* handle_api_resolution, as far as the close in stream_force_stop.        *)
Request ==
    /\ hpc = "idle"
    /\ target' \in Res
    /\ IF busy
       THEN /\ hpc' = "stop" /\ budget' = StopBudget /\ closed' = TRUE
            /\ UNCHANGED overtaken
       ELSE /\ hpc' = "reset" /\ overtaken' = FALSE
            /\ UNCHANGED <<budget, closed>>
    /\ spent' = 0
    /\ UNCHANGED <<sensorVars, captureVars, camera_available, busy, workerVars>>

(* Mutant: the forced stop returns after the close. *)
StopDone_Early ==
    /\ hpc = "stop"
    /\ hpc' = "reset" /\ budget' = 0 /\ overtaken' = FALSE
    /\ UNCHANGED <<sensorVars, captureVars, camera_available, slotVars,
                   workerVars, target, spent>>

StopDone ==
    /\ hpc = "stop" /\ ~busy
    /\ hpc' = "reset" /\ budget' = 0 /\ overtaken' = FALSE
    /\ UNCHANGED <<sensorVars, captureVars, camera_available, slotVars,
                   workerVars, target, spent>>

StopTimeout ==
    /\ hpc = "stop" /\ busy /\ budget = 0
    /\ hpc' = "reset"
    /\ overtaken' = (overtaken \/ wpc \in Asking)
    /\ UNCHANGED <<sensorVars, captureVars, camera_available, slotVars,
                   workerVars, target, budget, spent>>

(* Mutant: the warmup flag survives. *)
cam_i2s_reset_warmup_KeepWarm ==
    /\ hpc = "reset"
    /\ hw_stop
    /\ header' = None /\ applied' = FALSE
    /\ hpc' = "window"
    /\ UNCHANGED <<window, quality, held, ready, current_res, seen, warmed_up,
                   warmedBy, camera_available, slotVars, workerVars, target,
                   budget, overtaken, spent>>

cam_i2s_reset_warmup ==
    /\ hpc = "reset"
    /\ hw_stop
    /\ warmed_up' = FALSE /\ header' = None /\ applied' = FALSE
    /\ hpc' = "window"
    /\ UNCHANGED <<window, quality, held, ready, current_res, seen, warmedBy,
                   camera_available, slotVars, workerVars, target, budget,
                   overtaken, spent>>

(* The three parts of camera_set_resolution.  A write may fail at any      *)
(* register of a table, with or without an effect, and ends the request.   *)
(* A capture that is running sees what the sensor delivers then.           *)
SensorWrite(pc, next, w, h) ==
    /\ hpc = pc /\ hpc' = next
    /\ window' = w /\ held' = h
    /\ seen' = IF extracting THEN seen \cup Output(w, h) ELSE seen
    /\ UNCHANGED <<ready, warmed_up, header, capturing, extracting, warmedBy,
                   camera_available, slotVars, workerVars, target, budget,
                   overtaken, spent>>

WriteWindow ==
    /\ \/ SensorWrite("window", "jpeg", target, held)
       \/ \E w \in {window, Mixed, target} : SensorWrite("window", "idle", w, held)
    /\ UNCHANGED <<quality, current_res, applied>>

(* The JPEG table holds the DVP port in reset until its last register.     *)
WriteJpeg ==
    /\ \/ SensorWrite("jpeg", "clock", window, FALSE)
       \/ \E h \in BOOLEAN : SensorWrite("jpeg", "idle", window, h)
    /\ UNCHANGED <<quality, current_res, applied>>

(* camera_apply_jpeg_settings, whose last register is QS, and the end.     *)
WriteClock ==
    /\ SensorWrite("clock", "idle", window, held)
    /\ \/ quality' = target /\ current_res' = target /\ applied' = TRUE
       \/ quality' \in {quality, target} /\ UNCHANGED <<current_res, applied>>

Http ==
    \/ stream_try_start \/ Request \/ StopDone \/ StopTimeout
    \/ cam_i2s_reset_warmup \/ WriteWindow \/ WriteJpeg \/ WriteClock
-----------------------------------------------------------------------------
(* A second passes.  Only in the waits, and none runs past its end.        *)
Tick ==
    /\ wpc \in Timed /\ left > 0
    /\ hpc \in {"frame_source_init", "idle", "stop"}
    /\ hpc = "stop" => budget > 0
    /\ left' = left - 1
    /\ budget' = IF hpc = "stop" THEN budget - 1 ELSE 0
    /\ spent' = IF hpc = "stop" /\ wpc \in Working THEN spent + 1 ELSE spent
    /\ UNCHANGED <<sensorVars, captureVars, camera_available, slotVars, wpc,
                   out, hpc, target, overtaken>>

Next == camera_init \/ Worker \/ Http \/ Reuse \/ Tick

Spec == Init /\ [][Next]_vars
-----------------------------------------------------------------------------
(* The sensor as camera_config.c promises it.                              *)
Stage ==
    CASE hpc = "camera_init" -> "boot"
      [] hpc \in {"window", "jpeg", "clock"} -> hpc
      [] OTHER -> "idle"

Config == INSTANCE SensorConfig WITH
    stage <- Stage, target <- IF Stage \in {"window", "jpeg", "clock"} THEN target ELSE None

(* Whatever the worker does meanwhile, the sensor is configured as         *)
(* camera_config.c promises, which is also what Sensor does write by       *)
(* write: the parts in their order, none begun before the last is          *)
(* complete, and success only after all.                                   *)
ConfigSteps == Config!Spec

(* The slot as stream_handler.h promises it, and as StreamServer has it in *)
(* detail: a claim finds it free, is taken up once, and holds it until the *)
(* worker is done, although a forced stop closes the descriptor and may    *)
(* give up.                                                                *)
Slot == INSTANCE StreamSlot WITH
    Conns <- {"client"}, NoConn <- "none",
    holder <- IF busy THEN "client" ELSE "none",
    stage <- IF ~busy THEN "free" ELSE IF wpc = "begin" THEN "claimed" ELSE "serving"

SlotKept == Slot!Spec
-----------------------------------------------------------------------------
FlagsOK ==
    /\ held \in BOOLEAN /\ ready \in BOOLEAN /\ warmed_up \in BOOLEAN
    /\ camera_available \in BOOLEAN
    /\ capturing \in BOOLEAN /\ extracting \in BOOLEAN
    /\ busy \in BOOLEAN /\ closed \in BOOLEAN
    /\ applied \in BOOLEAN /\ overtaken \in BOOLEAN

(* Every variable keeps to its values; what is sent is a frame.            *)
TypeOK ==
    /\ FlagsOK
    /\ window \in Windows /\ quality \in Windows /\ current_res \in Res
    /\ header \in Windows \cup {None}
    /\ seen \subseteq Windows /\ warmedBy \subseteq Windows
    /\ wpc \in Capturing \cup Timed \cup {"idle", "begin", "get"}
    /\ hpc \in Switching \cup {"camera_init", "frame_source_init", "idle", "stop"}
    /\ target \in Res \cup {None}
    /\ left \in 0 .. 5 /\ budget \in 0 .. 5 /\ spent \in 0 .. 5
    /\ out \in IF wpc = "send" THEN Pictures \cup {Pattern} ELSE {NoFrame}

(* Between captures and switches, the saved header and the warmup are of   *)
(* the sensor's present window: cam_i2s_reset_warmup "forces re-extraction *)
(* of JPEG header on next capture" and no capture has undone it; unless a  *)
(* switch overtook a capture, until one finds the slot free; but also      *)
(* after failed writes and forced stops that gave up in a send or a        *)
(* cooldown.                                                               *)
SwitchForcesWarmup ==
    hpc \notin Switching /\ wpc \notin Capturing /\ ~overtaken =>
        /\ header \in {None, window}
        /\ warmed_up => warmedBy = {window}

(* A camera frame that is sent has the data of one window and no header of *)
(* another (same condition).                                               *)
FrameFits ==
    wpc = "send" /\ out.kind = "camera" /\ ~overtaken =>
        \E w \in Windows : out.data = {w} /\ out.hdr \in {None, w}

(* After camera_set_resolution has returned 0, camera_get_resolution, the  *)
(* window and the quality agree and the port delivers, whatever failed     *)
(* before.                                                                 *)
AppliedMeansSet ==
    applied => current_res = window /\ quality = window /\ ~held

(* stream_force_stop's 50 polls are enough for the worker's waits for its  *)
(* peer and its cooldown: it gives up only if a capture or a send went on  *)
(* for at least a second after the close, and overtakes only a capture     *)
(* that has used up its own timeout.                                       *)
StopSuffices ==
    hpc = "stop" /\ busy /\ budget = 0 =>
        /\ spent > 0
        /\ wpc \in Asking => spent >= CaptureTimeout
=============================================================================
