----------------------------- MODULE CamCapture -----------------------------
(***************************************************************************)
(* Capturing one JPEG frame: the camera, the I2S DMA ring, the two         *)
(* interrupt handlers (cam_i2s_hw.c) and the thread that calls             *)
(* cam_i2s_capture_frame (cam_i2s_capture.c).                              *)
(*                                                                         *)
(* The unit of data is a chunk, one full DMA buffer.  A frame is a VSYNC   *)
(* edge, blanking, then any number of chunks up to Chunks; the bytes after *)
(* its last full buffer stay in the hardware.  A chunk carries its frame,  *)
(* its place in it, and whether it begins at a chunk boundary of the frame.*)
(* Frames are numbered modulo 2, enough to tell neighbours apart.          *)
(* Left out: the debug counters, the raw word samples and the logging.     *)
(***************************************************************************)
EXTENDS Naturals, Sequences

CONSTANTS
    Chunks,        \* most chunks in a frame
    Bufs,          \* DMA_BUF_COUNT
    Cap,           \* FRAME_BUF_SIZE, in chunks
    WarmupFrames,  \* WARMUP_FRAMES
    MaxMissed      \* buffer interrupts merged into a pending one, per DMA start

ASSUME ConstAssumption ==
    /\ Chunks \in Nat \ {0} /\ Bufs \in Nat \ {0} /\ Cap \in Nat \ {0}
    /\ WarmupFrames \in Nat /\ MaxMissed \in Nat

(* The 999 of cam_i2s_hw_prepare(999): not counted down, since the header  *)
(* extraction ends after a few frames.                                     *)
NeverSkipped == WarmupFrames + 1

VARIABLES
    \* the camera
    lines,          \* TRUE while a frame's data is sent, FALSE in the blanking
    pos,            \* chunks of the current frame sent so far
    fno,            \* number of the current frame
    \* I2S, DMA and interrupt hardware
    running,        \* DMA started
    aligned,        \* the buffer being filled began at a chunk boundary
    widx,           \* descriptor being filled
    desc,           \* per descriptor: full (owner = 0, length > 0) and its chunk
    pend, vpend,    \* pending DMA and VSYNC interrupts
    missed,         \* buffer interrupts merged since the DMA was started
    \* state shared by the interrupt handlers and the thread
    frame,          \* frame_buf up to frame_pos
    frame_done, vsync_blanking, capturing, vsync_skip_remaining,
    isr_next_desc, extract_active,
    \* the capture thread
    pc,
    warmed_up,
    header,         \* saved_header_len > 0
    ret,            \* result of the last capture
    stale,          \* history: no extraction attempted since the last reset
    late            \* history: in this capture the lines began before the thread
                    \* had restarted the DMA

camVars    == <<lines, pos, fno>>
dmaVars    == <<running, aligned, widx, desc, pend, missed>>
vsyncVars  == <<frame_done, vsync_blanking, capturing, vsync_skip_remaining>>
isrVars    == <<frame, isr_next_desc, extract_active>>
history    == <<stale, late>>
threadVars == <<pc, warmed_up, header, ret, history>>
vars == <<camVars, dmaVars, vpend, vsyncVars, isrVars, threadVars>>

Descs == 0 .. Bufs - 1
Chunk == [f : 0 .. 1, c : 1 .. Chunks, whole : BOOLEAN]
Pcs   == {"idle", "dqt", "prepare", "blanking", "restart", "extract", "frame",
          "drain", "stop", "get"}
Results == {"none", "ok", "ETIMEDOUT", "ENODATA", "EINVAL"}

(* An empty descriptor's data is never read again.                         *)
EmptyDesc == [full |-> FALSE, buf |-> [f |-> 0, c |-> 1, whole |-> FALSE]]

Init ==
    /\ lines = FALSE /\ pos = 0 /\ fno = 0
    /\ running = FALSE /\ aligned = FALSE /\ widx = 0 /\ missed = 0
    /\ desc = [d \in Descs |-> EmptyDesc]
    /\ pend = FALSE /\ vpend = FALSE
    /\ frame = <<>> /\ frame_done = FALSE /\ vsync_blanking = FALSE
    /\ capturing = FALSE /\ vsync_skip_remaining = 0
    /\ isr_next_desc = 0 /\ extract_active = FALSE
    /\ pc = "idle" /\ warmed_up = FALSE /\ header = FALSE /\ ret = "none"
    /\ stale = TRUE /\ late = FALSE
-----------------------------------------------------------------------------
(* The camera and the DMA hardware.                                        *)

(* The VSYNC interrupt is handled within the blanking.  The thread may not *)
(* be done by then: it polls, and can be preempted.                        *)
ThreadBehind == pc \in {"restart", "extract"} \/ (pc = "blanking" /\ vsync_blanking)

LinesBegin ==
    /\ ~lines /\ ~vpend
    /\ lines' = TRUE
    /\ late' = (late \/ ThreadBehind)
    /\ UNCHANGED <<pos, fno, dmaVars, vpend, vsyncVars, isrVars,
                   pc, warmed_up, header, ret, stale>>

(* One more buffer's worth of data.  The hardware does not look at the     *)
(* owner bit (check_owner = 0) and overwrites a buffer not yet read; an    *)
(* interrupt that is pending already is not counted twice.                 *)
ChunkSent ==
    /\ lines /\ pos < Chunks
    /\ pos' = pos + 1
    /\ IF running
       THEN /\ pend => missed < MaxMissed
            /\ desc' = [desc EXCEPT ![widx] =
                  [full |-> TRUE,
                   buf  |-> [f |-> fno, c |-> pos + 1, whole |-> aligned]]]
            /\ widx' = (widx + 1) % Bufs
            /\ pend' = TRUE
            /\ missed' = IF pend THEN missed + 1 ELSE missed
       ELSE UNCHANGED <<desc, widx, pend, missed>>
    /\ UNCHANGED <<lines, fno, running, aligned, vpend, vsyncVars,
                   isrVars, threadVars>>

Vsync ==
    /\ lines
    /\ lines' = FALSE /\ pos' = 0 /\ fno' = 1 - fno
    /\ vpend' = TRUE
    /\ aligned' = FALSE
    /\ UNCHANGED <<running, widx, desc, pend, missed, vsyncVars, isrVars,
                   threadVars>>

Camera == LinesBegin \/ ChunkSent \/ Vsync
-----------------------------------------------------------------------------
(* The interrupt handlers.                                                 *)

CountDown == IF vsync_skip_remaining = NeverSkipped
             THEN NeverSkipped ELSE vsync_skip_remaining - 1

(* Mutant: vsync_blanking follows the edges instead of latching the first. *)
vsync_isr_Toggle ==
    /\ vpend
    /\ vpend' = FALSE
    /\ IF ~capturing THEN UNCHANGED vsyncVars
       ELSE IF vsync_skip_remaining > 0
            THEN /\ vsync_skip_remaining' = CountDown
                 /\ UNCHANGED <<frame_done, vsync_blanking, capturing>>
            ELSE /\ vsync_blanking' = ~vsync_blanking
                 /\ frame_done' = (frame_done \/ vsync_blanking)
                 /\ UNCHANGED <<capturing, vsync_skip_remaining>>
    /\ UNCHANGED <<camVars, dmaVars, isrVars, threadVars>>

vsync_isr ==
    /\ vpend
    /\ vpend' = FALSE
    /\ IF ~capturing THEN UNCHANGED vsyncVars
       ELSE IF vsync_skip_remaining > 0
            THEN /\ vsync_skip_remaining' = CountDown
                 /\ UNCHANGED <<frame_done, vsync_blanking, capturing>>
            ELSE /\ vsync_blanking' = TRUE
                 /\ frame_done' = (frame_done \/ vsync_blanking)
                 /\ UNCHANGED <<capturing, vsync_skip_remaining>>
    /\ UNCHANGED <<camVars, dmaVars, isrVars, threadVars>>

(* Which chunks the DMA handler copies; the mutants forget one condition.  *)
Copies_NoBound    == extract_active /\ ~frame_done
Copies_AfterFrame == extract_active /\ Len(frame) < Cap
Copies            == extract_active /\ ~frame_done /\ Len(frame) < Cap

(* One interrupt handles one descriptor, the next in turn.                 *)
cam_i2s_isr ==
    /\ pend
    /\ pend' = FALSE
    /\ IF desc[isr_next_desc].full
       THEN /\ frame' = IF Copies THEN Append(frame, desc[isr_next_desc].buf)
                                  ELSE frame
            /\ desc' = [desc EXCEPT ![isr_next_desc] = EmptyDesc]
            /\ isr_next_desc' = (isr_next_desc + 1) % Bufs
       ELSE UNCHANGED <<frame, desc, isr_next_desc>>
    /\ UNCHANGED <<camVars, running, aligned, widx, missed, vpend, vsyncVars,
                   extract_active, threadVars>>
-----------------------------------------------------------------------------
(* The operations of cam_i2s_hw.c on the state they set.  Each is one step *)
(* for the handlers: prepare and stop run with the DMA idle or leaving,    *)
(* and while dma_start resets the ring its empty descriptors make the DMA  *)
(* handler do nothing.                                                     *)

hw_prepare(skip) ==
    /\ frame' = <<>>
    /\ frame_done' = FALSE
    /\ vsync_blanking' = FALSE
    /\ vsync_skip_remaining' = skip
    /\ capturing' = TRUE

hw_dma_start ==
    /\ desc' = [d \in Descs |-> EmptyDesc]
    /\ isr_next_desc' = 0
    /\ widx' = 0 /\ pend' = FALSE /\ running' = TRUE /\ missed' = 0
    /\ aligned' = ~lines

(* Mutant: the extraction flag stays set. *)
hw_stop_KeepExtract ==
    /\ running' = FALSE /\ aligned' = FALSE /\ widx' = 0 /\ missed' = 0
    /\ capturing' = FALSE
    /\ UNCHANGED extract_active

(* The DMA's place in the ring means nothing until it is started again.    *)
hw_stop ==
    /\ running' = FALSE /\ aligned' = FALSE /\ widx' = 0 /\ missed' = 0
    /\ extract_active' = FALSE
    /\ capturing' = FALSE
-----------------------------------------------------------------------------
(* cam_i2s_capture_frame, and the reset.                                   *)

(* Entry: extract_dqt_tables first, unless a header is saved already.      *)
Call ==
    /\ pc = "idle"
    /\ ret' = "none"
    /\ IF ~warmed_up /\ ~header
       THEN /\ hw_prepare(NeverSkipped)
            /\ extract_active' = TRUE
            /\ hw_dma_start
            /\ pc' = "dqt"
       ELSE /\ pc' = "prepare"
            /\ UNCHANGED <<dmaVars, vsyncVars, isrVars>>
    /\ UNCHANGED <<camVars, vpend, warmed_up, header, history>>

(* Its end after 200 ms: the header may be found in what was captured.     *)
DqtEnd ==
    /\ pc = "dqt"
    /\ hw_stop
    /\ header' \in IF frame = <<>> THEN {header} ELSE {header, TRUE}
    /\ stale' = FALSE
    /\ pc' = "prepare"
    /\ UNCHANGED <<camVars, desc, pend, vpend, frame_done,
                   vsync_blanking, vsync_skip_remaining, frame, isr_next_desc,
                   warmed_up, ret, late>>

Prepare ==
    /\ pc = "prepare"
    /\ hw_prepare(IF warmed_up THEN 0 ELSE WarmupFrames)
    /\ extract_active' = FALSE
    /\ hw_dma_start
    /\ pc' = "blanking"
    /\ UNCHANGED <<camVars, vpend, warmed_up, header, ret, history>>

(* Phase 1.                                                                *)
SeeBlanking ==
    /\ pc = "blanking" /\ vsync_blanking
    /\ pc' = "restart"
    /\ UNCHANGED <<camVars, dmaVars, vpend, vsyncVars, isrVars,
                   warmed_up, header, ret, history>>

BlankingTimeout ==
    /\ pc = "blanking" /\ ~vsync_blanking
    /\ hw_stop
    /\ ret' = "ETIMEDOUT"
    /\ pc' = "idle" /\ late' = FALSE
    /\ UNCHANGED <<camVars, desc, pend, vpend, frame_done,
                   vsync_blanking, vsync_skip_remaining, frame, isr_next_desc,
                   warmed_up, header, stale>>

(* Phase 2.                                                                *)
Restart ==
    /\ pc = "restart"
    /\ hw_dma_start
    /\ pc' = "extract"
    /\ UNCHANGED <<camVars, vpend, vsyncVars, frame, extract_active,
                   warmed_up, header, ret, history>>

ExtractStart ==
    /\ pc = "extract"
    /\ extract_active' = TRUE
    /\ pc' = "frame"
    /\ UNCHANGED <<camVars, dmaVars, vpend, vsyncVars, frame,
                   isr_next_desc, warmed_up, header, ret, history>>

(* Phase 3 ends with the frame, or silently at the deadline.               *)
SeeDone ==
    /\ pc = "frame" /\ frame_done
    /\ pc' = "drain"
    /\ UNCHANGED <<camVars, dmaVars, vpend, vsyncVars, isrVars,
                   warmed_up, header, ret, history>>

FrameTimeout ==
    /\ pc = "frame" /\ ~frame_done
    /\ pc' = "drain"
    /\ UNCHANGED <<camVars, dmaVars, vpend, vsyncVars, isrVars,
                   warmed_up, header, ret, history>>

(* k_busy_wait(500) lets the interrupts in that are pending.               *)
Drain ==
    /\ pc = "drain" /\ ~pend /\ ~vpend
    /\ pc' = "stop"
    /\ UNCHANGED <<camVars, dmaVars, vpend, vsyncVars, isrVars,
                   warmed_up, header, ret, history>>

Stop ==
    /\ pc = "stop"
    /\ hw_stop
    /\ pc' = "get"
    /\ UNCHANGED <<camVars, desc, pend, vpend, frame_done,
                   vsync_blanking, vsync_skip_remaining, frame, isr_next_desc,
                   warmed_up, header, ret, history>>

(* jpeg_fixup_frame finds a marker in the first bytes or fails.            *)
GetFrame ==
    /\ pc = "get"
    /\ IF frame = <<>>
       THEN ret' = "ENODATA" /\ UNCHANGED warmed_up
       ELSE ret' \in {"ok", "EINVAL"} /\ warmed_up' = TRUE
    /\ pc' = "idle" /\ late' = FALSE
    /\ UNCHANGED <<camVars, dmaVars, vpend, vsyncVars, isrVars,
                   header, stale>>

Thread == \/ Call \/ DqtEnd \/ Prepare \/ SeeBlanking
          \/ Restart \/ ExtractStart \/ SeeDone \/ Drain \/ Stop \/ GetFrame

(* CAPTURE_TIMEOUT_MS may expire at any time.                              *)
Deadline == BlankingTimeout \/ FrameTimeout

(* cam_i2s_reset_warmup, called by the HTTP thread between captures.  The  *)
(* call during one, after a forced stop that gave up, is ResolutionSwitch's.*)
cam_i2s_reset_warmup ==
    /\ pc = "idle"
    /\ hw_stop
    /\ warmed_up' = FALSE
    /\ header' = FALSE
    /\ stale' = TRUE
    /\ UNCHANGED <<camVars, desc, pend, vpend, frame_done,
                   vsync_blanking, vsync_skip_remaining, frame, isr_next_desc,
                   pc, ret, late>>

Next == \/ Camera \/ vsync_isr \/ cam_i2s_isr
        \/ Thread \/ Deadline \/ cam_i2s_reset_warmup

(* The hardware delivers frames, interrupts are handled, the thread runs.  *)
(* Handlers take less time than it takes to fill a buffer, so that there   *)
(* are moments with nothing pending (SF).  Nobody has to ask for a capture *)
(* or for a reset, and no deadline has to come.                            *)
Spec == Init /\ [][Next]_vars
FairSpec ==
    /\ Spec
    /\ WF_vars(LinesBegin) /\ WF_vars(Vsync)
    /\ WF_vars(vsync_isr) /\ WF_vars(cam_i2s_isr)
    /\ WF_vars(pc # "idle" /\ Thread)
    /\ SF_vars(Drain)
-----------------------------------------------------------------------------
(* Every variable keeps to its values; the frame buffer is never overrun.  *)
TypeOK ==
    /\ lines \in BOOLEAN /\ pos \in 0 .. Chunks /\ fno \in 0 .. 1
    /\ running \in BOOLEAN /\ aligned \in BOOLEAN /\ widx \in Descs
    /\ desc \in [Descs -> [full : BOOLEAN, buf : Chunk]]
    /\ pend \in BOOLEAN /\ vpend \in BOOLEAN /\ missed \in 0 .. MaxMissed
    /\ frame \in Seq(Chunk) /\ Len(frame) <= Cap
    /\ frame_done \in BOOLEAN /\ vsync_blanking \in BOOLEAN
    /\ capturing \in BOOLEAN /\ vsync_skip_remaining \in 0 .. NeverSkipped
    /\ isr_next_desc \in Descs /\ extract_active \in BOOLEAN
    /\ pc \in Pcs /\ warmed_up \in BOOLEAN /\ header \in BOOLEAN
    /\ ret \in Results
    /\ stale \in BOOLEAN /\ late \in BOOLEAN

(* What is captured is the beginning of one frame, its first chunk first,  *)
(* none missing between, none twice, nothing of another frame, if the      *)
(* thread restarted the DMA before the lines began.                        *)
OneFrame == pc = "get" /\ ~late =>
    \A i \in DOMAIN frame :
        frame[i] = [f |-> frame[1].f, c |-> i, whole |-> TRUE]

(* "Blocks until one complete VSYNC-delimited frame is received" and       *)
(* "negative errno on failure or timeout" (cam_i2s_capture.h:23, 26): what *)
(* is returned with 0 has seen its frame's end, and is captured from the   *)
(* first chunk on with none missing between, also by a thread that was     *)
(* late and by handlers that fell a ring behind.                           *)
ReturnsWholeFrame == ret = "ok" =>
    /\ frame_done
    /\ \A i \in DOMAIN frame :
         frame[i] = [f |-> frame[1].f, c |-> i, whole |-> TRUE]

(* The same of a frame whose end was seen ...                              *)
VsyncDelimited == pc = "get" /\ frame_done =>
    \A i \in DOMAIN frame :
        frame[i] = [f |-> frame[1].f, c |-> i, whole |-> TRUE]

(* ... and of one that a thread in time has captured, however late the     *)
(* buffers' interrupts are handled.                                        *)
CompleteInTime == frame_done => OneFrame

(* The returned data stays as it is "until next capture"                   *)
(* (cam_i2s_capture.h:24), interrupts still pending included.              *)
FrameStable == [][ret = "ok" /\ pc' = "idle" => frame' = frame]_vars

(* "Forces re-extraction of JPEG header on next capture"                   *)
(* (cam_i2s_capture.h:32): no capture goes ahead with a header, or the     *)
(* lack of one, from before the last reset.                                *)
ResetForcesExtraction == [][Prepare => ~stale]_vars

(* With a camera that delivers frames a capture ends without the help of   *)
(* its timeout, the thread late or not: no VSYNC edge it waits for is      *)
(* missed.                                                                 *)
CaptureEnds == pc # "idle" ~> pc = "idle" 
=============================================================================
