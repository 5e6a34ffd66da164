------------------------------ MODULE JpegFixup ------------------------------
(***************************************************************************)
(* Making a JPEG of what was captured: the header that is saved once after *)
(* every change of resolution, and the frame that gets its lost beginning  *)
(* and end back (cam_jpeg_fixup.c, called by cam_i2s_capture.c).           *)
(*                                                                         *)
(* Bytes are numbers, buffers functions from 0, as in the code.  A picture *)
(* is SOI, header segments from the first DQT to SOS, scan data, EOI.  A   *)
(* capture of a frame may miss the picture's beginning and end and have a  *)
(* few other bytes around it; the capture for the header is any piece of   *)
(* two pictures in a row.  Left out: the contents of the segments, except  *)
(* what tells two of them apart.                                           *)
(***************************************************************************)
EXTENDS Integers, Sequences

CONSTANTS
    BufSize,    \* FRAME_BUF_SIZE
    MaxHeader,  \* MAX_JPEG_HEADER
    ScanLimit,  \* bytes searched for a first marker (512)
    Headers,    \* headers, from the first DQT to SOS, a resolution may have
    Scans,      \* scan data: no marker in it
    Junk        \* what may stand around a captured picture: no 0xFF in it

FF  == 255
SOI == 216
EOI == 217
SOS == 218
DQT == 219

(* A byte of a buffer that is not of this capture.                         *)
Stale == 256
Byte  == 0 .. 256

ASSUME FixupAssumption ==
    /\ BufSize \in Nat \ {0} /\ MaxHeader \in Nat /\ MaxHeader >= 2
    /\ ScanLimit \in Nat
    /\ Headers \subseteq Seq(0 .. 255) /\ Scans \subseteq Seq(0 .. 255)
    /\ Junk \subseteq Seq(0 .. 255)

VARIABLES
    header,            \* the camera's header, by its resolution
    \* the program
    warmed_up, saved_jpeg_header, saved_header_len,
    frame_buf, frame_pos,
    pc, pos, hdr_start,          \* control point; locals of the header walk
    jpeg_ptr, jpeg_len, ret,     \* the frame, and the result of the last call
    \* history
    clean,             \* the saved header was looked for in a capture whose
                       \* first DQT begins a whole header
    shot               \* the picture captured, its first and last captured byte

savedVars == <<saved_jpeg_header, saved_header_len, clean>>
outVars   == <<jpeg_ptr, jpeg_len, ret>>
vars == <<header, warmed_up, savedVars, frame_buf, frame_pos, pc, pos,
          hdr_start, outVars, shot>>

Cells == 0 .. BufSize - 1
NoHeader == [i \in 0 .. MaxHeader - 1 |-> 0]
NoShot == [pic |-> <<>>, from |-> 1, to |-> 0]

Init ==
    /\ header \in Headers
    /\ warmed_up = FALSE
    /\ saved_jpeg_header = NoHeader
    /\ saved_header_len = 0 /\ clean = FALSE
    /\ frame_buf = [i \in Cells |-> Stale] /\ frame_pos = 0
    /\ pc = "idle" /\ pos = 0 /\ hdr_start = 0
    /\ jpeg_ptr = 0 /\ jpeg_len = 0 /\ ret = "none"
    /\ shot = NoShot
-----------------------------------------------------------------------------
(* The camera.                                                             *)

Picture(h, scan) == <<FF, SOI>> \o h \o scan \o <<FF, EOI>>

(* What the code takes for granted of the camera's pictures: a header is a *)
(* row of segments, FF, marker, length and data, the first a DQT and only  *)
(* the last an SOS ...                                                     *)
SegStarts(h, S) ==
    /\ 1 \in S /\ h[2] = DQT
    /\ \A p \in S :
         LET next == p + 2 + h[p + 2] * 256 + h[p + 3]
         IN IF h[p + 1] = SOS THEN next = Len(h) + 1 ELSE next \in S

Segmented ==
    \A h \in Headers :
        \E S \in SUBSET {p \in 1 .. Len(h) - 3 : h[p] = FF} : SegStarts(h, S)

(* ... and the six bytes from a marker on, not found before it, tell where *)
(* in the header it is.  Only the picture's ends look like SOI and EOI.    *)
MarkerAt(d, i) == d[i] = FF /\ d[i + 1] \in 192 .. 254

Recognisable ==
    /\ \A h \in Headers :
         /\ h[Len(h)] # FF
         /\ \A i \in 1 .. Len(h) - 1 : MarkerAt(h, i) =>
              /\ h[i + 1] \notin {SOI, EOI} /\ i + 5 <= Len(h)
              /\ \A k \in 1 .. i - 1 : \E n \in 0 .. 5 : h[k + n] # h[i + n]
    /\ \A s \in Scans : \A i \in 1 .. Len(s) - 1 : ~MarkerAt(s, i)
    /\ \A d \in Junk : \A i \in DOMAIN d : d[i] # FF

(* The bytes d at the start of the frame buffer.                           *)
Filled(d) == [i \in Cells |-> IF i < Len(d) THEN d[i + 1] ELSE Stale]

(* d has a whole header h, and no DQT before it.                           *)
HasHeader(d, h) ==
    \E i \in 1 .. Len(d) - Len(h) + 1 :
        /\ SubSeq(d, i, i + Len(h) - 1) = h
        /\ \A j \in 1 .. i - 1 : ~(d[j] = FF /\ d[j + 1] = DQT)
-----------------------------------------------------------------------------
(* extract_dqt_tables and jpeg_extract_and_save_header.                    *)

(* The first place where the predicate holds, for the scanning loops.      *)
IsFirst(i, S) == i \in S /\ \A j \in S : i <= j

Dqts == {i \in 0 .. frame_pos - 5 : frame_buf[i] = FF /\ frame_buf[i + 1] = DQT}

CaptureHeader ==
    /\ pc = "idle" /\ ~warmed_up /\ saved_header_len = 0
    /\ \E s \in Scans, t \in Scans :
         LET two == Picture(header, s) \o Picture(header, t)
         IN \E i, j \in 1 .. Len(two) :
              LET d == SubSeq(two, i, j)
              IN /\ i <= j /\ j - i < BufSize
                 /\ frame_buf' = Filled(d) /\ frame_pos' = Len(d)
                 /\ clean' = HasHeader(d, header)
    /\ pc' = "extract"
    /\ UNCHANGED <<header, warmed_up, saved_jpeg_header, saved_header_len,
                   pos, hdr_start, outVars, shot>>

(* Its end: the bytes captured are forgotten by cam_i2s_hw_prepare.        *)
Extracted ==
    /\ pc' = "frame" /\ pos' = 0 /\ hdr_start' = 0
    /\ frame_buf' = Filled(<<>>) /\ frame_pos' = 0
    /\ UNCHANGED <<header, warmed_up, outVars, shot>>

FindDqt ==
    /\ pc = "extract"
    /\ \E i \in Dqts : IsFirst(i, Dqts) /\ hdr_start' = i /\ pos' = i
    /\ pc' = "walk"
    /\ UNCHANGED <<header, warmed_up, savedVars, frame_buf, frame_pos, outVars,
                   shot>>

NoDqt ==
    /\ pc = "extract" /\ Dqts = {}
    /\ Extracted
    /\ UNCHANGED savedVars

(* A cell that may lie behind the buffer's end.                            *)
Read(i) == IF i \in Cells THEN frame_buf[i] ELSE Stale

SegLen    == frame_buf[pos + 2] * 256 + frame_buf[pos + 3]
AtSegment == pos + 3 < frame_pos /\ frame_buf[pos] = FF
AtSos     == AtSegment /\ frame_buf[pos + 1] = SOS

WalkSegment ==
    /\ pc = "walk" /\ AtSegment /\ ~AtSos
    /\ pos' = pos + 2 + SegLen
    /\ UNCHANGED <<header, warmed_up, savedVars, frame_buf, frame_pos, pc,
                   hdr_start, outVars, shot>>

(* The header's end is where the SOS segment says, captured or not.        *)
RegionLen == pos + 2 + SegLen - hdr_start

SaveHeader ==
    /\ pc = "walk" /\ AtSos
    /\ IF 2 + RegionLen > MaxHeader
       THEN UNCHANGED <<saved_jpeg_header, saved_header_len>>
       ELSE /\ saved_jpeg_header' =
                 [i \in DOMAIN saved_jpeg_header |->
                    CASE i = 0 -> FF
                      [] i = 1 -> SOI
                      [] i \in 2 .. RegionLen + 1 -> Read(hdr_start + i - 2)
                      [] OTHER -> saved_jpeg_header[i]]
            /\ saved_header_len' = 2 + RegionLen
    /\ Extracted
    /\ UNCHANGED clean

SosNotFound ==
    /\ pc = "walk" /\ ~AtSegment
    /\ Extracted
    /\ UNCHANGED savedVars
-----------------------------------------------------------------------------
(* cam_i2s_capture_frame has a frame, and jpeg_fixup_frame.                *)

(* A frame's capture has a byte at least (-ENODATA otherwise).             *)
CaptureFrame ==
    /\ pc = "frame" \/ (pc = "idle" /\ (warmed_up \/ saved_header_len > 0))
    /\ \E s \in Scans, before \in Junk, after \in Junk :
         LET p == Picture(header, s)
         IN \E i, j \in 1 .. Len(p) :
              LET d == before \o SubSeq(p, i, j) \o
                       (IF j = Len(p) THEN after ELSE <<>>)
              IN /\ i <= j /\ Len(d) <= BufSize
                 /\ frame_buf' = Filled(d) /\ frame_pos' = Len(d)
                 /\ shot' = [pic |-> p, from |-> i, to |-> j]
    /\ warmed_up' = TRUE
    /\ pc' = "fix"
    /\ UNCHANGED <<header, savedVars, pos, hdr_start, outVars>>

(* The capture fails (-ETIMEDOUT, -ENODATA).                               *)
NoFrame ==
    /\ pc = "frame"
    /\ pc' = "idle"
    /\ UNCHANGED <<header, warmed_up, savedVars, frame_buf, frame_pos, pos,
                   hdr_start, outVars, shot>>

HasSoi == frame_pos >= 2 /\ frame_buf[0] = FF /\ frame_buf[1] = SOI

(* FF with 0xC0 to 0xFE behind it, near the beginning.                     *)
Markers == {i \in 0 .. frame_pos - 2 :
              i < ScanLimit /\ frame_buf[i] = FF /\ frame_buf[i + 1] \in 192 .. 254}

Found(ptr, len) ==
    /\ jpeg_ptr' = ptr /\ jpeg_len' = len
    /\ pc' = "eoi"
    /\ UNCHANGED <<header, warmed_up, savedVars, frame_pos, pos, hdr_start, ret,
                   shot>>

SoiAtStart ==
    /\ pc = "fix" /\ HasSoi
    /\ Found(0, frame_pos)
    /\ UNCHANGED frame_buf

NoMarker ==
    /\ pc = "fix" /\ ~HasSoi /\ Markers = {}
    /\ ret' = "EINVAL"
    /\ pc' = "done"
    /\ UNCHANGED <<header, warmed_up, savedVars, frame_buf, frame_pos, pos,
                   hdr_start, jpeg_ptr, jpeg_len, shot>>

SoiLater ==
    /\ pc = "fix" /\ ~HasSoi
    /\ \E i \in Markers :
         /\ IsFirst(i, Markers)
         /\ frame_buf[i + 1] = SOI
         /\ Found(i, frame_pos - i)
    /\ UNCHANGED frame_buf

(* The k bytes h are put before what was captured from i on: in place if   *)
(* there is room before i, else what was captured moves up.  There is no   *)
(* test for room behind it.                                                *)
PutBefore(h, k, i) ==
    LET payload == frame_pos - i
    IN IF i >= k
       THEN /\ frame_buf' = [p \in Cells |->
                  IF p \in i - k .. i - 1 THEN h[p - (i - k)] ELSE frame_buf[p]]
            /\ Found(i - k, k + payload)
       ELSE IF k + payload > BufSize
       THEN /\ pc' = "overrun"
            /\ UNCHANGED <<header, warmed_up, savedVars, frame_buf, frame_pos,
                           pos, hdr_start, outVars, shot>>
       ELSE /\ frame_buf' = [p \in Cells |->
                  IF p < k THEN h[p]
                  ELSE IF p < k + payload THEN frame_buf[i + p - k]
                  ELSE frame_buf[p]]
            /\ Found(0, k + payload)

(* Mutant: the four bytes that the comment speaks of. *)
MatchMost_4 == 4

MatchMost == 6

(* Mutant: all of the array instead of what is saved in it. *)
InjectAll_Array == MaxHeader

InjectAll == saved_header_len

(* Where the bytes captured from i on stand in the saved header.           *)
MatchLen(i) == IF frame_pos - i > MatchMost THEN MatchMost ELSE frame_pos - i

Matches(i) ==
    {k \in 2 .. saved_header_len - MatchLen(i) :
       \A n \in 0 .. MatchLen(i) - 1 : saved_jpeg_header[k + n] = frame_buf[i + n]}

(* What precedes them there is injected, all of the header if nowhere.     *)
Inject ==
    /\ pc = "fix" /\ ~HasSoi /\ saved_header_len > 0
    /\ \E i \in Markers :
         /\ IsFirst(i, Markers)
         /\ frame_buf[i + 1] # SOI
         /\ \E k \in IF Matches(i) = {} THEN {InjectAll} ELSE Matches(i) :
              /\ Matches(i) # {} => IsFirst(k, Matches(i))
              /\ PutBefore(saved_jpeg_header, k, i)

SoiBytes == [n \in 0 .. 1 |-> IF n = 0 THEN FF ELSE SOI]

Prepend ==
    /\ pc = "fix" /\ ~HasSoi /\ saved_header_len = 0
    /\ \E i \in Markers :
         /\ IsFirst(i, Markers)
         /\ frame_buf[i + 1] # SOI
         /\ PutBefore(SoiBytes, 2, i)

(* The lengths at which the frame would end with EOI.                      *)
EoiEnds == {n \in 2 .. jpeg_len : /\ frame_buf[jpeg_ptr + n - 2] = FF
                                  /\ frame_buf[jpeg_ptr + n - 1] = EOI}

Return(len) ==
    /\ jpeg_len' = len
    /\ ret' = "ok"
    /\ pc' = "done"
    /\ UNCHANGED <<header, warmed_up, savedVars, frame_pos, pos, hdr_start,
                   jpeg_ptr, shot>>

(* Mutant: what stands behind EOI is kept. *)
TrimToEoi_Keep ==
    /\ pc = "eoi" /\ EoiEnds # {}
    /\ Return(jpeg_len)
    /\ UNCHANGED frame_buf

TrimToEoi ==
    /\ pc = "eoi"
    /\ \E n \in EoiEnds : /\ \A m \in EoiEnds : m <= n
                           /\ Return(n)
    /\ UNCHANGED frame_buf

EndCell == jpeg_ptr + jpeg_len

(* Mutant: one byte of room is taken for two. *)
EoiFits_One == EndCell + 1 <= BufSize

EoiFits == EndCell + 2 <= BufSize

AppendEoi ==
    /\ pc = "eoi" /\ EoiEnds = {} /\ EoiFits
    /\ frame_buf' = [p \in Cells |-> IF p = EndCell THEN FF
                                     ELSE IF p = EndCell + 1 THEN EOI
                                     ELSE frame_buf[p]]
    /\ Return(jpeg_len + 2)

NoRoomForEoi ==
    /\ pc = "eoi" /\ EoiEnds = {} /\ ~EoiFits
    /\ Return(jpeg_len)
    /\ UNCHANGED frame_buf

jpeg_fixup_frame ==
    \/ SoiAtStart \/ NoMarker \/ SoiLater \/ Inject \/ Prepend
    \/ TrimToEoi \/ AppendEoi \/ NoRoomForEoi

(* The caller is done with the frame, and its bytes are of no more use.    *)
FrameUsed ==
    /\ pc = "done"
    /\ pc' = "idle"
    /\ frame_buf' = Filled(<<>>) /\ frame_pos' = 0
    /\ jpeg_ptr' = 0 /\ jpeg_len' = 0 /\ ret' = "none" /\ shot' = NoShot
    /\ UNCHANGED <<header, warmed_up, savedVars, pos, hdr_start>>

(* What happens behind the buffer's end is not followed.                   *)
Overrun == pc = "overrun" /\ UNCHANGED vars
-----------------------------------------------------------------------------
(* Mutant: the saved header is kept. *)
ChangeResolution_KeepHeader ==
    /\ pc = "idle"
    /\ header' \in Headers
    /\ warmed_up' = FALSE
    /\ UNCHANGED <<savedVars, frame_buf, frame_pos, pc, pos, hdr_start, outVars,
                   shot>>

(* A resolution request: cam_i2s_reset_warmup, then the sensor.  The bytes *)
(* of the old header stay but are not read again, and are zeros here.      *)
ChangeResolution ==
    /\ pc = "idle"
    /\ header' \in Headers
    /\ saved_header_len' = 0 /\ saved_jpeg_header' = NoHeader
    /\ warmed_up' = FALSE /\ clean' = FALSE
    /\ UNCHANGED <<frame_buf, frame_pos, pc, pos, hdr_start,
                   outVars, shot>>

Next ==
    \/ CaptureHeader \/ FindDqt \/ NoDqt \/ WalkSegment \/ SaveHeader \/ SosNotFound
    \/ CaptureFrame \/ NoFrame \/ jpeg_fixup_frame \/ FrameUsed \/ Overrun \/ ChangeResolution

Spec == Init /\ [][Next]_vars
-----------------------------------------------------------------------------
(* Every variable keeps to its values, and every frame to the buffer.      *)
TypeOK ==
    /\ header \in Headers /\ warmed_up \in BOOLEAN /\ clean \in BOOLEAN
    /\ saved_jpeg_header \in [0 .. MaxHeader - 1 -> Byte]
    /\ saved_header_len \in {0} \cup 2 .. MaxHeader
    /\ frame_buf \in [Cells -> Byte] /\ frame_pos \in 0 .. BufSize
    /\ pc \in {"idle", "extract", "walk", "frame", "fix", "eoi", "done",
              "overrun"}
    /\ pos \in Nat /\ hdr_start \in Cells
    /\ jpeg_ptr \in Cells /\ jpeg_len \in 0 .. BufSize
    /\ jpeg_ptr + jpeg_len <= BufSize
    /\ ret \in {"none", "ok", "EINVAL"}

Out == [n \in 1 .. jpeg_len |-> frame_buf[jpeg_ptr + n - 1]]

EndsWithEoi(d) == Len(d) >= 2 /\ d[Len(d) - 1] = FF /\ d[Len(d)] = EOI

(* A saved header is the camera's whole header of the resolution set now,  *)
(* if it was looked for in a capture whose first DQT begins a whole one.   *)
SavedIsHeader == clean /\ saved_header_len > 0 /\ pc # "walk" =>
    [n \in 1 .. saved_header_len |-> saved_jpeg_header[n - 1]]
        = <<FF, SOI>> \o header

(* "Extract the full JPEG header ... to find the complete header"          *)
(* (cam_jpeg_fixup.c:47-49).                                               *)
HeaderComplete == saved_header_len > 0 /\ pc # "walk" =>
    [n \in 1 .. saved_header_len |-> saved_jpeg_header[n - 1]]
        = <<FF, SOI>> \o header

(* Whatever was captured, a frame is framed: it begins with SOI and ends   *)
(* with EOI, unless the buffer has no room for that.                       *)
Framed == pc = "done" /\ ret = "ok" =>
    /\ jpeg_len >= 2
    /\ frame_buf[jpeg_ptr] = FF /\ frame_buf[jpeg_ptr + 1] = SOI
    /\ \/ /\ frame_buf[EndCell - 2] = FF /\ frame_buf[EndCell - 1] = EOI
       \/ EndCell + 2 > BufSize

(* A capture that began before the scan data becomes the camera's picture  *)
(* again, up to where the capture ended: no table is lost, none is there   *)
(* twice, and nothing that stood around the picture is left.  The capture  *)
(* has a header segment's marker and the four bytes behind it.             *)
HeaderResumes == \E i \in shot.from .. shot.to - 5 :
    shot.pic[i] = FF /\ shot.pic[i + 1] \in 192 .. 254 \ {EOI}

Restored ==
    LET kept == SubSeq(shot.pic, 1, shot.to)
    IN (pc = "done" /\ ret = "ok" /\ clean /\ saved_header_len > 0 /\ HeaderResumes)
       => \/ Out = kept /\ (EndsWithEoi(kept) \/ ~EoiFits)
          \/ Out = kept \o <<FF, EOI>>

(* The header is put in within the buffer as long as the capture leaves    *)
(* room for it.                                                            *)
RoomSuffices == pc = "overrun" =>
    frame_pos + (IF saved_header_len = 0 THEN 2 ELSE saved_header_len) > BufSize

(* "Total capacity of frame_buf" (cam_jpeg_fixup.h:40): the fixup keeps    *)
(* within it.                                                              *)
WithinCapacity == pc # "overrun"
=============================================================================
