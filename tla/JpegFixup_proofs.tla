--------------------------- MODULE JpegFixup_proofs ---------------------------
(***************************************************************************)
(* Proofs about JpegFixup, for any sizes of the buffers, any headers and   *)
(* scan data the camera may send, and any piece of them that is captured.  *)
(***************************************************************************)
EXTENDS JpegFixup, SequenceTheorems, TLAPS

(* The walk goes forward from the header's start; what is saved begins     *)
(* with SOI; so does every frame before its end is looked for.             *)
ShapeInv ==
    /\ pc = "walk" => hdr_start <= pos
    /\ saved_header_len > 0 =>
         saved_jpeg_header[0] = FF /\ saved_jpeg_header[1] = SOI
    /\ pc = "eoi" => /\ jpeg_len >= 2
                     /\ frame_buf[jpeg_ptr] = FF /\ frame_buf[jpeg_ptr + 1] = SOI

IInv == TypeOK /\ ShapeInv /\ Framed /\ RoomSuffices

Octet == 0 .. 255

LEMMA CellsFacts == 0 \in Cells /\ Cells \subseteq Nat /\ BufSize \in Nat
BY FixupAssumption DEF Cells

LEMMA FilledType ==
    ASSUME NEW d \in Seq(Octet), Len(d) <= BufSize
    PROVE  Filled(d) \in [Cells -> Byte]
<1>1. Len(d) \in Nat
  BY LenProperties
<1>2. ASSUME NEW i \in Cells
      PROVE (IF i < Len(d) THEN d[i + 1] ELSE Stale) \in Byte
  <2>1. CASE i < Len(d)
    <3>1. i + 1 \in 1 .. Len(d)
      BY <1>1, <2>1, FixupAssumption DEF Cells
    <3>2. d[i + 1] \in Octet
      BY <3>1, ElementOfSeq
    <3> QED
      BY <2>1, <3>2 DEF Octet, Byte
  <2>2. CASE ~(i < Len(d))
    BY <2>2 DEF Byte, Stale
  <2> QED
    BY <2>1, <2>2
<1> QED
  BY <1>2 DEF Filled

LEMMA EmptyFilled == Filled(<<>>) \in [Cells -> Byte]
<1>1. <<>> \in Seq(Octet) /\ Len(<<>>) = 0
  BY EmptySeq
<1>2. Len(<<>>) <= BufSize
  BY <1>1, FixupAssumption
<1>3. \A d \in Seq(Octet) : Len(d) <= BufSize => Filled(d) \in [Cells -> Byte]
  BY FilledType
<1> QED
  BY <1>1, <1>2, <1>3, Zenon

LEMMA PictureType ==
    ASSUME NEW h \in Headers, NEW s \in Scans
    PROVE  Picture(h, s) \in Seq(Octet)
<1>1. h \in Seq(Octet) /\ s \in Seq(Octet)
  BY FixupAssumption DEF Octet
<1>2. <<FF, SOI>> \in Seq(Octet) /\ <<FF, EOI>> \in Seq(Octet)
  BY DEF FF, SOI, EOI, Octet
<1> QED
  BY <1>1, <1>2, ConcatProperties DEF Picture

(* A piece of a sequence of octets.                                        *)
LEMMA PieceType ==
    ASSUME NEW p \in Seq(Octet), NEW i \in 1 .. Len(p), NEW j \in 1 .. Len(p)
    PROVE  /\ SubSeq(p, i, j) \in Seq(Octet)
           /\ i <= j => Len(SubSeq(p, i, j)) = j - i + 1
<1>1. Len(p) \in Nat /\ i \in Int /\ j \in Int
  BY LenProperties
<1>2. \A n \in i .. j : p[n] \in Octet
  <2>1. ASSUME NEW n \in i .. j PROVE n \in 1 .. Len(p)
    BY <1>1
  <2> QED
    BY <2>1, ElementOfSeq
<1> QED
  BY <1>1, <1>2, SubSeqProperties
-----------------------------------------------------------------------------
LEMMA InvInit == Init => IInv
<1> SUFFICES ASSUME Init PROVE IInv
  OBVIOUS
<1> USE FixupAssumption, CellsFacts DEF Init
<1>1. frame_buf \in [Cells -> Byte]
  BY DEF Byte, Stale
<1>2. saved_jpeg_header \in [0 .. MaxHeader - 1 -> Byte]
  BY DEF NoHeader, Byte
<1>3. /\ saved_header_len \in {0} \cup 2 .. MaxHeader /\ frame_pos \in 0 .. BufSize
      /\ pos \in Nat /\ hdr_start \in Cells
      /\ jpeg_ptr \in Cells /\ jpeg_len \in 0 .. BufSize
      /\ jpeg_ptr + jpeg_len <= BufSize
  OBVIOUS
<1>4. warmed_up \in BOOLEAN /\ clean \in BOOLEAN
  OBVIOUS
<1>5. TypeOK
  BY <1>1, <1>2, <1>3, <1>4, Zenon DEF TypeOK
<1>6. ShapeInv /\ Framed /\ RoomSuffices
  BY DEF ShapeInv, Framed, RoomSuffices
<1> QED
  BY <1>5, <1>6 DEF IInv

(* The capture for the header, and its walk.                               *)
LEMMA InvCaptureHeader == ASSUME IInv, CaptureHeader PROVE IInv'
<1> USE DEF IInv
<1>1. frame_buf' \in [Cells -> Byte] /\ frame_pos' \in 0 .. BufSize
  <2>1. PICK s \in Scans, t \in Scans :
          LET two == Picture(header, s) \o Picture(header, t)
          IN \E i, j \in 1 .. Len(two) :
               LET d == SubSeq(two, i, j)
               IN /\ i <= j /\ j - i < BufSize
                  /\ frame_buf' = Filled(d) /\ frame_pos' = Len(d)
                  /\ clean' = HasHeader(d, header)
    BY DEF CaptureHeader
  <2> DEFINE two == Picture(header, s) \o Picture(header, t)
  <2>2. two \in Seq(Octet)
    BY PictureType, ConcatProperties DEF TypeOK
  <2>3. PICK i, j \in 1 .. Len(two) :
          /\ i <= j /\ j - i < BufSize
          /\ frame_buf' = Filled(SubSeq(two, i, j))
          /\ frame_pos' = Len(SubSeq(two, i, j))
    BY <2>1
  <2> HIDE DEF two
  <2>4. SubSeq(two, i, j) \in Seq(Octet) /\ Len(SubSeq(two, i, j)) = j - i + 1
    BY <2>2, <2>3, PieceType
  <2>5. Len(two) \in Nat
    BY <2>2, LenProperties
  <2>6. Len(SubSeq(two, i, j)) \in 0 .. BufSize
    BY <2>3, <2>4, <2>5, FixupAssumption
  <2>7. Len(SubSeq(two, i, j)) <= BufSize
    BY <2>6, FixupAssumption
  <2>8. Filled(SubSeq(two, i, j)) \in [Cells -> Byte]
    BY <2>4, <2>7, FilledType
  <2> QED
    BY <2>3, <2>6, <2>8
<1>2. clean' \in BOOLEAN
  BY DEF CaptureHeader, HasHeader
<1>3. TypeOK'
  BY <1>1, <1>2 DEF CaptureHeader, TypeOK, outVars
<1>4. ShapeInv' /\ Framed' /\ RoomSuffices'
  BY DEF CaptureHeader, ShapeInv, Framed, RoomSuffices
<1> QED
  BY <1>3, <1>4

LEMMA InvExtracted ==
    ASSUME IInv, Extracted, saved_jpeg_header' \in [0 .. MaxHeader - 1 -> Byte],
           saved_header_len' \in {0} \cup 2 .. MaxHeader, clean' \in BOOLEAN,
           saved_header_len' > 0 =>
             saved_jpeg_header'[0] = FF /\ saved_jpeg_header'[1] = SOI
    PROVE  IInv'
<1>1. frame_buf' \in [Cells -> Byte]
  BY EmptyFilled DEF Extracted
<1>2. pos' \in Nat /\ hdr_start' \in Cells /\ frame_pos' \in 0 .. BufSize
  BY CellsFacts DEF Extracted
<1>3. TypeOK'
  BY <1>1, <1>2 DEF IInv, TypeOK, Extracted, outVars
<1>4. ShapeInv' /\ Framed' /\ RoomSuffices'
  BY DEF Extracted, ShapeInv, Framed, RoomSuffices
<1> QED
  BY <1>3, <1>4 DEF IInv

LEMMA SegmentCells ==
    ASSUME TypeOK, pc = "walk", AtSegment
    PROVE  /\ pos \in Cells /\ pos + 1 \in Cells /\ pos + 2 \in Cells /\ pos + 3 \in Cells
           /\ SegLen \in Nat
<1>1. pos \in Cells /\ pos + 1 \in Cells /\ pos + 2 \in Cells /\ pos + 3 \in Cells
  BY FixupAssumption DEF TypeOK, AtSegment, Cells
<1>2. frame_buf[pos + 2] \in Byte /\ frame_buf[pos + 3] \in Byte
  BY <1>1 DEF TypeOK
<1>3. \A a, b \in 0 .. 256 : a * 256 + b \in Nat
  OBVIOUS
<1>4. SegLen \in Nat
  BY <1>2, <1>3 DEF SegLen, Byte
<1> QED
  BY <1>1, <1>4

LEMMA InvWalk ==
    ASSUME IInv, FindDqt \/ NoDqt \/ WalkSegment \/ SaveHeader \/ SosNotFound
    PROVE  IInv'
<1> USE DEF IInv
<1>1. CASE FindDqt
  <2>1. hdr_start' \in Cells /\ pos' \in Nat /\ hdr_start' <= pos'
    BY <1>1, FixupAssumption DEF FindDqt, IsFirst, Dqts, TypeOK, Cells
  <2>2. TypeOK'
    BY <1>1, <2>1 DEF FindDqt, TypeOK, savedVars, outVars
  <2>3. ShapeInv' /\ Framed' /\ RoomSuffices'
    BY <1>1, <2>1 DEF FindDqt, ShapeInv, Framed, RoomSuffices, savedVars
  <2> QED
    BY <2>2, <2>3
<1>2. CASE NoDqt \/ SosNotFound
  BY <1>2, InvExtracted DEF NoDqt, SosNotFound, savedVars, TypeOK, ShapeInv
<1>3. CASE WalkSegment
  <2>1. SegLen \in Nat /\ pos' = pos + 2 + SegLen
    BY <1>3, SegmentCells DEF WalkSegment
  <2>2. TypeOK'
    BY <1>3, <2>1 DEF WalkSegment, TypeOK, savedVars, outVars
  <2>3. ShapeInv' /\ Framed' /\ RoomSuffices'
    BY <1>3, <2>1, CellsFacts DEF WalkSegment, TypeOK, ShapeInv, Framed, RoomSuffices, savedVars
  <2> QED
    BY <2>2, <2>3
<1>4. CASE SaveHeader
  <2>1. Extracted /\ clean' \in BOOLEAN
    BY <1>4 DEF SaveHeader, TypeOK
  <2>2. CASE 2 + RegionLen > MaxHeader
    BY <1>4, <2>1, <2>2, InvExtracted DEF SaveHeader, TypeOK, ShapeInv
  <2>3. CASE ~(2 + RegionLen > MaxHeader)
    <3>1. SegLen \in Nat /\ hdr_start \in Nat /\ pos \in Nat /\ hdr_start <= pos
      BY <1>4, SegmentCells, CellsFacts DEF SaveHeader, AtSos, TypeOK, ShapeInv
    <3>2. RegionLen \in Nat /\ MaxHeader \in Nat
      BY <3>1, FixupAssumption DEF RegionLen
    <3>3. saved_header_len' = 2 + RegionLen
      BY <1>4, <2>3 DEF SaveHeader
    <3>4. saved_header_len' \in 2 .. MaxHeader
      BY <2>3, <3>2, <3>3
    <3>5. saved_jpeg_header' =
                 [i \in DOMAIN saved_jpeg_header |->
                    CASE i = 0 -> FF
                      [] i = 1 -> SOI
                      [] i \in 2 .. RegionLen + 1 -> Read(hdr_start + i - 2)
                      [] OTHER -> saved_jpeg_header[i]]
      BY <1>4, <2>3 DEF SaveHeader
    <3>6. DOMAIN saved_jpeg_header = 0 .. MaxHeader - 1
      BY DEF TypeOK
    <3>7. saved_jpeg_header'[0] = FF /\ saved_jpeg_header'[1] = SOI
      BY <3>5, <3>6, FixupAssumption
    <3>8. ASSUME NEW i \in 0 .. MaxHeader - 1
          PROVE  saved_jpeg_header'[i] \in Byte
      <4>1. Read(hdr_start + i - 2) \in Byte
        BY DEF Read, TypeOK, Byte, Stale
      <4>2. saved_jpeg_header[i] \in Byte /\ FF \in Byte /\ SOI \in Byte
        <5>1. FF \in Byte /\ SOI \in Byte
          BY DEF FF, SOI, Byte
        <5> QED
          BY <5>1, <3>6 DEF TypeOK
      <4>3. CASE i = 0 \/ i = 1
        BY <3>7, <4>2, <4>3
      <4>4. CASE i # 0 /\ i # 1 /\ i \in 2 .. RegionLen + 1
        BY <3>5, <3>6, <4>1, <4>4
      <4>5. CASE i # 0 /\ i # 1 /\ i \notin 2 .. RegionLen + 1
        BY <3>5, <3>6, <4>2, <4>5
      <4> QED
        BY <4>3, <4>4, <4>5
    <3>9. saved_jpeg_header' \in [0 .. MaxHeader - 1 -> Byte]
      <4>1. saved_jpeg_header' = [i \in 0 .. MaxHeader - 1 |-> saved_jpeg_header'[i]]
        BY <3>5, <3>6
      <4> QED
        BY <3>8, <4>1
    <3> QED
      BY <2>1, <3>4, <3>7, <3>9, InvExtracted
  <2> QED
    BY <2>2, <2>3
<1> QED
  BY <1>1, <1>2, <1>3, <1>4
-----------------------------------------------------------------------------
(* The capture of a frame.                                                 *)
LEMMA InvCaptureFrame == ASSUME IInv, CaptureFrame PROVE IInv'
<1> USE DEF IInv
<1>1. frame_buf' \in [Cells -> Byte] /\ frame_pos' \in 0 .. BufSize
  <2>1. PICK s \in Scans, before \in Junk, after \in Junk :
          LET p == Picture(header, s)
          IN \E i, j \in 1 .. Len(p) :
               LET d == before \o SubSeq(p, i, j) \o
                        (IF j = Len(p) THEN after ELSE <<>>)
               IN /\ i <= j /\ Len(d) <= BufSize
                  /\ frame_buf' = Filled(d) /\ frame_pos' = Len(d)
                  /\ shot' = [pic |-> p, from |-> i, to |-> j]
    BY Zenon DEF CaptureFrame
  <2> DEFINE p == Picture(header, s)
  <2>2. p \in Seq(Octet)
    BY PictureType DEF TypeOK
  <2> HIDE DEF p
  <2>3. PICK i \in 1 .. Len(p), j \in 1 .. Len(p) :
          LET d == before \o SubSeq(p, i, j) \o
                     (IF j = Len(p) THEN after ELSE <<>>)
          IN Len(d) <= BufSize /\ frame_buf' = Filled(d) /\ frame_pos' = Len(d)
    BY <2>1 DEF p
  <2> DEFINE rest == IF j = Len(p) THEN after ELSE <<>>
             d == before \o SubSeq(p, i, j) \o rest
  <2>4. before \in Seq(Octet) /\ rest \in Seq(Octet)
    BY FixupAssumption, EmptySeq DEF Octet
  <2>5. SubSeq(p, i, j) \in Seq(Octet)
    BY <2>2, PieceType
  <2> HIDE DEF rest
  <2>6. d \in Seq(Octet)
    BY <2>4, <2>5, ConcatProperties
  <2>7. Len(d) \in Nat
    BY <2>6, LenProperties
  <2>8. Len(d) <= BufSize /\ frame_buf' = Filled(d) /\ frame_pos' = Len(d)
    BY <2>3 DEF rest
  <2> HIDE DEF d
  <2>9. Filled(d) \in [Cells -> Byte]
    BY <2>6, <2>8, FilledType
  <2> QED
    BY <2>7, <2>8, <2>9, FixupAssumption
<1>2. TypeOK'
  BY <1>1 DEF CaptureFrame, TypeOK, savedVars, outVars
<1>3. ShapeInv' /\ Framed' /\ RoomSuffices'
  BY DEF CaptureFrame, ShapeInv, Framed, RoomSuffices, savedVars
<1> QED
  BY <1>2, <1>3

(* A frame from ptr on, of at least two bytes, the first of them SOI.      *)
LEMMA InvFound ==
    ASSUME IInv, NEW ptr \in Cells, NEW len \in 2 .. BufSize, Found(ptr, len),
           ptr + len <= BufSize, frame_buf' \in [Cells -> Byte],
           frame_buf'[ptr] = FF, frame_buf'[ptr + 1] = SOI
    PROVE  IInv'
<1> USE DEF IInv
<1>1. jpeg_ptr' \in Cells /\ jpeg_len' \in 0 .. BufSize /\ jpeg_ptr' + jpeg_len' <= BufSize
  BY FixupAssumption DEF Found
<1>2. TypeOK'
  BY <1>1 DEF Found, TypeOK, savedVars
<1>3. ShapeInv' /\ Framed' /\ RoomSuffices'
  BY DEF Found, ShapeInv, Framed, RoomSuffices, savedVars
<1> QED
  BY <1>2, <1>3

(* What is put before the capture begins with SOI, so the frame does.      *)
LEMMA InvPutBefore ==
    ASSUME IInv, NEW k \in Nat, k >= 2, NEW h, h[0] = FF, h[1] = SOI,
           \A n \in 0 .. k - 1 : h[n] \in Byte,
           NEW i \in Nat, i < frame_pos, pc = "fix", PutBefore(h, k, i),
           k <= IF saved_header_len = 0 THEN 2 ELSE saved_header_len
    PROVE  IInv'
<1> USE DEF IInv
<1> DEFINE payload == frame_pos - i
<1>1. payload \in Nat /\ payload <= frame_pos /\ frame_pos <= BufSize /\ BufSize \in Nat
      /\ frame_pos \in Nat
  BY FixupAssumption DEF TypeOK
<1>2. CASE i >= k
  <2>1. /\ frame_buf' = [p \in Cells |->
              IF p \in i - k .. i - 1 THEN h[p - (i - k)] ELSE frame_buf[p]]
        /\ Found(i - k, k + payload)
    BY <1>2 DEF PutBefore
  <2>2. i - k \in Cells /\ i - k + 1 \in Cells /\ k + payload \in 2 .. BufSize
        /\ i - k + (k + payload) <= BufSize
    BY <1>1, <1>2 DEF Cells
  <2>3. frame_buf'[i - k] = FF /\ frame_buf'[i - k + 1] = SOI
    <3>1. i - k \in i - k .. i - 1 /\ i - k + 1 \in i - k .. i - 1
      BY <1>2
    <3>2. (i - k) - (i - k) = 0 /\ (i - k + 1) - (i - k) = 1
      BY <1>2
    <3> QED
      BY <2>1, <2>2, <3>1, <3>2
  <2>4. frame_buf' \in [Cells -> Byte]
    <3>1. ASSUME NEW p \in Cells
          PROVE (IF p \in i - k .. i - 1 THEN h[p - (i - k)] ELSE frame_buf[p]) \in Byte
      <4>1. frame_buf[p] \in Byte
        BY DEF TypeOK
      <4>2. p \in i - k .. i - 1 => p - (i - k) \in 0 .. k - 1
        BY <1>2
      <4> QED
        BY <4>1, <4>2
    <3> QED
      BY <2>1, <3>1
  <2> QED
    BY <2>1, <2>2, <2>3, <2>4, InvFound
<1>3. CASE ~(i >= k) /\ k + payload > BufSize
  <2>1. /\ pc' = "overrun"
        /\ UNCHANGED <<header, warmed_up, savedVars, frame_buf, frame_pos,
                       pos, hdr_start, outVars, shot>>
    BY <1>3 DEF PutBefore
  <2>2. frame_pos + (IF saved_header_len = 0 THEN 2 ELSE saved_header_len) > BufSize
    <3>1. saved_header_len \in Nat
      BY FixupAssumption DEF TypeOK
    <3> QED
      BY <1>1, <1>3, <3>1
  <2>3. TypeOK'
    BY <2>1 DEF TypeOK, savedVars, outVars
  <2>4. ShapeInv' /\ Framed' /\ RoomSuffices'
    BY <2>1, <2>2 DEF ShapeInv, Framed, RoomSuffices, savedVars
  <2> QED
    BY <2>3, <2>4
<1>4. CASE ~(i >= k) /\ ~(k + payload > BufSize)
  <2>1. /\ frame_buf' = [p \in Cells |->
              IF p < k THEN h[p]
              ELSE IF p < k + payload THEN frame_buf[i + p - k]
              ELSE frame_buf[p]]
        /\ Found(0, k + payload)
    BY <1>4 DEF PutBefore
  <2>2. 0 \in Cells /\ 1 \in Cells /\ k + payload \in 2 .. BufSize
    BY <1>1, <1>4 DEF Cells
  <2>3. frame_buf'[0] = FF /\ frame_buf'[0 + 1] = SOI
    BY <2>1, <2>2
  <2>4. frame_buf' \in [Cells -> Byte]
    <3>1. ASSUME NEW p \in Cells
          PROVE  (IF p < k THEN h[p]
                  ELSE IF p < k + payload THEN frame_buf[i + p - k]
                  ELSE frame_buf[p]) \in Byte
      <4>1. p \in Nat
        BY CellsFacts
      <4>2. p < k => p \in 0 .. k - 1
        BY <4>1
      <4>3. ~(p < k) /\ p < k + payload => i + p - k \in Cells
        BY <1>1, <4>1 DEF Cells
      <4> QED
        BY <4>2, <4>3 DEF TypeOK
    <3> QED
      BY <2>1, <3>1
  <2>5. 0 + (k + payload) <= BufSize
    BY <1>1, <2>2
  <2> QED
    BY <2>1, <2>2, <2>3, <2>4, <2>5, InvFound
<1> QED
  BY <1>2, <1>3, <1>4

(* The beginning of the frame.                                             *)
LEMMA InvBegin ==
    ASSUME IInv, SoiAtStart \/ NoMarker \/ SoiLater \/ Inject \/ Prepend
    PROVE  IInv'
<1> USE DEF IInv
<1>1. frame_pos \in Nat /\ frame_pos <= BufSize /\ BufSize \in Nat
      /\ saved_header_len \in Nat
  BY FixupAssumption DEF TypeOK
<1>2. ASSUME NEW i \in Markers
      PROVE  /\ i \in Nat /\ i < frame_pos /\ i \in Cells
             /\ i + 1 \in Cells /\ frame_pos - i \in 2 .. BufSize
             /\ frame_buf[i] = FF
  BY <1>1 DEF Markers, Cells
<1>3. CASE SoiAtStart
  <2>1. Found(0, frame_pos) /\ frame_buf' = frame_buf /\ HasSoi
    BY <1>3 DEF SoiAtStart
  <2>2. frame_pos \in 2 .. BufSize /\ 0 + frame_pos <= BufSize
        /\ frame_buf'[0] = FF /\ frame_buf'[0 + 1] = SOI
    BY <1>1, <2>1 DEF HasSoi
  <2>3. frame_buf' \in [Cells -> Byte]
    BY <2>1 DEF TypeOK
  <2> QED
    BY <2>1, <2>2, <2>3, InvFound, CellsFacts
<1>4. CASE NoMarker
  <2>1. TypeOK'
    BY <1>4 DEF NoMarker, TypeOK, savedVars
  <2>2. ShapeInv' /\ Framed' /\ RoomSuffices'
    BY <1>4 DEF NoMarker, ShapeInv, Framed, RoomSuffices, savedVars
  <2> QED
    BY <2>1, <2>2
<1>5. CASE SoiLater
  <2>1. PICK i \in Markers : frame_buf[i + 1] = SOI /\ Found(i, frame_pos - i)
    BY <1>5 DEF SoiLater
  <2>2. frame_buf' = frame_buf /\ i + (frame_pos - i) <= BufSize
    BY <1>1, <1>2, <1>5 DEF SoiLater
  <2>3. frame_buf' \in [Cells -> Byte]
    BY <2>2 DEF TypeOK
  <2> QED
    BY <1>2, <2>1, <2>2, <2>3, InvFound
<1>6. CASE Inject
  <2>1. PICK i \in Markers :
          \E k \in IF Matches(i) = {} THEN {InjectAll} ELSE Matches(i) :
            PutBefore(saved_jpeg_header, k, i)
    BY <1>6 DEF Inject
  <2>2. PICK k \in IF Matches(i) = {} THEN {InjectAll} ELSE Matches(i) :
          PutBefore(saved_jpeg_header, k, i)
    BY <2>1
  <2>3. pc = "fix" /\ saved_header_len \in 2 .. MaxHeader /\ MaxHeader \in Nat
    BY <1>6, FixupAssumption DEF Inject, TypeOK
  <2>4. k \in Nat /\ k >= 2 /\ k <= saved_header_len
    <3>1. CASE Matches(i) = {}
      BY <2>2, <2>3, <3>1 DEF InjectAll
    <3>2. CASE Matches(i) # {}
      <4>1. MatchLen(i) \in Nat
        BY <1>1, <1>2 DEF MatchLen, MatchMost
      <4>2. k \in 2 .. saved_header_len - MatchLen(i)
        BY <2>2, <3>2 DEF Matches
      <4> QED
        BY <1>1, <4>1, <4>2
    <3> QED
      BY <3>1, <3>2
  <2>5. \A n \in 0 .. k - 1 : saved_jpeg_header[n] \in Byte
    <3>1. ASSUME NEW n \in 0 .. k - 1 PROVE n \in 0 .. MaxHeader - 1
      BY <2>3, <2>4
    <3> QED
      BY <3>1 DEF TypeOK
  <2>6. saved_jpeg_header[0] = FF /\ saved_jpeg_header[1] = SOI
    BY <2>3 DEF ShapeInv
  <2>7. k <= IF saved_header_len = 0 THEN 2 ELSE saved_header_len
    BY <2>3, <2>4
  <2> QED
    BY <1>2, <2>2, <2>3, <2>4, <2>5, <2>6, <2>7, InvPutBefore
<1>7. CASE Prepend
  <2>1. PICK i \in Markers : PutBefore(SoiBytes, 2, i)
    BY <1>7 DEF Prepend
  <2>2. pc = "fix" /\ saved_header_len = 0
    BY <1>7 DEF Prepend
  <2>3. SoiBytes[0] = FF /\ SoiBytes[1] = SOI
    BY DEF SoiBytes
  <2>4. \A n \in 0 .. 2 - 1 : SoiBytes[n] \in Byte
    <3>1. FF \in Byte /\ SOI \in Byte
      BY DEF FF, SOI, Byte
    <3>2. \A n \in 0 .. 2 - 1 : n = 0 \/ n = 1
      OBVIOUS
    <3> QED
      BY <2>3, <3>1, <3>2
  <2>5. 2 <= IF saved_header_len = 0 THEN 2 ELSE saved_header_len
    BY <2>2
  <2> QED
    BY <1>2, <2>1, <2>2, <2>3, <2>4, <2>5, InvPutBefore
<1> QED
  BY <1>3, <1>4, <1>5, <1>6, <1>7

(* Its end.                                                                *)
LEMMA InvEnd ==
    ASSUME IInv, TrimToEoi \/ AppendEoi \/ NoRoomForEoi
    PROVE  IInv'
<1> USE DEF IInv
<1>1. /\ pc = "eoi" /\ pc' = "done" /\ jpeg_ptr' = jpeg_ptr
      /\ UNCHANGED <<header, warmed_up, savedVars, frame_pos, pos, hdr_start, shot>>
      /\ ret' = "ok"
  BY DEF TrimToEoi, AppendEoi, NoRoomForEoi, Return
<1>2. /\ jpeg_ptr \in Nat /\ jpeg_len \in Nat /\ jpeg_len >= 2
      /\ jpeg_ptr + jpeg_len <= BufSize /\ BufSize \in Nat
      /\ frame_buf[jpeg_ptr] = FF /\ frame_buf[jpeg_ptr + 1] = SOI
  BY <1>1, FixupAssumption, CellsFacts DEF TypeOK, ShapeInv
<1> DEFINE Ends ==
               /\ frame_buf' \in [Cells -> Byte]
               /\ jpeg_len' \in Nat /\ jpeg_len' >= 2 /\ jpeg_ptr + jpeg_len' <= BufSize
               /\ frame_buf'[jpeg_ptr] = FF /\ frame_buf'[jpeg_ptr + 1] = SOI
               /\ \/ /\ frame_buf'[jpeg_ptr + jpeg_len' - 2] = FF
                     /\ frame_buf'[jpeg_ptr + jpeg_len' - 1] = EOI
                  \/ jpeg_ptr + jpeg_len' + 2 > BufSize
<1>3. ASSUME Ends PROVE IInv'
  <2> DEFINE n == jpeg_len'
  <2>1. n \in Nat /\ jpeg_ptr + n <= BufSize
    BY <1>3
  <2> HIDE DEF n
  <2>2. n \in 0 .. BufSize
    BY <1>2, <2>1
  <2>3. jpeg_len' \in 0 .. BufSize /\ jpeg_ptr' + jpeg_len' <= BufSize
    BY <1>1, <2>1, <2>2 DEF n
  <2>4. TypeOK'
    BY <1>1, <1>3, <2>3 DEF TypeOK, savedVars
  <2>5. ShapeInv' /\ RoomSuffices'
    BY <1>1 DEF ShapeInv, RoomSuffices, savedVars
  <2>6. Framed'
    <3>1. EndCell' = jpeg_ptr + n /\ jpeg_ptr' = jpeg_ptr
      BY <1>1 DEF EndCell, n
    <3>2. n >= 2 /\ frame_buf'[jpeg_ptr] = FF /\ frame_buf'[jpeg_ptr + 1] = SOI
      BY <1>3 DEF n
    <3>3. \/ /\ frame_buf'[jpeg_ptr + n - 2] = FF
             /\ frame_buf'[jpeg_ptr + n - 1] = EOI
          \/ jpeg_ptr + n + 2 > BufSize
      BY <1>3 DEF n
    <3>4. \/ /\ frame_buf'[EndCell' - 2] = FF /\ frame_buf'[EndCell' - 1] = EOI
          \/ EndCell' + 2 > BufSize
      BY <1>2, <2>1, <3>1, <3>3
    <3> QED
      BY <3>1, <3>2, <3>4 DEF Framed, n
  <2> QED
    BY <2>4, <2>5, <2>6
<1>4. ASSUME TrimToEoi PROVE Ends
  <2>1. PICK n \in EoiEnds : jpeg_len' = n /\ frame_buf' = frame_buf
    BY <1>4 DEF TrimToEoi, Return
  <2>2. n \in 2 .. jpeg_len /\ frame_buf[jpeg_ptr + n - 2] = FF
        /\ frame_buf[jpeg_ptr + n - 1] = EOI
    BY DEF EoiEnds
  <2>3. n \in Nat /\ n >= 2 /\ jpeg_ptr + n <= BufSize
    BY <1>2, <2>2
  <2>4. frame_buf' \in [Cells -> Byte]
    BY <2>1 DEF TypeOK
  <2> QED
    BY <1>2, <2>1, <2>2, <2>3, <2>4
<1>5. ASSUME AppendEoi PROVE Ends
  <2>1. /\ frame_buf' = [p \in Cells |-> IF p = EndCell THEN FF
                                         ELSE IF p = EndCell + 1 THEN EOI
                                         ELSE frame_buf[p]]
        /\ jpeg_len' = jpeg_len + 2 /\ EndCell + 2 <= BufSize
    BY <1>5 DEF AppendEoi, EoiFits, Return
  <2>2. EndCell \in Cells /\ EndCell + 1 \in Cells /\ jpeg_ptr \in Cells
        /\ jpeg_ptr + 1 \in Cells
        /\ EndCell # jpeg_ptr /\ EndCell # jpeg_ptr + 1
        /\ EndCell + 1 # jpeg_ptr /\ EndCell + 1 # jpeg_ptr + 1
        /\ EndCell + 1 # EndCell
    BY <1>2, <2>1 DEF EndCell, Cells
  <2>3. frame_buf'[jpeg_ptr] = FF /\ frame_buf'[jpeg_ptr + 1] = SOI
        /\ frame_buf'[EndCell] = FF /\ frame_buf'[EndCell + 1] = EOI
    BY <1>2, <2>1, <2>2
  <2>4. jpeg_ptr + jpeg_len' - 2 = EndCell /\ jpeg_ptr + jpeg_len' - 1 = EndCell + 1
        /\ jpeg_len' \in Nat /\ jpeg_len' >= 2 /\ jpeg_ptr + jpeg_len' <= BufSize
    BY <1>2, <2>1 DEF EndCell
  <2>5. frame_buf' \in [Cells -> Byte]
    <3>1. FF \in Byte /\ EOI \in Byte
      BY DEF FF, EOI, Byte
    <3> QED
      BY <2>1, <3>1 DEF TypeOK
  <2> QED
    BY <2>3, <2>4, <2>5
<1>6. ASSUME NoRoomForEoi PROVE Ends
  <2>1. frame_buf' = frame_buf /\ jpeg_len' = jpeg_len /\ ~(EndCell + 2 <= BufSize)
    BY <1>6 DEF NoRoomForEoi, EoiFits, Return
  <2>2. jpeg_ptr + jpeg_len' + 2 > BufSize
    BY <1>2, <2>1 DEF EndCell
  <2>3. frame_buf' \in [Cells -> Byte]
    BY <2>1 DEF TypeOK
  <2> QED
    BY <1>2, <2>1, <2>2, <2>3
<1> QED
  BY <1>3, <1>4, <1>5, <1>6

LEMMA InvNext == IInv /\ [Next]_vars => IInv'
<1> SUFFICES ASSUME IInv, [Next]_vars PROVE IInv'
  OBVIOUS
<1> USE DEF IInv
<1>1. CASE NoFrame
  <2>1. TypeOK'
    BY <1>1 DEF NoFrame, TypeOK, savedVars, outVars
  <2>2. ShapeInv' /\ Framed' /\ RoomSuffices'
    BY <1>1 DEF NoFrame, ShapeInv, Framed, RoomSuffices, savedVars
  <2> QED
    BY <2>1, <2>2
<1>2. CASE FrameUsed
  <2>1. frame_buf' \in [Cells -> Byte]
    BY <1>2, EmptyFilled DEF FrameUsed
  <2>2. /\ jpeg_ptr' \in Cells /\ jpeg_len' \in 0 .. BufSize
        /\ jpeg_ptr' + jpeg_len' <= BufSize /\ frame_pos' \in 0 .. BufSize
    BY <1>2, CellsFacts DEF FrameUsed
  <2>3. TypeOK'
    BY <1>2, <2>1, <2>2 DEF FrameUsed, TypeOK, savedVars
  <2>4. ShapeInv' /\ Framed' /\ RoomSuffices'
    BY <1>2 DEF FrameUsed, ShapeInv, Framed, RoomSuffices, savedVars
  <2> QED
    BY <2>3, <2>4
<1>3. CASE ChangeResolution
  <2>1. saved_jpeg_header' \in [0 .. MaxHeader - 1 -> Byte]
        /\ saved_header_len' \in {0} \cup 2 .. MaxHeader
    BY <1>3 DEF ChangeResolution, NoHeader, Byte
  <2>2. TypeOK'
    BY <1>3, <2>1 DEF ChangeResolution, TypeOK, outVars
  <2>3. ShapeInv' /\ Framed' /\ RoomSuffices'
    BY <1>3 DEF ChangeResolution, ShapeInv, Framed, RoomSuffices
  <2> QED
    BY <2>2, <2>3
<1>4. CASE Overrun \/ UNCHANGED vars
  <2>1. UNCHANGED vars
    BY <1>4 DEF Overrun
  <2>2. TypeOK'
    BY <2>1 DEF vars, TypeOK, savedVars, outVars
  <2>3. ShapeInv' /\ Framed' /\ RoomSuffices'
    BY <2>1 DEF vars, ShapeInv, Framed, RoomSuffices, savedVars, outVars, EndCell
  <2> QED
    BY <2>2, <2>3
<1> QED
  BY <1>1, <1>2, <1>3, <1>4, InvCaptureHeader, InvCaptureFrame, InvWalk, InvBegin, InvEnd
     DEF Next, jpeg_fixup_frame

THEOREM Invariant == Spec => []IInv
BY InvInit, InvNext, PTL DEF Spec

(* Type correctness: the walk over the header, the injection and the end   *)
(* marker stay within their buffers, for any sizes.                        *)
THEOREM TypeCorrect == Spec => []TypeOK
<1>1. IInv => TypeOK
  BY DEF IInv
<1> QED
  BY Invariant, <1>1, PTL

(* Whatever was captured, jpeg_fixup_frame returns a frame that begins     *)
(* with SOI, and ends with EOI if the buffer has room.                     *)
THEOREM FramesAreFramed == Spec => []Framed
<1>1. IInv => Framed
  BY DEF IInv
<1> QED
  BY Invariant, <1>1, PTL

(* The header overruns the buffer only when capture and header together    *)
(* are larger than it.                                                     *)
THEOREM RoomIsEnough == Spec => []RoomSuffices
<1>1. IInv => RoomSuffices
  BY DEF IInv
<1> QED
  BY Invariant, <1>1, PTL
-----------------------------------------------------------------------------
(* The header.  All of it stands at a in the frame buffer, and no DQT is   *)
(* before it.                                                              *)
HeaderAt(a) ==
    /\ a + Len(header) <= frame_pos
    /\ \A q \in 1 .. Len(header) : frame_buf[a + q - 1] = header[q]
    /\ \A q \in 0 .. a - 1 : ~(frame_buf[q] = FF /\ frame_buf[q + 1] = DQT)

Starts(h) == {S \in SUBSET {p \in 1 .. Len(h) - 3 : h[p] = FF} : SegStarts(h, S)}

(* The walk is at a segment of the header, until that is saved.            *)
SaveInv ==
    /\ pc \in {"extract", "walk"} => saved_header_len = 0
    /\ clean /\ pc = "extract" => \E a \in Cells : HeaderAt(a)
    /\ clean /\ pc = "walk" =>
         /\ HeaderAt(hdr_start)
         /\ \E S \in Starts(header) : pos - hdr_start + 1 \in S
    /\ SavedIsHeader

(* A header that is a row of segments begins with a DQT, and has more than *)
(* the five bytes that the search for it leaves at the end.                *)
LEMMA HeaderFacts ==
    ASSUME NEW h \in Headers, NEW S \in Starts(h)
    PROVE  /\ h \in Seq(Octet) /\ Len(h) \in Nat /\ Len(h) > 5
           /\ h[1] = FF /\ h[2] = DQT
           /\ \A q \in 1 .. Len(h) : h[q] \in 0 .. 255
           /\ \A x \in S : x \in Nat /\ 1 <= x /\ x + 3 <= Len(h) /\ h[x] = FF
<1>1. h \in Seq(Octet) /\ Len(h) \in Nat
  BY FixupAssumption, LenProperties DEF Octet
<1>2. \A q \in 1 .. Len(h) : h[q] \in 0 .. 255
  BY <1>1, ElementOfSeq DEF Octet
<1>3. S \subseteq {q \in 1 .. Len(h) - 3 : h[q] = FF} /\ SegStarts(h, S)
  BY DEF Starts
<1>4. \A x \in S : x \in Nat /\ 1 <= x /\ x + 3 <= Len(h) /\ h[x] = FF
  BY <1>1, <1>3
<1>5. 1 \in S /\ h[2] = DQT
  BY <1>3 DEF SegStarts
<1>6. 3 + h[3] * 256 + h[4] \in S
  <2>1. 1 + 2 + h[1 + 2] * 256 + h[1 + 3] \in S
    BY <1>3, <1>5 DEF SegStarts, DQT, SOS
  <2>2. 1 + 2 = 3 /\ 1 + 3 = 4
    OBVIOUS
  <2> QED
    BY <2>1, <2>2, Zenon
<1>7. h[3] \in Nat /\ h[4] \in Nat
  <2>1. 3 \in 1 .. Len(h) /\ 4 \in 1 .. Len(h)
    BY <1>1, <1>4, <1>5
  <2>2. h[3] \in 0 .. 255 /\ h[4] \in 0 .. 255
    BY <1>2, <2>1
  <2> QED
    BY <2>2
<1>8. Len(h) > 5
  <2> DEFINE x == 3 + h[3] * 256 + h[4]
  <2>1. x >= 3
    <3>1. \A m, n \in Nat : 3 + m * 256 + n >= 3
      OBVIOUS
    <3> QED
      BY <1>7, <3>1
  <2> HIDE DEF x
  <2>2. x + 3 <= Len(h) /\ x \in Nat
    BY <1>4, <1>6 DEF x
  <2> QED
    BY <1>1, <2>1, <2>2
<1> QED
  BY <1>1, <1>2, <1>4, <1>5, <1>8

LEMMA LengthBytes ==
    ASSUME NEW h \in Headers, NEW S \in Starts(h), NEW x \in S
    PROVE  h[x + 2] \in Nat /\ h[x + 3] \in Nat
<1>1. x \in Nat /\ 1 <= x /\ x + 3 <= Len(h) /\ Len(h) \in Nat
  BY HeaderFacts
<1>2. x + 2 \in 1 .. Len(h) /\ x + 3 \in 1 .. Len(h)
  BY <1>1
<1>3. \A q \in 1 .. Len(h) : h[q] \in 0 .. 255
  BY HeaderFacts
<1>4. h[x + 2] \in 0 .. 255 /\ h[x + 3] \in 0 .. 255
  BY <1>2, <1>3
<1> QED
  BY <1>4

(* The bytes of a segment's head, seen in the buffer.                      *)
LEMMA SegmentSeen ==
    ASSUME TypeOK, NEW a \in Cells, HeaderAt(a), NEW S \in Starts(header),
           NEW x \in S, pos = a + x - 1
    PROVE  /\ AtSegment
           /\ frame_buf[pos + 1] = header[x + 1]
           /\ SegLen = header[x + 2] * 256 + header[x + 3]
           /\ SegLen \in Nat
<1>1. /\ header \in Headers /\ a \in Nat /\ pos \in Nat /\ frame_pos \in Nat
      /\ frame_pos <= BufSize /\ BufSize \in Nat
  BY CellsFacts DEF TypeOK
<1>2. /\ Len(header) \in Nat /\ x \in Nat /\ 1 <= x /\ x + 3 <= Len(header) /\ header[x] = FF
      /\ \A q \in 1 .. Len(header) : header[q] \in 0 .. 255
  BY <1>1, HeaderFacts
<1>3. a + Len(header) <= frame_pos
      /\ \A q \in 1 .. Len(header) : frame_buf[a + q - 1] = header[q]
  BY DEF HeaderAt
<1>4. /\ x \in 1 .. Len(header) /\ x + 1 \in 1 .. Len(header)
      /\ x + 2 \in 1 .. Len(header) /\ x + 3 \in 1 .. Len(header)
  BY <1>2
<1>5. /\ a + x - 1 = pos /\ a + (x + 1) - 1 = pos + 1
      /\ a + (x + 2) - 1 = pos + 2 /\ a + (x + 3) - 1 = pos + 3
  BY <1>1, <1>2
<1>6. /\ frame_buf[pos] = FF /\ frame_buf[pos + 1] = header[x + 1]
      /\ frame_buf[pos + 2] = header[x + 2] /\ frame_buf[pos + 3] = header[x + 3]
  BY <1>2, <1>3, <1>4, <1>5
<1>7. pos + 3 < frame_pos
  BY <1>1, <1>2, <1>3
<1>8. header[x + 2] \in Nat /\ header[x + 3] \in Nat
  BY <1>1, LengthBytes
<1> QED
  BY <1>6, <1>7, <1>8 DEF AtSegment, SegLen

(* The capture for the header.                                             *)
LEMMA SaveCapture ==
    ASSUME Segmented, IInv, SaveInv, CaptureHeader
    PROVE  SaveInv'
<1>1. PICK s \in Scans, t \in Scans :
        LET two == Picture(header, s) \o Picture(header, t)
        IN \E i, j \in 1 .. Len(two) :
             LET d == SubSeq(two, i, j)
             IN /\ i <= j /\ j - i < BufSize
                /\ frame_buf' = Filled(d) /\ frame_pos' = Len(d)
                /\ clean' = HasHeader(d, header)
  BY DEF CaptureHeader
<1> DEFINE two == Picture(header, s) \o Picture(header, t)
<1>2. two \in Seq(Octet) /\ header \in Headers /\ header \in Seq(Octet)
  BY PictureType, ConcatProperties, FixupAssumption DEF IInv, TypeOK, Octet
<1>3. PICK i, j \in 1 .. Len(two) :
        /\ i <= j /\ j - i < BufSize
        /\ frame_buf' = Filled(SubSeq(two, i, j))
        /\ frame_pos' = Len(SubSeq(two, i, j))
        /\ clean' = HasHeader(SubSeq(two, i, j), header)
  BY <1>1
<1> DEFINE d == SubSeq(two, i, j)
<1> HIDE DEF two
<1>4. d \in Seq(Octet) /\ Len(d) = j - i + 1
  BY <1>2, <1>3, PieceType
<1>5. Len(d) \in Nat /\ Len(d) <= BufSize /\ Len(header) \in Nat /\ BufSize \in Nat
  BY <1>2, <1>3, <1>4, LenProperties, FixupAssumption
<1>6. /\ pc' = "extract" /\ saved_header_len' = 0 /\ header' = header
      /\ frame_buf' = Filled(d) /\ frame_pos' = Len(d) /\ clean' = HasHeader(d, header)
  BY <1>3 DEF CaptureHeader
<1> HIDE DEF d
<1>7. ASSUME HasHeader(d, header) PROVE \E a \in Cells : HeaderAt(a)'
  <2>1. PICK k \in 1 .. Len(d) - Len(header) + 1 :
          /\ SubSeq(d, k, k + Len(header) - 1) = header
          /\ \A q \in 1 .. k - 1 : ~(d[q] = FF /\ d[q + 1] = DQT)
    BY <1>7 DEF HasHeader
  <2>2. PICK S \in Starts(header) : TRUE
    BY <1>2 DEF Segmented, Starts
  <2>3. Len(header) > 5
    BY <1>2, <2>2, HeaderFacts
  <2>4. \A q \in k .. k + Len(header) - 1 : d[q] \in Octet
    <3>1. ASSUME NEW q \in k .. k + Len(header) - 1 PROVE q \in 1 .. Len(d)
      BY <1>5, <2>1
    <3> QED
      BY <1>4, <3>1, ElementOfSeq
  <2>5. \A q \in 1 .. Len(header) : header[q] = d[k + q - 1]
    <3>1. k \in Int /\ k + Len(header) - 1 \in Int
          /\ (k + Len(header) - 1) - k + 1 = Len(header)
      BY <1>5, <2>1
    <3>2. \A q \in 1 .. (k + Len(header) - 1) - k + 1 :
            SubSeq(d, k, k + Len(header) - 1)[q] = d[k + q - 1]
      BY <2>4, <3>1, SubSeqProperties
    <3> QED
      BY <2>1, <3>1, <3>2
  <2>6. \A q \in 0 .. Len(d) - 1 : q \in Cells /\ frame_buf'[q] = d[q + 1]
    BY <1>5, <1>6 DEF Filled, Cells
  <2>7. k - 1 \in Cells /\ (k - 1) + Len(header) <= Len(d)
    BY <1>5, <2>1, <2>3 DEF Cells
  <2>8. ASSUME NEW q \in 1 .. Len(header) PROVE frame_buf'[(k - 1) + q - 1] = header[q]
    <3>1. (k - 1) + q - 1 \in 0 .. Len(d) - 1 /\ ((k - 1) + q - 1) + 1 = k + q - 1
      BY <1>5, <2>1, <2>7
    <3> QED
      BY <2>5, <2>6, <3>1
  <2>9. ASSUME NEW q \in 0 .. (k - 1) - 1
        PROVE  ~(frame_buf'[q] = FF /\ frame_buf'[q + 1] = DQT)
    <3>1. /\ q \in 0 .. Len(d) - 1 /\ q + 1 \in 0 .. Len(d) - 1 /\ q + 1 \in 1 .. k - 1
      BY <1>5, <2>1, <2>3, <2>7
    <3>2. frame_buf'[q] = d[q + 1] /\ frame_buf'[q + 1] = d[(q + 1) + 1]
      BY <2>6, <3>1
    <3> QED
      BY <2>1, <3>1, <3>2
  <2> QED
    BY <1>6, <2>7, <2>8, <2>9 DEF HeaderAt
<1> QED
  BY <1>6, <1>7 DEF SaveInv, SavedIsHeader

(* The first DQT is the header's.                                          *)
LEMMA SaveFind ==
    ASSUME Segmented, IInv, SaveInv, FindDqt
    PROVE  SaveInv'
<1>1. /\ pc = "extract" /\ pc' = "walk" /\ saved_header_len = 0 /\ saved_header_len' = 0
      /\ header' = header /\ clean' = clean /\ frame_buf' = frame_buf /\ frame_pos' = frame_pos
      /\ hdr_start' = pos'
  BY DEF FindDqt, SaveInv, savedVars
<1>2. hdr_start' \in Dqts /\ \A q \in Dqts : hdr_start' <= q
  BY DEF FindDqt, IsFirst
<1>3. ASSUME clean
      PROVE  HeaderAt(hdr_start') /\ \E S \in Starts(header) : 1 \in S
  <2>1. PICK a \in Cells : HeaderAt(a)
    BY <1>1, <1>3 DEF SaveInv
  <2>2. PICK S \in Starts(header) : TRUE
    BY DEF Segmented, Starts, IInv, TypeOK
  <2>3. /\ Len(header) \in Nat /\ Len(header) > 5 /\ header[1] = FF /\ header[2] = DQT
    BY HeaderFacts DEF IInv, TypeOK
  <2>4. a \in Nat /\ frame_pos \in Nat /\ a + Len(header) <= frame_pos
    BY <2>1, CellsFacts DEF HeaderAt, IInv, TypeOK
  <2>5. frame_buf[a] = FF /\ frame_buf[a + 1] = DQT
    <3>1. 1 \in 1 .. Len(header) /\ 2 \in 1 .. Len(header) /\ a + 1 - 1 = a /\ a + 2 - 1 = a + 1
      BY <2>3, <2>4
    <3> QED
      BY <2>1, <2>3, <3>1 DEF HeaderAt
  <2>6. a \in Dqts
    BY <2>3, <2>4, <2>5 DEF Dqts
  <2>7. hdr_start' \in Nat /\ hdr_start' <= a
        /\ frame_buf[hdr_start'] = FF /\ frame_buf[hdr_start' + 1] = DQT
    BY <1>2, <2>6 DEF Dqts
  <2>8. hdr_start' = a
    <3>1. CASE hdr_start' < a
      <4>1. hdr_start' \in 0 .. a - 1
        BY <2>4, <2>7, <3>1
      <4> QED
        BY <2>1, <2>7, <4>1 DEF HeaderAt
    <3> QED
      BY <2>4, <2>7, <3>1
  <2> QED
    BY <2>1, <2>2, <2>8 DEF Starts, SegStarts
<1>4. clean => /\ HeaderAt(hdr_start)'
               /\ \E S \in Starts(header') : pos' - hdr_start' + 1 \in S
  <2>1. pos' - hdr_start' + 1 = 1
    <3>1. hdr_start' \in Nat
      BY <1>2 DEF Dqts
    <3>2. pos' = hdr_start'
      BY <1>1
    <3>3. \A n \in Nat : n - n + 1 = 1
      OBVIOUS
    <3> QED
      BY <3>1, <3>2, <3>3, Zenon
  <2>2. HeaderAt(hdr_start') = HeaderAt(hdr_start)'
    BY <1>1 DEF HeaderAt
  <2> QED
    BY <1>1, <1>3, <2>1, <2>2
<1> QED
  BY <1>1, <1>4 DEF SaveInv, SavedIsHeader

(* From segment to segment.                                                *)
LEMMA SaveWalk ==
    ASSUME IInv, SaveInv, WalkSegment
    PROVE  SaveInv'
<1>1. /\ pc = "walk" /\ pc' = "walk" /\ AtSegment /\ ~AtSos /\ pos' = pos + 2 + SegLen
      /\ saved_header_len = 0 /\ saved_header_len' = 0
      /\ header' = header /\ clean' = clean /\ frame_buf' = frame_buf /\ frame_pos' = frame_pos
      /\ hdr_start' = hdr_start
  BY DEF WalkSegment, SaveInv, savedVars
<1>2. ASSUME clean
      PROVE  /\ HeaderAt(hdr_start)'
             /\ \E S \in Starts(header') : pos' - hdr_start' + 1 \in S
  <2>1. PICK S \in Starts(header) : pos - hdr_start + 1 \in S
    BY <1>1, <1>2 DEF SaveInv
  <2> DEFINE x == pos - hdr_start + 1
  <2>2. hdr_start \in Cells /\ hdr_start \in Nat /\ pos \in Nat /\ header \in Headers
        /\ HeaderAt(hdr_start)
    BY <1>1, <1>2, CellsFacts DEF SaveInv, IInv, TypeOK
  <2>3. pos = hdr_start + x - 1
    BY <2>2
  <2>4. x \in S
    BY <2>1
  <2> HIDE DEF x
  <2>5. /\ frame_buf[pos + 1] = header[x + 1]
        /\ SegLen = header[x + 2] * 256 + header[x + 3] /\ SegLen \in Nat
    BY <2>2, <2>3, <2>4, SegmentSeen DEF IInv
  <2>6. header[x + 1] # SOS
    BY <1>1, <2>5 DEF AtSos
  <2>7. x + 2 + header[x + 2] * 256 + header[x + 3] \in S
    BY <2>4, <2>6 DEF Starts, SegStarts
  <2>8. x \in Nat /\ header[x + 2] \in Nat /\ header[x + 3] \in Nat
    BY <2>2, <2>4, HeaderFacts, LengthBytes
  <2>9. pos' - hdr_start' + 1 = x + 2 + header[x + 2] * 256 + header[x + 3]
    BY <1>1, <2>2, <2>3, <2>5, <2>8
  <2>10. HeaderAt(hdr_start)'
    BY <1>1, <2>2 DEF HeaderAt
  <2> QED
    BY <1>1, <2>7, <2>9, <2>10
<1> QED
  BY <1>1, <1>2 DEF SaveInv, SavedIsHeader

(* The header saved is all of it.                                          *)
LEMMA SaveSave ==
    ASSUME IInv, SaveInv, SaveHeader
    PROVE  SaveInv'
<1>1. /\ pc = "walk" /\ pc' = "frame" /\ AtSos /\ header' = header /\ clean' = clean
      /\ saved_header_len = 0
  BY DEF SaveHeader, SaveInv, Extracted
<1>2. CASE 2 + RegionLen > MaxHeader
  BY <1>1, <1>2 DEF SaveHeader, SaveInv, SavedIsHeader
<1>3. CASE ~(2 + RegionLen > MaxHeader)
  <2>1. /\ saved_jpeg_header' =
               [i \in DOMAIN saved_jpeg_header |->
                  CASE i = 0 -> FF
                    [] i = 1 -> SOI
                    [] i \in 2 .. RegionLen + 1 -> Read(hdr_start + i - 2)
                    [] OTHER -> saved_jpeg_header[i]]
        /\ saved_header_len' = 2 + RegionLen
    BY <1>3 DEF SaveHeader
  <2>2. ASSUME clean
        PROVE  [n \in 1 .. saved_header_len' |-> saved_jpeg_header'[n - 1]] = <<FF, SOI>> \o header
    <3>1. PICK S \in Starts(header) : pos - hdr_start + 1 \in S
      BY <1>1, <2>2 DEF SaveInv
    <3> DEFINE x == pos - hdr_start + 1
    <3>2. hdr_start \in Cells /\ hdr_start \in Nat /\ pos \in Nat /\ header \in Headers
          /\ HeaderAt(hdr_start) /\ frame_pos \in Nat /\ frame_pos <= BufSize /\ BufSize \in Nat
      BY <1>1, <2>2, CellsFacts, FixupAssumption DEF SaveInv, IInv, TypeOK
    <3>3. pos = hdr_start + x - 1 /\ x \in S
      BY <3>1, <3>2
    <3> HIDE DEF x
    <3>4. /\ frame_buf[pos + 1] = header[x + 1]
          /\ SegLen = header[x + 2] * 256 + header[x + 3] /\ SegLen \in Nat
      BY <3>2, <3>3, SegmentSeen DEF IInv
    <3>5. header[x + 1] = SOS
      BY <1>1, <3>4 DEF AtSos
    <3>6. x + 2 + header[x + 2] * 256 + header[x + 3] = Len(header) + 1
      BY <3>3, <3>5 DEF Starts, SegStarts
    <3>7. /\ x \in Nat /\ 1 <= x /\ x + 3 <= Len(header) /\ Len(header) \in Nat
          /\ header \in Seq(Octet)
          /\ \A q \in 1 .. Len(header) : header[q] \in 0 .. 255
      BY <3>2, <3>3, HeaderFacts
    <3>8. header[x + 2] \in Nat /\ header[x + 3] \in Nat
      BY <3>2, <3>3, LengthBytes
    <3>9. RegionLen = Len(header)
      <4> DEFINE long == header[x + 2] * 256 + header[x + 3]
      <4>1. SegLen = long /\ x + 2 + long = Len(header) + 1 /\ long \in Nat
        BY <3>4, <3>6, <3>7, <3>8
      <4> HIDE DEF long
      <4>2. x \in Nat /\ hdr_start \in Nat /\ pos = hdr_start + x - 1 /\ Len(header) \in Nat
        BY <3>2, <3>3, <3>7
      <4>3. RegionLen = (hdr_start + x - 1) + 2 + long - hdr_start
        BY <4>1, <4>2 DEF RegionLen
      <4> QED
        BY <4>1, <4>2, <4>3
    <3>10. /\ saved_header_len' = Len(header) + 2 /\ Len(header) + 2 <= MaxHeader
           /\ MaxHeader \in Nat /\ DOMAIN saved_jpeg_header = 0 .. MaxHeader - 1
      BY <1>3, <2>1, <3>7, <3>9, FixupAssumption DEF IInv, TypeOK
    <3> DEFINE t == <<FF, SOI>> \o header
    <3>11. /\ t \in Seq(Octet) /\ Len(t) = Len(header) + 2
           /\ \A n \in 1 .. Len(header) + 2 : t[n] = IF n <= 2 THEN <<FF, SOI>>[n] ELSE header[n - 2]
      <4>1. <<FF, SOI>> \in Seq(Octet) /\ Len(<<FF, SOI>>) = 2
        BY DEF FF, SOI, Octet
      <4>2. /\ t \in Seq(Octet) /\ Len(t) = 2 + Len(header)
            /\ \A n \in 1 .. 2 + Len(header) : t[n] = IF n <= 2 THEN <<FF, SOI>>[n] ELSE header[n - 2]
        BY <3>7, <4>1, ConcatProperties
      <4>3. 2 + Len(header) = Len(header) + 2
        BY <3>7
      <4> QED
        BY <4>2, <4>3
    <3>12. t = [n \in 1 .. Len(header) + 2 |-> t[n]]
      BY <3>11, LenProperties
    <3> HIDE DEF t
    <3>13. ASSUME NEW n \in 1 .. Len(header) + 2 PROVE saved_jpeg_header'[n - 1] = t[n]
      <4>1. n - 1 \in 0 .. MaxHeader - 1 /\ n \in Int
        BY <3>7, <3>10
      <4>2. CASE n = 1
        BY <2>1, <3>10, <3>11, <4>1, <4>2
      <4>3. CASE n = 2
        BY <2>1, <3>10, <3>11, <4>1, <4>3
      <4>4. CASE n > 2
        <5>1. n - 1 \in 2 .. RegionLen + 1 /\ n - 1 # 0 /\ n - 1 # 1 /\ n - 2 \in 1 .. Len(header)
          BY <3>7, <3>9, <4>4
        <5>2. saved_jpeg_header'[n - 1] = Read(hdr_start + (n - 1) - 2)
          BY <2>1, <3>10, <4>1, <5>1
        <5>3. hdr_start + (n - 1) - 2 = hdr_start + (n - 2) - 1
              /\ hdr_start + (n - 2) - 1 \in Cells
          BY <3>2, <3>7, <4>4 DEF HeaderAt, Cells
        <5>4. Read(hdr_start + (n - 1) - 2) = header[n - 2]
          BY <3>2, <5>1, <5>3 DEF Read, HeaderAt
        <5>5. t[n] = header[n - 2]
          BY <3>11, <4>1, <4>4
        <5> QED
          BY <5>2, <5>4, <5>5
      <4> QED
        BY <4>1, <4>2, <4>3, <4>4
    <3>14. [n \in 1 .. saved_header_len' |-> saved_jpeg_header'[n - 1]]
             = [n \in 1 .. Len(header) + 2 |-> t[n]]
      BY <3>10, <3>13
    <3> QED
      BY <3>12, <3>14 DEF t
  <2> QED
    BY <1>1, <2>2 DEF SaveInv, SavedIsHeader
<1> QED
  BY <1>2, <1>3

LEMMA SaveNext == Segmented /\ IInv /\ SaveInv /\ [Next]_vars => SaveInv'
<1> SUFFICES ASSUME Segmented, IInv, SaveInv, [Next]_vars PROVE SaveInv'
  OBVIOUS
(* Whatever is not of the walk leaves the saved header and the camera's.   *)
<1> DEFINE Leave == /\ pc' \notin {"extract", "walk"} /\ pc # "walk"
                    /\ header' = header /\ saved_jpeg_header' = saved_jpeg_header
                    /\ saved_header_len' = saved_header_len /\ clean' = clean
<1>0. ASSUME Leave PROVE SaveInv'
  BY <1>0 DEF SaveInv, SavedIsHeader
<1>1. CASE NoDqt
  BY <1>0, <1>1 DEF NoDqt, Extracted, savedVars
<1>2. CASE SosNotFound
  <2>1. /\ pc' = "frame" /\ saved_header_len = 0 /\ saved_header_len' = 0
    BY <1>2 DEF SosNotFound, Extracted, SaveInv, savedVars
  <2> QED
    BY <2>1 DEF SaveInv, SavedIsHeader
<1>3. CASE CaptureFrame \/ NoFrame \/ FrameUsed
  BY <1>0, <1>3 DEF CaptureFrame, NoFrame, FrameUsed, savedVars
<1>4. CASE jpeg_fixup_frame
  <2>1. ASSUME NEW ptr, NEW len, pc = "fix", Found(ptr, len) PROVE SaveInv'
    BY <1>0, <2>1 DEF Found, savedVars
  <2>2. ASSUME NEW h, NEW k, NEW i, pc = "fix", PutBefore(h, k, i) PROVE SaveInv'
    <3>1. CASE i >= k \/ ~(k + (frame_pos - i) > BufSize)
      BY <2>1, <2>2, <3>1 DEF PutBefore
    <3>2. CASE ~(i >= k) /\ k + (frame_pos - i) > BufSize
      BY <1>0, <2>2, <3>2 DEF PutBefore, savedVars
    <3> QED
      BY <3>1, <3>2
  <2>3. CASE SoiAtStart \/ SoiLater
    BY <2>1, <2>3 DEF SoiAtStart, SoiLater
  <2>4. CASE NoMarker
    BY <1>0, <2>4 DEF NoMarker, savedVars
  <2>5. CASE Inject \/ Prepend
    BY <2>2, <2>5 DEF Inject, Prepend
  <2>6. CASE TrimToEoi \/ AppendEoi \/ NoRoomForEoi
    BY <1>0, <2>6 DEF TrimToEoi, AppendEoi, NoRoomForEoi, Return, savedVars
  <2> QED
    BY <1>4, <2>3, <2>4, <2>5, <2>6 DEF jpeg_fixup_frame
<1>5. CASE ChangeResolution
  BY <1>5 DEF ChangeResolution, SaveInv, SavedIsHeader
<1>6. CASE Overrun \/ UNCHANGED vars
  <2>1. /\ pc' = pc /\ header' = header /\ clean' = clean /\ frame_buf' = frame_buf
        /\ frame_pos' = frame_pos /\ pos' = pos /\ hdr_start' = hdr_start
        /\ saved_jpeg_header' = saved_jpeg_header /\ saved_header_len' = saved_header_len
    BY <1>6 DEF Overrun, vars, savedVars
  <2>2. \A a : HeaderAt(a)' = HeaderAt(a)
    BY <2>1 DEF HeaderAt
  <2>3. SavedIsHeader'
    BY <2>1 DEF SaveInv, SavedIsHeader
  <2>4. clean' /\ pc' = "walk" => HeaderAt(hdr_start)' /\
          \E S \in Starts(header') : pos' - hdr_start' + 1 \in S
    BY <2>1 DEF SaveInv, HeaderAt
  <2>5. clean' /\ pc' = "extract" => \E a \in Cells : HeaderAt(a)'
    BY <2>1, <2>2 DEF SaveInv
  <2> QED
    BY <2>1, <2>3, <2>4, <2>5 DEF SaveInv
<1> QED
  BY <1>1, <1>2, <1>3, <1>4, <1>5, <1>6, SaveCapture, SaveFind, SaveWalk, SaveSave DEF Next

THEOREM SavedInvariant == Segmented => (Spec => [](IInv /\ SaveInv))
<1> SUFFICES ASSUME Segmented PROVE Spec => [](IInv /\ SaveInv)
  OBVIOUS
<1>1. Init => SaveInv
  BY DEF Init, SaveInv, SavedIsHeader
<1>2. IInv /\ SaveInv /\ [Next]_vars => SaveInv'
  BY SaveNext
<1> QED
  BY <1>1, <1>2, Invariant, PTL DEF Spec

(* A header saved from a capture whose first DQT begins a whole one is the *)
(* camera's whole header, for any row of segments.                         *)
THEOREM SavedHeaderIsWhole == Segmented => (Spec => []SavedIsHeader)
<1> SUFFICES ASSUME Segmented PROVE Spec => []SavedIsHeader
  OBVIOUS
<1>1. SaveInv => SavedIsHeader
  BY DEF SaveInv
<1> QED
  BY SavedInvariant, <1>1, PTL
-----------------------------------------------------------------------------
(* The frame.  What was captured of the picture stands at b in the buffer, *)
(* and nothing around it looks like a marker.                              *)
Taken == shot.to - shot.from + 1

CapturedAt(b) ==
    /\ b + Taken <= frame_pos
    /\ shot.to < Len(shot.pic) => b + Taken = frame_pos
    /\ \A q \in 0 .. b - 1 : frame_buf[q] # FF
    /\ \A q \in 0 .. Taken - 1 : frame_buf[b + q] = shot.pic[shot.from + q]
    /\ \A q \in b + Taken .. frame_pos - 1 : frame_buf[q] # FF

ShotOK ==
    /\ \E s \in Scans : shot.pic = Picture(header, s)
    /\ shot.from \in Nat /\ shot.to \in Nat
    /\ 1 <= shot.from /\ shot.from <= shot.to /\ shot.to <= Len(shot.pic)

(* The frame is the picture up to where the capture ended.                 *)
Rebuilt ==
    /\ shot.to <= jpeg_len /\ (shot.to < Len(shot.pic) => jpeg_len = shot.to)
    /\ \A q \in 1 .. shot.to : frame_buf[jpeg_ptr + q - 1] = shot.pic[q]
    /\ \A q \in shot.to + 1 .. jpeg_len : frame_buf[jpeg_ptr + q - 1] # FF

Restorable == clean /\ saved_header_len > 0 /\ HeaderResumes

FrameInv ==
    /\ pc \in {"fix", "eoi"} => ShotOK
    /\ pc = "fix" => \E b \in 0 .. frame_pos : CapturedAt(b)
    /\ pc = "eoi" /\ Restorable => Rebuilt
    /\ Restored

(* The parts of a picture.                                                 *)
LEMMA PictureParts ==
    ASSUME NEW h \in Headers, NEW s \in Scans
    PROVE  /\ Len(h) \in Nat /\ Len(s) \in Nat /\ Len(Picture(h, s)) = Len(h) + Len(s) + 4
           /\ Picture(h, s)[1] = FF /\ Picture(h, s)[2] = SOI
           /\ \A q \in 1 .. Len(h) : Picture(h, s)[q + 2] = h[q]
           /\ \A q \in 1 .. Len(s) : Picture(h, s)[q + Len(h) + 2] = s[q]
           /\ Picture(h, s)[Len(h) + Len(s) + 3] = FF
           /\ Picture(h, s)[Len(h) + Len(s) + 4] = EOI
<1> DEFINE soi == <<FF, SOI>>
           eoi == <<FF, EOI>>
<1>1. h \in Seq(Octet) /\ s \in Seq(Octet)
  BY FixupAssumption DEF Octet
<1>2. /\ soi \in Seq(Octet) /\ Len(soi) = 2 /\ soi[1] = FF /\ soi[2] = SOI
      /\ eoi \in Seq(Octet) /\ Len(eoi) = 2 /\ eoi[1] = FF /\ eoi[2] = EOI
  BY DEF FF, SOI, EOI, Octet
<1>3. Picture(h, s) = ((soi \o h) \o s) \o eoi
  BY DEF Picture
<1> HIDE DEF soi, eoi
<1> DEFINE a == soi \o h
           b == a \o s
           c == b \o eoi
<1>4. /\ a \in Seq(Octet) /\ Len(a) = 2 + Len(h)
      /\ \A q \in 1 .. 2 + Len(h) : a[q] = IF q <= 2 THEN soi[q] ELSE h[q - 2]
  <2>1. /\ a \in Seq(Octet) /\ Len(a) = Len(soi) + Len(h)
        /\ \A q \in 1 .. Len(soi) + Len(h) :
             a[q] = IF q <= Len(soi) THEN soi[q] ELSE h[q - Len(soi)]
    BY <1>1, <1>2, ConcatProperties
  <2> HIDE DEF a
  <2> QED
    BY <1>2, <2>1
<1> HIDE DEF a
<1>5. /\ b \in Seq(Octet) /\ Len(b) = Len(a) + Len(s)
      /\ \A q \in 1 .. Len(a) + Len(s) : b[q] = IF q <= Len(a) THEN a[q] ELSE s[q - Len(a)]
  BY <1>1, <1>4, ConcatProperties
<1> HIDE DEF b
<1>6. /\ Len(c) = Len(b) + 2
      /\ \A q \in 1 .. Len(b) + 2 : c[q] = IF q <= Len(b) THEN b[q] ELSE eoi[q - Len(b)]
  <2>1. /\ Len(c) = Len(b) + Len(eoi)
        /\ \A q \in 1 .. Len(b) + Len(eoi) :
             c[q] = IF q <= Len(b) THEN b[q] ELSE eoi[q - Len(b)]
    <3>1. b \in Seq(Octet) /\ eoi \in Seq(Octet)
      BY <1>2, <1>5
    <3> QED
      BY <3>1, ConcatProperties
  <2> HIDE DEF c
  <2> QED
    BY <1>2, <2>1
<1> HIDE DEF c
<1>7. Len(h) \in Nat /\ Len(s) \in Nat
  BY <1>1, LenProperties
<1> DEFINE L == Len(h)
           M == Len(s)
<1>8. L \in Nat /\ M \in Nat /\ Len(a) = L + 2 /\ Len(b) = L + M + 2 /\ Len(c) = L + M + 4
  BY <1>4, <1>5, <1>6, <1>7
<1>9. c[1] = FF /\ c[2] = SOI
  <2> HIDE DEF L, M
  <2>1. \A q \in 1 .. 2 : c[q] = b[q] /\ b[q] = a[q]
    BY <1>5, <1>6, <1>8 DEF L, M
  <2>2. \A q \in 1 .. 2 : a[q] = soi[q]
    BY <1>4, <1>8 DEF L
  <2> QED
    BY <1>2, <2>1, <2>2
<1>10. ASSUME NEW q \in 1 .. L PROVE c[q + 2] = h[q]
  <2>1. q + 2 \in 1 .. 2 + L /\ ~(q + 2 <= 2) /\ (q + 2) - 2 = q
    BY <1>8
  <2>2. a[q + 2] = h[q]
    BY <1>4, <2>1
  <2>3. b[q + 2] = a[q + 2]
    BY <1>5, <1>8
  <2>4. c[q + 2] = b[q + 2]
    BY <1>6, <1>8
  <2> QED
    BY <2>2, <2>3, <2>4
<1>11. ASSUME NEW q \in 1 .. M PROVE c[q + L + 2] = s[q]
  <2>1. ~(q + L + 2 <= Len(a)) /\ q + L + 2 - Len(a) = q /\ q + L + 2 \in 1 .. Len(a) + Len(s)
        /\ q + L + 2 <= Len(b) /\ q + L + 2 \in 1 .. Len(b) + 2
    BY <1>8
  <2>2. b[q + L + 2] = s[q]
    <3>1. \A j \in 1 .. Len(a) + Len(s) : b[j] = IF j <= Len(a) THEN a[j] ELSE s[j - Len(a)]
      BY <1>5
    <3> DEFINE i == q + L + 2
    <3>2. i \in 1 .. Len(a) + Len(s) /\ ~(i <= Len(a)) /\ i - Len(a) = q
      BY <2>1
    <3> HIDE DEF i
    <3>3. b[i] = s[i - Len(a)]
      BY <3>1, <3>2
    <3> QED
      BY <3>2, <3>3 DEF i
  <2>3. c[q + L + 2] = b[q + L + 2]
    BY <1>6, <2>1
  <2> QED
    BY <2>2, <2>3
<1>12. c[L + M + 3] = FF /\ c[L + M + 4] = EOI
  <2>1. /\ ~(L + M + 3 <= Len(b)) /\ L + M + 3 - Len(b) = 1 /\ L + M + 3 \in 1 .. Len(b) + 2
        /\ ~(L + M + 4 <= Len(b)) /\ L + M + 4 - Len(b) = 2 /\ L + M + 4 \in 1 .. Len(b) + 2
    BY <1>8
  <2> QED
    BY <1>2, <1>6, <2>1
<1>13. Picture(h, s) = c
  BY <1>3 DEF a, b, c
<1> QED
  BY <1>8, <1>9, <1>10, <1>11, <1>12, <1>13

(* The markers of a picture: SOI, those of the header, EOI.                *)
LEMMA PictureMarkers ==
    ASSUME Recognisable, NEW h \in Headers, NEW s \in Scans,
           NEW i \in 1 .. Len(Picture(h, s)) - 1, MarkerAt(Picture(h, s), i)
    PROVE  \/ i = 1
           \/ i = Len(Picture(h, s)) - 1
           \/ /\ i >= 3 /\ i + 3 <= Len(h)
              /\ Picture(h, s)[i + 1] \notin {SOI, EOI}
              /\ MarkerAt(h, i - 2)
<1> DEFINE p == Picture(h, s)
           L == Len(h)
           M == Len(s)
<1>1. L \in Nat /\ M \in Nat /\ Len(p) = L + M + 4 /\ i \in 1 .. L + M + 3
  BY PictureParts
<1>2. p[i] = FF /\ p[i + 1] \in 192 .. 254
  BY DEF MarkerAt
<1>3. /\ p[1] = FF /\ p[2] = SOI
      /\ \A q \in 1 .. L : p[q + 2] = h[q]
      /\ \A q \in 1 .. M : p[q + L + 2] = s[q]
      /\ p[L + M + 3] = FF
  BY PictureParts
<1> HIDE DEF p, L, M
<1>4. CASE i = 2
  BY <1>2, <1>3, <1>4 DEF FF, SOI
<1>5. CASE i \in 3 .. L + 1
  <2>1. i - 2 \in 1 .. L - 1 /\ i - 2 + 2 = i /\ i - 1 \in 1 .. L /\ i - 1 + 2 = i + 1
        /\ i - 2 \in 1 .. L /\ i - 2 + 1 = i - 1
    BY <1>1, <1>5
  <2>2. p[i] = h[i - 2] /\ p[i + 1] = h[i - 1]
    BY <1>3, <2>1
  <2>3. MarkerAt(h, i - 2)
    BY <1>2, <2>1, <2>2 DEF MarkerAt
  <2>4. h[i - 1] \notin {SOI, EOI} /\ i - 2 + 5 <= L
    BY <2>1, <2>3 DEF Recognisable, L
  <2>5. i >= 3 /\ i + 3 <= L
    BY <1>1, <1>5, <2>4
  <2> QED
    BY <2>2, <2>3, <2>4, <2>5 DEF p, L
<1>6. CASE i = L + 2 /\ i > 2
  <2>1. L \in 1 .. L /\ L + 2 = i
    BY <1>1, <1>6
  <2>2. p[i] = h[L]
    BY <1>3, <2>1
  <2> QED
    BY <1>2, <2>2 DEF Recognisable, L
<1>7. CASE i \in L + 3 .. L + M + 1
  <2>1. /\ i - L - 2 \in 1 .. M - 1 /\ i - L - 2 \in 1 .. M /\ i - L - 2 + L + 2 = i
        /\ i - L - 1 \in 1 .. M /\ i - L - 1 + L + 2 = i + 1 /\ i - L - 2 + 1 = i - L - 1
    BY <1>1, <1>7
  <2>2. p[i] = s[i - L - 2] /\ p[i + 1] = s[i - L - 1]
    BY <1>3, <2>1
  <2>3. MarkerAt(s, i - L - 2)
    BY <1>2, <2>1, <2>2 DEF MarkerAt
  <2> QED
    BY <2>1, <2>3 DEF Recognisable, M
<1>8. CASE i = L + M + 2
  <2>1. i + 1 = L + M + 3
    BY <1>1, <1>8
  <2>2. p[i + 1] = FF
    BY <1>3, <2>1
  <2>3. FF \notin 192 .. 254
    BY DEF FF
  <2> QED
    BY <1>2, <2>2, <2>3
<1>9. CASE i = L + M + 3
  <2>1. i = Len(p) - 1
    BY <1>1, <1>9
  <2> QED
    BY <2>1 DEF p
<1>10. \/ i = 1 \/ i = 2 \/ i \in 3 .. L + 1 \/ (i = L + 2 /\ i > 2) \/ i \in L + 3 .. L + M + 1
       \/ i = L + M + 2 \/ i = L + M + 3
  BY <1>1
<1> QED
  BY <1>4, <1>5, <1>6, <1>7, <1>8, <1>9, <1>10

(* The six bytes of a header's marker are not found before it.             *)
LEMMA PictureUnique ==
    ASSUME Recognisable, NEW h \in Headers, NEW s \in Scans,
           NEW i \in Nat, i >= 3, i + 3 <= Len(h), MarkerAt(h, i - 2), NEW k \in 2 .. i - 2
    PROVE  \E n \in 0 .. 5 : Picture(h, s)[k + 1 + n] # Picture(h, s)[i + n]
<1>1. Len(h) \in Nat
  BY PictureParts
<1>2. i - 2 \in 1 .. Len(h) - 1 /\ k - 1 \in 1 .. (i - 2) - 1
  BY <1>1
<1>3. PICK n \in 0 .. 5 : h[(k - 1) + n] # h[(i - 2) + n]
  BY <1>2 DEF Recognisable
<1>4. /\ (k - 1) + n \in 1 .. Len(h) /\ (k - 1) + n + 2 = k + 1 + n
      /\ (i - 2) + n \in 1 .. Len(h) /\ (i - 2) + n + 2 = i + n
  BY <1>1
<1>5. /\ Picture(h, s)[(k - 1) + n + 2] = h[(k - 1) + n]
      /\ Picture(h, s)[(i - 2) + n + 2] = h[(i - 2) + n]
  BY <1>4, PictureParts
<1> QED
  BY <1>3, <1>4, <1>5

(* The numbers of a shot.                                                  *)
LEMMA ShotFacts ==
    ASSUME IInv, ShotOK, NEW b \in 0 .. frame_pos, CapturedAt(b)
    PROVE  /\ shot.from \in Nat /\ shot.to \in Nat /\ Len(shot.pic) \in Nat
           /\ 1 <= shot.from /\ shot.from <= shot.to /\ shot.to <= Len(shot.pic)
           /\ frame_pos \in Nat /\ frame_pos <= BufSize /\ BufSize \in Nat /\ b \in Nat
           /\ Taken \in Nat /\ Taken >= 1 /\ Taken = shot.to - shot.from + 1
           /\ b + Taken <= frame_pos
           /\ shot.to < Len(shot.pic) => b + Taken = frame_pos
           /\ shot.pic[Len(shot.pic)] = EOI /\ Len(shot.pic) >= 4
<1>1. PICK s \in Scans : shot.pic = Picture(header, s)
  BY DEF ShotOK
<1>2. /\ Len(header) \in Nat /\ Len(s) \in Nat /\ Len(shot.pic) = Len(header) + Len(s) + 4
      /\ shot.pic[Len(header) + Len(s) + 4] = EOI
  BY <1>1, PictureParts DEF IInv, TypeOK
<1>3. frame_pos \in Nat /\ frame_pos <= BufSize /\ BufSize \in Nat /\ b \in Nat
  BY FixupAssumption DEF IInv, TypeOK
<1>4. shot.from \in Nat /\ shot.to \in Nat /\ 1 <= shot.from /\ shot.from <= shot.to
      /\ shot.to <= Len(shot.pic)
  BY DEF ShotOK
<1>5. b + Taken <= frame_pos /\ (shot.to < Len(shot.pic) => b + Taken = frame_pos)
  BY DEF CapturedAt
<1>6. Taken \in Nat /\ Taken >= 1 /\ Taken = shot.to - shot.from + 1
  BY <1>4 DEF Taken
<1>7. shot.pic[Len(shot.pic)] = EOI /\ Len(shot.pic) \in Nat /\ Len(shot.pic) >= 4
  BY <1>2
<1> QED
  BY <1>3, <1>4, <1>5, <1>6, <1>7

(* A marker of the frame is a marker of the picture.                       *)
LEMMA FrameMarker ==
    ASSUME IInv, ShotOK, NEW b \in 0 .. frame_pos, CapturedAt(b),
           NEW i \in 0 .. frame_pos - 2, MarkerAt(frame_buf, i)
    PROVE  /\ i >= b /\ i + 2 <= b + Taken
           /\ shot.from + (i - b) \in 1 .. Len(shot.pic) - 1
           /\ MarkerAt(shot.pic, shot.from + (i - b))
           /\ frame_buf[i + 1] = shot.pic[shot.from + (i - b) + 1]
<1>1. /\ shot.from \in Nat /\ shot.to \in Nat /\ Len(shot.pic) \in Nat
      /\ 1 <= shot.from /\ shot.from <= shot.to /\ shot.to <= Len(shot.pic)
      /\ frame_pos \in Nat /\ b \in Nat
      /\ Taken \in Nat /\ Taken >= 1 /\ Taken = shot.to - shot.from + 1
      /\ b + Taken <= frame_pos
      /\ shot.to < Len(shot.pic) => b + Taken = frame_pos
      /\ shot.pic[Len(shot.pic)] = EOI
  BY ShotFacts
<1>2. frame_buf[i] = FF /\ frame_buf[i + 1] \in 192 .. 254
  BY DEF MarkerAt
<1>3. /\ \A q \in 0 .. b - 1 : frame_buf[q] # FF
      /\ \A q \in 0 .. Taken - 1 : frame_buf[b + q] = shot.pic[shot.from + q]
      /\ \A q \in b + Taken .. frame_pos - 1 : frame_buf[q] # FF
  BY DEF CapturedAt
<1>4. i >= b
  <2>1. i < b => i \in 0 .. b - 1
    BY <1>1
  <2> QED
    BY <1>1, <1>2, <1>3, <2>1
<1>5. i < b + Taken
  <2>1. ~(i < b + Taken) => i \in b + Taken .. frame_pos - 1
    BY <1>1
  <2> QED
    BY <1>1, <1>2, <1>3, <2>1
<1>6. frame_buf[i] = shot.pic[shot.from + (i - b)]
  <2>1. i - b \in 0 .. Taken - 1 /\ b + (i - b) = i
    BY <1>1, <1>4, <1>5
  <2> QED
    BY <1>3, <2>1
<1>7. i + 1 # b + Taken
  <2>1. SUFFICES ASSUME i + 1 = b + Taken PROVE FALSE
    OBVIOUS
  <2>2. shot.to = Len(shot.pic)
    BY <1>1, <2>1
  <2>3. shot.from + (i - b) = Len(shot.pic)
    <3> DEFINE f == shot.from
               k == Taken
               n == Len(shot.pic)
               t == shot.to
    <3>1. f \in Nat /\ k \in Nat /\ n = f + k - 1 /\ i = b + k - 1 /\ b \in Nat
      <4>1. f \in Nat /\ k \in Nat /\ t \in Nat /\ b \in Nat /\ k = t - f + 1 /\ t = n
        BY <1>1, <2>2
      <4>2. i \in Nat /\ i + 1 = b + k
        BY <1>1, <1>4, <2>1
      <4> HIDE DEF f, k, n, t
      <4> QED
        BY <4>1, <4>2
    <3> HIDE DEF f, k, n, t
    <3>2. f + (i - b) = n
      BY <3>1
    <3> QED
      BY <3>2 DEF f, n
  <2> QED
    BY <1>1, <1>2, <1>6, <2>3 DEF FF, EOI
<1>8. i + 2 <= b + Taken
  BY <1>1, <1>5, <1>7
<1>9. frame_buf[i + 1] = shot.pic[shot.from + (i - b) + 1]
  <2>1. i - b + 1 \in 0 .. Taken - 1 /\ b + (i - b + 1) = i + 1
        /\ shot.from + (i - b + 1) = shot.from + (i - b) + 1
    BY <1>1, <1>4, <1>8
  <2>2. frame_buf[b + (i - b + 1)] = shot.pic[shot.from + (i - b + 1)]
    BY <1>3, <2>1
  <2> QED
    BY <2>1, <2>2
<1>10. shot.from + (i - b) \in 1 .. Len(shot.pic) - 1
  <2> DEFINE f == shot.from
             k == Taken
             n == Len(shot.pic)
  <2>1. /\ f \in Nat /\ f >= 1 /\ k \in Nat /\ f + k - 1 <= n /\ n \in Nat
        /\ i \in Nat /\ b \in Nat /\ i >= b /\ i + 2 <= b + k
    BY <1>1, <1>4, <1>8
  <2> HIDE DEF f, k, n
  <2>2. f + (i - b) \in 1 .. n - 1
    BY <2>1
  <2> QED
    BY <2>2 DEF f, n
<1> QED
  BY <1>2, <1>4, <1>6, <1>8, <1>9, <1>10 DEF MarkerAt

(* If the capture has a header segment's marker, the first marker found is *)
(* that one or one before it.                                              *)
LEMMA FirstMarker ==
    ASSUME Recognisable, IInv, ShotOK, NEW b \in 0 .. frame_pos, CapturedAt(b), HeaderResumes,
           NEW i, IsFirst(i, Markers)
    PROVE  /\ i \in Nat /\ i >= b /\ shot.from + (i - b) <= shot.to - 5
           /\ frame_buf[i + 1] = shot.pic[shot.from + (i - b) + 1]
           /\ MarkerAt(shot.pic, shot.from + (i - b))
<1>1. /\ shot.from \in Nat /\ shot.to \in Nat /\ Len(shot.pic) \in Nat
      /\ 1 <= shot.from /\ shot.from <= shot.to /\ shot.to <= Len(shot.pic)
      /\ frame_pos \in Nat /\ b \in Nat
      /\ Taken \in Nat /\ Taken >= 1 /\ Taken = shot.to - shot.from + 1
      /\ b + Taken <= frame_pos
  BY ShotFacts
<1>2. i \in 0 .. frame_pos - 2 /\ i \in Nat /\ i < ScanLimit /\ MarkerAt(frame_buf, i)
  BY DEF IsFirst, Markers, MarkerAt
<1>3. /\ i >= b /\ i + 2 <= b + Taken
      /\ MarkerAt(shot.pic, shot.from + (i - b))
  BY <1>2, FrameMarker
<1>4. \A q \in 0 .. Taken - 1 : frame_buf[b + q] = shot.pic[shot.from + q]
  BY DEF CapturedAt
<1>5. frame_buf[i + 1] = shot.pic[shot.from + (i - b) + 1]
  BY <1>2, FrameMarker
<1>6. PICK x \in shot.from .. shot.to - 5 :
        shot.pic[x] = FF /\ shot.pic[x + 1] \in 192 .. 254 \ {EOI}
  BY DEF HeaderResumes
<1> DEFINE m == b + (x - shot.from)
<1>7. /\ m \in 0 .. frame_pos - 2 /\ x - shot.from \in 0 .. Taken - 1
      /\ x - shot.from + 1 \in 0 .. Taken - 1 /\ m + 1 = b + (x - shot.from + 1)
      /\ shot.from + (x - shot.from) = x /\ shot.from + (x - shot.from + 1) = x + 1
      /\ m \in Nat /\ x \in Nat
  <2> DEFINE f == shot.from
             k == Taken
  <2>1. /\ f \in Nat /\ k \in Nat /\ x \in Nat /\ f <= x /\ x + 5 <= f + k - 1
        /\ b \in Nat /\ b + k <= frame_pos /\ frame_pos \in Nat /\ m = b + (x - f)
    BY <1>1
  <2> HIDE DEF f, k, m
  <2>2. /\ m \in 0 .. frame_pos - 2 /\ x - f \in 0 .. k - 1
        /\ x - f + 1 \in 0 .. k - 1 /\ m + 1 = b + (x - f + 1)
        /\ f + (x - f) = x /\ f + (x - f + 1) = x + 1
        /\ m \in Nat /\ x \in Nat
    BY <2>1
  <2> QED
    BY <2>2 DEF f, k
<1>8. frame_buf[m] = FF /\ frame_buf[m + 1] \in 192 .. 254
  <2>1. /\ frame_buf[b + (x - shot.from)] = shot.pic[shot.from + (x - shot.from)]
        /\ frame_buf[b + (x - shot.from + 1)] = shot.pic[shot.from + (x - shot.from + 1)]
    BY <1>4, <1>7
  <2> HIDE DEF m
  <2>2. m = b + (x - shot.from)
    BY DEF m
  <2>3. frame_buf[m] = shot.pic[x] /\ frame_buf[m + 1] = shot.pic[x + 1]
    BY <1>7, <2>1, <2>2
  <2> QED
    BY <1>6, <2>3
<1> HIDE DEF m
<1>9. i <= m
  <2>1. CASE m < ScanLimit
    <3>1. m \in Markers
      BY <1>7, <1>8, <2>1 DEF Markers
    <3> QED
      BY <3>1 DEF IsFirst
  <2>2. CASE ~(m < ScanLimit)
    BY <1>2, <1>7, <2>2, FixupAssumption
  <2> QED
    BY <2>1, <2>2
<1>10. shot.from + (i - b) <= shot.to - 5
  <2> DEFINE f == shot.from
             to == shot.to
  <2>1. /\ f \in Nat /\ to \in Nat /\ x \in Nat /\ x <= to - 5
        /\ b \in Nat /\ i \in Nat /\ i <= b + (x - f)
    BY <1>1, <1>2, <1>7, <1>9 DEF m
  <2> HIDE DEF f, to
  <2>2. f + (i - b) <= to - 5
    BY <2>1
  <2> QED
    BY <2>2 DEF f, to
<1> QED
  BY <1>2, <1>3, <1>5, <1>10

(* SOI stands where the picture begins, and nowhere else.                  *)
LEMMA SoiIsFirst ==
    ASSUME Recognisable, IInv, ShotOK, NEW b \in 0 .. frame_pos, CapturedAt(b),
           NEW i \in 0 .. frame_pos - 2, frame_buf[i] = FF, frame_buf[i + 1] = SOI
    PROVE  i = b /\ shot.from = 1
<1> DEFINE x == shot.from + (i - b)
<1>1. MarkerAt(frame_buf, i)
  BY DEF MarkerAt, SOI
<1>2. /\ i >= b /\ x \in 1 .. Len(shot.pic) - 1 /\ MarkerAt(shot.pic, x)
      /\ shot.pic[x + 1] = SOI
  BY <1>1, FrameMarker
<1>3. PICK s \in Scans : shot.pic = Picture(header, s)
  BY DEF ShotOK
<1>4. /\ shot.from \in Nat /\ Len(shot.pic) \in Nat /\ shot.from >= 1 /\ b \in Nat
      /\ frame_pos \in Nat /\ shot.pic[Len(shot.pic)] = EOI
  BY ShotFacts
<1> HIDE DEF x
<1>5. x = 1
  <2>1. \/ x = 1 \/ x = Len(shot.pic) - 1 \/ shot.pic[x + 1] \notin {SOI, EOI}
    BY <1>2, <1>3, PictureMarkers DEF IInv, TypeOK
  <2>2. x # Len(shot.pic) - 1
    <3>1. x = Len(shot.pic) - 1 => x + 1 = Len(shot.pic)
      BY <1>4
    <3> QED
      BY <1>2, <1>4, <3>1 DEF SOI, EOI
  <2> QED
    BY <1>2, <2>1, <2>2
<1> QED
  BY <1>2, <1>4, <1>5 DEF x

(* The frame is rebuilt if what is captured from the picture's x on stands *)
(* behind the picture's first x - 1 bytes.                                 *)
LEMMA Rebuild ==
    ASSUME IInv, ShotOK, NEW b \in 0 .. frame_pos, CapturedAt(b), shot' = shot,
           NEW x \in Nat, shot.from <= x, x <= shot.to, x >= 1,
           NEW i \in Nat, i = b + (x - shot.from),
           jpeg_ptr' \in Nat, jpeg_len' = (x - 1) + (frame_pos - i),
           \A q \in 1 .. x - 1 : frame_buf'[jpeg_ptr' + q - 1] = shot.pic[q],
           \A q \in x .. jpeg_len' : frame_buf'[jpeg_ptr' + q - 1] = frame_buf[i + (q - x)]
    PROVE  Rebuilt'
<1> DEFINE f == shot.from
           to == shot.to
           n == Len(shot.pic)
<1>1. /\ f \in Nat /\ to \in Nat /\ n \in Nat /\ f >= 1 /\ f <= x /\ x <= to /\ to <= n
      /\ frame_pos \in Nat /\ b \in Nat /\ b + (to - f + 1) <= frame_pos
      /\ to < n => b + (to - f + 1) = frame_pos
      /\ i = b + (x - f)
  BY ShotFacts
<1>2. /\ \A q \in 0 .. (to - f + 1) - 1 : frame_buf[b + q] = shot.pic[f + q]
      /\ \A q \in b + (to - f + 1) .. frame_pos - 1 : frame_buf[q] # FF
  BY DEF CapturedAt, Taken
<1> HIDE DEF f, to, n
<1>3. to <= jpeg_len' /\ (to < n => jpeg_len' = to) /\ jpeg_len' \in Nat
  <2> DEFINE len == (x - 1) + (frame_pos - i)
  <2>1. len = f - 1 + (frame_pos - b) /\ len \in Nat
    BY <1>1
  <2>2. len = jpeg_len'
    OBVIOUS
  <2> HIDE DEF len
  <2>3. to <= len
    BY <1>1, <2>1
  <2>4. to < n => len = to
    BY <1>1, <2>1
  <2> QED
    BY <2>1, <2>2, <2>3, <2>4
<1>4. ASSUME NEW q \in 1 .. to PROVE frame_buf'[jpeg_ptr' + q - 1] = shot.pic[q]
  <2>1. CASE q < x
    <3>1. q \in 1 .. x - 1
      BY <2>1
    <3> QED
      BY <3>1
  <2>2. CASE ~(q < x)
    <3>1. /\ q \in x .. jpeg_len' /\ q - f \in 0 .. (to - f + 1) - 1
          /\ i + (q - x) = b + (q - f) /\ f + (q - f) = q
      BY <1>1, <1>3, <2>2
    <3>2. frame_buf[b + (q - f)] = shot.pic[f + (q - f)]
      BY <1>2, <3>1
    <3> QED
      BY <3>1, <3>2
  <2> QED
    BY <2>1, <2>2
<1>5. ASSUME NEW q \in to + 1 .. jpeg_len' PROVE frame_buf'[jpeg_ptr' + q - 1] # FF
  <2>1. q \in x .. jpeg_len' /\ i + (q - x) \in b + (to - f + 1) .. frame_pos - 1
    BY <1>1, <1>3
  <2> QED
    BY <1>2, <2>1
<1> QED
  BY <1>3, <1>4, <1>5 DEF Rebuilt, f, to, n

(* The saved header is the picture's beginning.                            *)
LEMMA SavedBytes ==
    ASSUME IInv, SavedIsHeader, clean, saved_header_len > 0, pc # "walk",
           NEW s \in Scans
    PROVE  /\ saved_header_len = Len(header) + 2
           /\ \A k \in 0 .. Len(header) + 1 : saved_jpeg_header[k] = Picture(header, s)[k + 1]
<1> DEFINE soi == <<FF, SOI>>
           t == soi \o header
<1>1. header \in Seq(Octet) /\ Len(header) \in Nat /\ saved_header_len \in Nat
  BY FixupAssumption, LenProperties DEF IInv, TypeOK, Octet
<1>2. soi \in Seq(Octet) /\ Len(soi) = 2 /\ soi[1] = FF /\ soi[2] = SOI
  BY DEF FF, SOI, Octet
<1>3. t = [n \in 1 .. saved_header_len |-> saved_jpeg_header[n - 1]]
  BY DEF SavedIsHeader
<1> HIDE DEF soi
<1>4. /\ t \in Seq(Octet) /\ Len(t) = Len(soi) + Len(header)
      /\ \A q \in 1 .. Len(soi) + Len(header) :
           t[q] = IF q <= Len(soi) THEN soi[q] ELSE header[q - Len(soi)]
  BY <1>1, <1>2, ConcatProperties
<1> HIDE DEF t
<1>5. Len(t) = saved_header_len
  <2>1. DOMAIN t = 1 .. Len(t) /\ DOMAIN t = 1 .. saved_header_len /\ Len(t) \in Nat
    BY <1>3, <1>4, LenProperties
  <2> DEFINE m == Len(t)
             k == saved_header_len
  <2>2. m \in Nat /\ k \in Nat /\ 1 .. m = 1 .. k
    BY <1>1, <2>1
  <2> HIDE DEF m, k
  <2>3. m = k
    <3>1. m > 0 => m \in 1 .. k
      BY <2>2
    <3>2. k > 0 => k \in 1 .. m
      BY <2>2
    <3> QED
      BY <2>2, <3>1, <3>2
  <2> QED
    BY <2>3 DEF m, k
<1>6. saved_header_len = Len(header) + 2
  BY <1>1, <1>2, <1>4, <1>5
<1>7. ASSUME NEW k \in 0 .. Len(header) + 1
      PROVE  saved_jpeg_header[k] = Picture(header, s)[k + 1]
  <2>1. k + 1 \in 1 .. saved_header_len /\ k + 1 - 1 = k /\ k + 1 \in 1 .. Len(soi) + Len(header)
    BY <1>1, <1>2, <1>6
  <2>2. saved_jpeg_header[k] = t[k + 1]
    BY <1>3, <2>1
  <2>3. CASE k = 0
    <3>1. t[k + 1] = FF
      BY <1>2, <1>4, <2>1, <2>3
    <3> QED
      BY <2>2, <2>3, <3>1, PictureParts DEF IInv, TypeOK
  <2>4. CASE k = 1
    <3>1. t[k + 1] = SOI
      BY <1>2, <1>4, <2>1, <2>4
    <3> QED
      BY <2>2, <2>4, <3>1, PictureParts DEF IInv, TypeOK
  <2>5. CASE k > 1
    <3>1. k - 1 \in 1 .. Len(header) /\ k - 1 + 2 = k + 1 /\ k + 1 - 2 = k - 1
          /\ ~(k + 1 <= 2)
      BY <1>1, <2>5
    <3>2. t[k + 1] = header[k - 1]
      BY <1>2, <1>4, <2>1, <3>1
    <3>3. Picture(header, s)[k - 1 + 2] = header[k - 1]
      BY <3>1, PictureParts DEF IInv, TypeOK
    <3> QED
      BY <2>2, <3>1, <3>2, <3>3
  <2> QED
    BY <1>1, <2>3, <2>4, <2>5
<1> QED
  BY <1>6, <1>7

(* What a capture has of the picture stands behind what came before it.    *)
LEMMA FrameCapture ==
    ASSUME Recognisable, IInv, CaptureFrame
    PROVE  ShotOK' /\ \E b \in 0 .. frame_pos' : CapturedAt(b)'
<1>1. PICK s \in Scans, before \in Junk, after \in Junk :
        LET p == Picture(header, s)
        IN \E i, j \in 1 .. Len(p) :
             LET d == before \o SubSeq(p, i, j) \o
                      (IF j = Len(p) THEN after ELSE <<>>)
             IN /\ i <= j /\ Len(d) <= BufSize
                /\ frame_buf' = Filled(d) /\ frame_pos' = Len(d)
                /\ shot' = [pic |-> p, from |-> i, to |-> j]
  BY Zenon DEF CaptureFrame
<1> DEFINE p == Picture(header, s)
<1>2. p \in Seq(Octet) /\ Len(p) \in Nat
  BY PictureType, LenProperties DEF IInv, TypeOK
<1>3. PICK i \in 1 .. Len(p), j \in 1 .. Len(p) :
        LET d == before \o SubSeq(p, i, j) \o (IF j = Len(p) THEN after ELSE <<>>)
        IN /\ i <= j /\ Len(d) <= BufSize
           /\ frame_buf' = Filled(d) /\ frame_pos' = Len(d)
           /\ shot' = [pic |-> p, from |-> i, to |-> j]
  BY <1>1
<1> DEFINE rest == IF j = Len(p) THEN after ELSE <<>>
           mid == SubSeq(p, i, j)
           c == before \o mid
           d == c \o rest
<1>4. /\ i <= j /\ Len(d) <= BufSize
      /\ frame_buf' = Filled(d) /\ frame_pos' = Len(d)
      /\ shot' = [pic |-> p, from |-> i, to |-> j]
  BY <1>3
<1>5. ShotOK'
  <2>1. header' = header
    BY DEF CaptureFrame
  <2> QED
    BY <1>2, <1>4, <2>1 DEF ShotOK
<1> HIDE DEF p
<1>6. /\ before \in Seq(Octet) /\ rest \in Seq(Octet)
      /\ \A q \in DOMAIN before : before[q] # FF
      /\ \A q \in DOMAIN rest : rest[q] # FF
      /\ j < Len(p) => rest = <<>>
  BY <1>2, FixupAssumption, EmptySeq DEF Octet, Recognisable
<1>7. mid \in Seq(Octet) /\ Len(mid) = j - i + 1
      /\ \A q \in 1 .. Len(mid) : mid[q] = p[i + q - 1]
  <2>1. \A n \in i .. j : p[n] \in Octet
    <3>1. ASSUME NEW n \in i .. j PROVE n \in 1 .. Len(p)
      BY <1>2
    <3> QED
      BY <1>2, <3>1, ElementOfSeq
  <2>2. /\ mid \in Seq(Octet) /\ Len(mid) = j - i + 1
        /\ \A q \in 1 .. j - i + 1 : mid[q] = p[i + q - 1]
    BY <1>2, <1>4, <2>1, SubSeqProperties
  <2> QED
    BY <2>2
<1> HIDE DEF rest, mid
<1>8. /\ c \in Seq(Octet) /\ Len(c) = Len(before) + Len(mid)
      /\ \A q \in 1 .. Len(before) + Len(mid) :
           c[q] = IF q <= Len(before) THEN before[q] ELSE mid[q - Len(before)]
  BY <1>6, <1>7, ConcatProperties
<1> HIDE DEF c
<1>9. /\ d \in Seq(Octet) /\ Len(d) = Len(c) + Len(rest)
      /\ \A q \in 1 .. Len(c) + Len(rest) :
           d[q] = IF q <= Len(c) THEN c[q] ELSE rest[q - Len(c)]
  <2>1. c \in Seq(Octet) /\ rest \in Seq(Octet)
    BY <1>6, <1>8
  <2> QED
    BY <2>1, ConcatProperties
<1> HIDE DEF d
<1> DEFINE b == Len(before)
           k == Len(mid)
           r == Len(rest)
<1>10. b \in Nat /\ k \in Nat /\ r \in Nat /\ Len(c) = b + k /\ Len(d) = b + k + r
       /\ k = j - i + 1
  <2>1. Len(before) \in Nat /\ Len(mid) \in Nat /\ Len(rest) \in Nat
    BY <1>6, <1>7, LenProperties
  <2> QED
    BY <1>7, <1>8, <1>9, <2>1
<1>11. /\ \A q \in 1 .. b : d[q] = before[q] /\ d[q] # FF
       /\ \A q \in 1 .. k : d[b + q] = p[i + q - 1]
       /\ \A q \in 1 .. r : d[b + k + q] # FF
  <2>1. ASSUME NEW q \in 1 .. b PROVE d[q] = before[q] /\ d[q] # FF
    <3>1. d[q] = c[q] /\ c[q] = before[q]
      <4>1. /\ q \in 1 .. Len(c) + Len(rest) /\ q <= Len(c)
            /\ q \in 1 .. Len(before) + Len(mid) /\ q <= Len(before)
        BY <1>10
      <4> QED
        BY <1>8, <1>9, <4>1
    <3>2. q \in DOMAIN before
      BY <1>6, LenProperties
    <3> QED
      BY <1>6, <3>1, <3>2
  <2>2. ASSUME NEW q \in 1 .. k PROVE d[b + q] = p[i + q - 1]
    <3>1. /\ b + q \in 1 .. Len(c) + Len(rest) /\ b + q <= Len(c)
          /\ b + q \in 1 .. Len(before) + Len(mid) /\ ~(b + q <= Len(before))
          /\ b + q - Len(before) = q
      BY <1>10
    <3>2. d[b + q] = c[b + q]
      BY <1>9, <3>1
    <3>3. c[b + q] = mid[q]
      BY <1>8, <3>1
    <3> QED
      BY <1>7, <3>2, <3>3
  <2>3. ASSUME NEW q \in 1 .. r PROVE d[b + k + q] # FF
    <3>1. /\ b + k + q \in 1 .. Len(c) + Len(rest) /\ ~(b + k + q <= Len(c))
          /\ b + k + q - Len(c) = q
      BY <1>10
    <3>2. d[b + k + q] = rest[b + k + q - Len(c)]
      BY <1>9, <3>1
    <3>3. q \in DOMAIN rest
      BY <1>6, LenProperties
    <3> QED
      BY <1>6, <3>1, <3>2, <3>3
  <2> QED
    BY <2>1, <2>2, <2>3
<1>12. j < Len(p) => r = 0
  BY <1>6, EmptySeq
<1> HIDE DEF b, k, r
<1>13. \A q \in 0 .. b + k + r - 1 : frame_buf'[q] = d[q + 1]
  <2>1. ASSUME NEW q \in 0 .. b + k + r - 1 PROVE q \in Cells /\ q < Len(d)
    BY <1>4, <1>10, FixupAssumption DEF Cells
  <2> QED
    BY <1>4, <2>1 DEF Filled
<1>14. frame_pos' = b + k + r /\ b \in 0 .. frame_pos'
  BY <1>4, <1>10
<1>15. shot'.from = i /\ shot'.to = j /\ shot'.pic = p /\ Taken' = k
  BY <1>4, <1>10 DEF Taken
<1>16. ASSUME NEW q \in 0 .. b - 1 PROVE frame_buf'[q] # FF
  <2>1. q \in 0 .. b + k + r - 1 /\ q + 1 \in 1 .. b
    BY <1>10
  <2> QED
    BY <1>11, <1>13, <2>1
<1>17. ASSUME NEW q \in 0 .. k - 1 PROVE frame_buf'[b + q] = p[i + q]
  <2>1. b + q \in 0 .. b + k + r - 1 /\ q + 1 \in 1 .. k /\ b + q + 1 = b + (q + 1)
        /\ i + (q + 1) - 1 = i + q
    BY <1>10
  <2>2. frame_buf'[b + q] = d[b + (q + 1)]
    BY <1>13, <2>1
  <2>3. d[b + (q + 1)] = p[i + (q + 1) - 1]
    BY <1>11, <2>1
  <2> QED
    BY <2>1, <2>2, <2>3
<1>18. ASSUME NEW q \in b + k .. b + k + r - 1 PROVE frame_buf'[q] # FF
  <2>1. q \in 0 .. b + k + r - 1 /\ q + 1 - b - k \in 1 .. r /\ b + k + (q + 1 - b - k) = q + 1
    BY <1>10
  <2>2. d[b + k + (q + 1 - b - k)] # FF
    BY <1>11, <2>1
  <2> QED
    BY <1>13, <2>1, <2>2
<1>19. CapturedAt(b)'
  <2>1. b + k <= frame_pos' /\ (j < Len(p) => b + k = frame_pos')
    BY <1>10, <1>12, <1>14
  <2>2. /\ b + Taken' <= frame_pos'
        /\ shot'.to < Len(shot'.pic) => b + Taken' = frame_pos'
    BY <1>15, <2>1
  <2>3. \A q \in 0 .. Taken' - 1 : frame_buf'[b + q] = (shot'.pic)[shot'.from + q]
    BY <1>15, <1>17
  <2>4. \A q \in b + Taken' .. frame_pos' - 1 : frame_buf'[q] # FF
    <3>1. ASSUME NEW q \in b + k .. frame_pos' - 1 PROVE q \in b + k .. b + k + r - 1
      BY <1>10, <1>14
    <3>2. \A q \in b + k .. frame_pos' - 1 : frame_buf'[q] # FF
      BY <1>18, <3>1
    <3> QED
      BY <1>15, <3>2
  <2> QED
    BY <1>16, <2>2, <2>3, <2>4 DEF CapturedAt, b
<1> QED
  BY <1>5, <1>14, <1>19

(* SOI is found, at the frame's start or behind it.                        *)
LEMMA FrameSoi ==
    ASSUME Recognisable, IInv, FrameInv, SoiAtStart \/ SoiLater
    PROVE  FrameInv'
<1>1. PICK i \in 0 .. frame_pos - 2 :
        /\ frame_buf[i] = FF /\ frame_buf[i + 1] = SOI
        /\ Found(i, frame_pos - i) /\ frame_buf' = frame_buf
  <2>1. CASE SoiAtStart
    <3>1. frame_pos \in Nat /\ frame_pos >= 2 /\ frame_buf[0] = FF /\ frame_buf[0 + 1] = SOI
          /\ Found(0, frame_pos) /\ frame_buf' = frame_buf
      BY <2>1 DEF SoiAtStart, HasSoi, IInv, TypeOK
    <3>2. frame_pos - 0 = frame_pos /\ 0 \in 0 .. frame_pos - 2
      BY <3>1
    <3> QED
      BY <3>1, <3>2
  <2>2. CASE SoiLater
    BY <2>2 DEF SoiLater, IsFirst, Markers
  <2> QED
    BY <2>1, <2>2
<1>2. pc = "fix"
  BY DEF SoiAtStart, SoiLater
<1>3. ShotOK /\ \E b \in 0 .. frame_pos : CapturedAt(b)
  BY <1>2 DEF FrameInv
<1>4. PICK b \in 0 .. frame_pos : CapturedAt(b)
  BY <1>3
<1>5. i = b /\ shot.from = 1
  BY <1>1, <1>3, <1>4, SoiIsFirst
<1>6. pc' = "eoi" /\ shot' = shot /\ header' = header /\ jpeg_ptr' = i
      /\ jpeg_len' = frame_pos - i
  BY <1>1 DEF Found
<1>7. i \in Nat /\ frame_pos \in Nat /\ shot.to \in Nat /\ shot.to >= 1 /\ 1 \in Nat
  BY <1>3, <1>4, <1>5, ShotFacts
<1>8. i = b + (1 - shot.from) /\ jpeg_len' = (1 - 1) + (frame_pos - i)
  BY <1>5, <1>6, <1>7
<1>9. \A q \in 1 .. 1 - 1 : frame_buf'[jpeg_ptr' + q - 1] = shot.pic[q]
  OBVIOUS
<1>10. \A q \in 1 .. jpeg_len' : frame_buf'[jpeg_ptr' + q - 1] = frame_buf[i + (q - 1)]
  <2>1. ASSUME NEW q \in 1 .. jpeg_len' PROVE jpeg_ptr' + q - 1 = i + (q - 1)
    BY <1>6, <1>7
  <2> QED
    BY <1>1, <2>1
<1>11. jpeg_ptr' \in Nat /\ shot.from <= 1 /\ 1 <= shot.to
  BY <1>5, <1>6, <1>7
<1>12. Rebuilt'
  BY <1>3, <1>4, <1>6, <1>7, <1>8, <1>9, <1>10, <1>11, Rebuild
<1> QED
  BY <1>3, <1>6, <1>12 DEF FrameInv, ShotOK, Restored

(* The first marker is a header segment's.                                 *)
LEMMA HeaderMarker ==
    ASSUME Recognisable, IInv, SavedIsHeader, ShotOK, NEW b \in 0 .. frame_pos, CapturedAt(b),
           Restorable, pc = "fix", NEW i, IsFirst(i, Markers), frame_buf[i + 1] # SOI,
           NEW x, x = shot.from + (i - b)
    PROVE  /\ x \in Nat /\ i \in Nat /\ i >= b /\ shot.from <= x /\ 3 <= x /\ x <= shot.to - 5
           /\ MatchLen(i) = 6
           /\ \A q \in 1 .. x - 1 : saved_jpeg_header[q - 1] = shot.pic[q]
           /\ x - 1 \in Matches(i) /\ \A k \in Matches(i) : x - 1 <= k
<1>1. /\ i \in Nat /\ i >= b /\ x <= shot.to - 5
      /\ frame_buf[i + 1] = shot.pic[x + 1] /\ MarkerAt(shot.pic, x)
  BY FirstMarker DEF Restorable
<1>2. PICK s \in Scans : shot.pic = Picture(header, s)
  BY DEF ShotOK
<1> DEFINE f == shot.from
           to == shot.to
           n == Len(shot.pic)
           L == Len(header)
<1>3. /\ f \in Nat /\ to \in Nat /\ n \in Nat /\ f >= 1 /\ f <= to /\ to <= n
      /\ frame_pos \in Nat /\ b \in Nat /\ b + (to - f + 1) <= frame_pos /\ L \in Nat
      /\ n >= L + 4
  <2>1. L \in Nat /\ n >= L + 4
    BY <1>2, PictureParts DEF IInv, TypeOK
  <2> QED
    BY <2>1, ShotFacts
<1>4. \A q \in 0 .. (to - f + 1) - 1 : frame_buf[b + q] = shot.pic[f + q]
  BY DEF CapturedAt, Taken
<1>5. x = f + (i - b) /\ x <= to - 5
  BY <1>1
<1>6. x \in 1 .. n - 1 /\ x # n - 1 /\ x \in Nat /\ f <= x
  <2> HIDE DEF f, to, n, L
  <2> QED
    BY <1>1, <1>3, <1>5
<1>7. x >= 3 /\ x + 3 <= L /\ MarkerAt(header, x - 2)
  <2>1. x # 1
    <3>1. shot.pic[2] = SOI
      BY <1>2, PictureParts DEF IInv, TypeOK
    <3> QED
      BY <1>1, <3>1
  <2> QED
    BY <1>1, <1>2, <1>6, <2>1, PictureMarkers DEF IInv, TypeOK
<1>8. /\ saved_header_len = L + 2
      /\ \A k \in 0 .. L + 1 : saved_jpeg_header[k] = shot.pic[k + 1]
  BY <1>2, SavedBytes DEF Restorable
<1> HIDE DEF f, to, n, L
<1>9. MatchLen(i) = 6
  <2>1. frame_pos - i >= 6 /\ frame_pos - i \in Int
    BY <1>1, <1>3, <1>5
  <2> QED
    BY <2>1 DEF MatchLen, MatchMost
<1>10. \A m \in 0 .. 5 : frame_buf[i + m] = shot.pic[x + m]
  <2>1. ASSUME NEW m \in 0 .. 5 PROVE frame_buf[i + m] = shot.pic[x + m]
    <3>1. x - f + m \in 0 .. (to - f + 1) - 1 /\ b + (x - f + m) = i + m /\ f + (x - f + m) = x + m
      BY <1>1, <1>3, <1>5, <1>6
    <3> QED
      BY <1>4, <3>1
  <2> QED
    BY <2>1
<1>11. ASSUME NEW q \in 1 .. x - 1 PROVE saved_jpeg_header[q - 1] = shot.pic[q]
  <2>1. q - 1 \in 0 .. L + 1 /\ q - 1 + 1 = q
    BY <1>3, <1>6, <1>7
  <2> QED
    BY <1>8, <2>1
<1>12. x - 1 \in Matches(i)
  <2>1. x - 1 \in 2 .. saved_header_len - 6
    BY <1>3, <1>6, <1>7, <1>8
  <2>2. ASSUME NEW m \in 0 .. 5 PROVE saved_jpeg_header[x - 1 + m] = frame_buf[i + m]
    <3>1. x - 1 + m \in 0 .. L + 1 /\ x - 1 + m + 1 = x + m
      BY <1>3, <1>6, <1>7
    <3> QED
      BY <1>8, <1>10, <3>1
  <2>3. 6 - 1 = 5
    OBVIOUS
  <2> QED
    BY <1>9, <2>1, <2>2, <2>3 DEF Matches
<1>13. ASSUME NEW k \in Matches(i) PROVE x - 1 <= k
  <2>1. /\ k \in 2 .. saved_header_len - 6
        /\ \A m \in 0 .. 5 : saved_jpeg_header[k + m] = frame_buf[i + m]
    BY <1>9 DEF Matches
  <2>2. SUFFICES ASSUME k < x - 1 PROVE FALSE
    BY <1>6, <2>1
  <2>3. k \in 2 .. x - 2 /\ k \in Nat
    BY <1>6, <2>1, <2>2
  <2>4. PICK m \in 0 .. 5 : shot.pic[k + 1 + m] # shot.pic[x + m]
    <3>1. header \in Headers /\ x + 3 <= Len(header)
      BY <1>7 DEF IInv, TypeOK, L
    <3>2. \E m \in 0 .. 5 : Picture(header, s)[k + 1 + m] # Picture(header, s)[x + m]
      BY <1>6, <1>7, <2>3, <3>1, PictureUnique
    <3> QED
      BY <1>2, <3>2
  <2>5. k + m \in 0 .. L + 1 /\ k + m + 1 = k + 1 + m
    BY <1>3, <1>7, <2>3
  <2>6. saved_jpeg_header[k + m] = shot.pic[k + 1 + m]
    BY <1>8, <2>5
  <2> QED
    BY <1>10, <2>1, <2>4, <2>6
<1> QED
  BY <1>1, <1>5, <1>6, <1>7, <1>9, <1>11, <1>12, <1>13 DEF f, to

(* What the picture has before that marker is put before it.               *)
LEMMA FrameInject ==
    ASSUME Recognisable, IInv, SavedIsHeader, FrameInv, Inject
    PROVE  FrameInv'
<1>1. PICK i \in Markers :
        /\ IsFirst(i, Markers) /\ frame_buf[i + 1] # SOI
        /\ \E k \in IF Matches(i) = {} THEN {InjectAll} ELSE Matches(i) :
             /\ Matches(i) # {} => IsFirst(k, Matches(i))
             /\ PutBefore(saved_jpeg_header, k, i)
  BY DEF Inject
<1>2. PICK k \in IF Matches(i) = {} THEN {InjectAll} ELSE Matches(i) :
        /\ Matches(i) # {} => IsFirst(k, Matches(i))
        /\ PutBefore(saved_jpeg_header, k, i)
  BY <1>1
<1>3. pc = "fix" /\ ShotOK
  BY DEF Inject, FrameInv
<1>4. PICK b \in 0 .. frame_pos : CapturedAt(b)
  BY <1>3 DEF FrameInv
<1>5. /\ header' = header /\ shot' = shot /\ frame_pos' = frame_pos
      /\ saved_header_len' = saved_header_len /\ clean' = clean
      /\ pc' \in {"eoi", "overrun"}
  BY <1>2 DEF PutBefore, Found, savedVars
<1>6. ASSUME Restorable, pc' = "eoi" PROVE Rebuilt'
  <2> DEFINE x == shot.from + (i - b)
  <2>1. /\ x \in Nat /\ i \in Nat /\ i >= b /\ shot.from <= x /\ 3 <= x /\ x <= shot.to - 5
        /\ \A q \in 1 .. x - 1 : saved_jpeg_header[q - 1] = shot.pic[q]
        /\ x - 1 \in Matches(i) /\ \A m \in Matches(i) : x - 1 <= m
    BY <1>1, <1>3, <1>4, <1>6, HeaderMarker
  <2>2. /\ shot.from \in Nat /\ shot.to \in Nat /\ frame_pos \in Nat /\ b \in Nat
        /\ frame_pos <= BufSize /\ BufSize \in Nat
    BY <1>3, <1>4, ShotFacts
  <2>3. x = shot.from + (i - b) /\ i = b + (x - shot.from)
    <3> DEFINE f == shot.from
    <3>1. f \in Nat /\ b \in Nat /\ i \in Nat
      BY <2>1, <2>2
    <3> HIDE DEF f
    <3>2. i = b + ((f + (i - b)) - f)
      BY <3>1
    <3> QED
      BY <3>2 DEF f
  <2> HIDE DEF x
  <2>4. k = x - 1
    <3>1. k \in Matches(i) /\ k <= x - 1
      BY <1>2, <2>1 DEF IsFirst
    <3>2. x - 1 <= k /\ k \in Int
      BY <2>1, <3>1 DEF Matches
    <3> QED
      BY <2>1, <3>1, <3>2
  <2>5. x \in Nat /\ shot.from <= x /\ x <= shot.to /\ x >= 1 /\ k \in Nat
    BY <2>1, <2>2, <2>4
  <2>6. i < frame_pos
    BY <1>1, <2>2 DEF Markers
  <2>7. CASE i >= k
    <3>1. /\ frame_buf' = [p \in Cells |->
                IF p \in i - k .. i - 1 THEN saved_jpeg_header[p - (i - k)] ELSE frame_buf[p]]
          /\ jpeg_ptr' = i - k /\ jpeg_len' = k + (frame_pos - i)
      BY <1>2, <2>7 DEF PutBefore, Found
    <3>2. jpeg_ptr' \in Nat /\ jpeg_len' = (x - 1) + (frame_pos - i)
      BY <2>1, <2>4, <2>5, <2>7, <3>1
    <3>3. ASSUME NEW q \in 1 .. x - 1 PROVE frame_buf'[jpeg_ptr' + q - 1] = shot.pic[q]
      <4>1. /\ jpeg_ptr' + q - 1 \in i - k .. i - 1 /\ jpeg_ptr' + q - 1 \in Cells
            /\ (jpeg_ptr' + q - 1) - (i - k) = q - 1
        BY <2>1, <2>2, <2>4, <2>5, <2>6, <2>7, <3>1 DEF Cells
      <4>2. frame_buf'[jpeg_ptr' + q - 1] = saved_jpeg_header[q - 1]
        BY <3>1, <4>1
      <4> QED
        BY <2>1, <4>2
    <3>4. ASSUME NEW q \in x .. jpeg_len'
          PROVE  frame_buf'[jpeg_ptr' + q - 1] = frame_buf[i + (q - x)]
      <4>1. /\ jpeg_ptr' + q - 1 = i + (q - x) /\ i + (q - x) \in Cells
            /\ i + (q - x) \notin i - k .. i - 1
        <5>1. /\ jpeg_ptr' = i - (x - 1) /\ k = x - 1 /\ i \in Nat /\ frame_pos \in Nat
              /\ BufSize \in Nat /\ frame_pos <= BufSize /\ x \in Nat
              /\ q \in x .. (x - 1) + (frame_pos - i)
          BY <2>1, <2>2, <2>4, <3>1, <3>2
        <5> QED
          BY <5>1 DEF Cells
      <4> QED
        BY <3>1, <4>1
    <3> QED
      BY <1>3, <1>4, <1>5, <2>1, <2>3, <2>5, <3>2, <3>3, <3>4, Rebuild
  <2>8. CASE ~(i >= k)
    <3>1. ~(k + (frame_pos - i) > BufSize)
      BY <1>2, <1>6, <2>8 DEF PutBefore
    <3>2. /\ frame_buf' = [p \in Cells |->
                IF p < k THEN saved_jpeg_header[p]
                ELSE IF p < k + (frame_pos - i) THEN frame_buf[i + p - k]
                ELSE frame_buf[p]]
          /\ jpeg_ptr' = 0 /\ jpeg_len' = k + (frame_pos - i)
      BY <1>2, <2>8, <3>1 DEF PutBefore, Found
    <3>3. jpeg_ptr' \in Nat /\ jpeg_len' = (x - 1) + (frame_pos - i)
      BY <2>4, <3>2
    <3>4. ASSUME NEW q \in 1 .. x - 1 PROVE frame_buf'[jpeg_ptr' + q - 1] = shot.pic[q]
      <4>0. /\ jpeg_ptr' = 0 /\ k = x - 1 /\ i \in Nat /\ frame_pos \in Nat /\ i < frame_pos
            /\ BufSize \in Nat /\ ~(k + (frame_pos - i) > BufSize) /\ x \in Nat
        BY <2>1, <2>2, <2>4, <2>6, <3>1, <3>2
      <4>1. q - 1 \in Cells /\ q - 1 < k /\ jpeg_ptr' + q - 1 = q - 1
        BY <4>0 DEF Cells
      <4>2. frame_buf'[q - 1] = saved_jpeg_header[q - 1]
        BY <3>2, <4>1
      <4> QED
        BY <2>1, <4>1, <4>2
    <3>5. ASSUME NEW q \in x .. jpeg_len'
          PROVE  frame_buf'[jpeg_ptr' + q - 1] = frame_buf[i + (q - x)]
      <4>1. /\ q - 1 \in Cells /\ ~(q - 1 < k) /\ q - 1 < k + (frame_pos - i)
            /\ jpeg_ptr' + q - 1 = q - 1 /\ i + (q - 1) - k = i + (q - x)
        BY <2>1, <2>2, <2>4, <2>5, <2>6, <3>1, <3>2 DEF Cells
      <4>2. frame_buf'[q - 1] = frame_buf[i + (q - 1) - k]
        BY <3>2, <4>1
      <4> QED
        BY <4>1, <4>2
    <3> QED
      BY <1>3, <1>4, <1>5, <2>1, <2>3, <2>5, <3>3, <3>4, <3>5, Rebuild
  <2> QED
    BY <2>1, <2>5, <2>7, <2>8
<1>7. Restorable' => Restorable
  BY <1>5 DEF Restorable, HeaderResumes
<1> QED
  BY <1>3, <1>5, <1>6, <1>7 DEF FrameInv, ShotOK, Restored

(* Its end.  The picture's EOI is the only one, so the frame ends where it *)
(* does, or has none and gets one.                                         *)
LEMMA FrameEnd ==
    ASSUME Recognisable, IInv, FrameInv, TrimToEoi \/ AppendEoi \/ NoRoomForEoi
    PROVE  FrameInv'
<1>1. /\ pc = "eoi" /\ pc' = "done" /\ shot' = shot /\ jpeg_ptr' = jpeg_ptr /\ ret' = "ok"
      /\ saved_header_len' = saved_header_len /\ clean' = clean
  BY DEF TrimToEoi, AppendEoi, NoRoomForEoi, Return, savedVars
<1>2. SUFFICES ASSUME Restorable PROVE Restored'
  BY <1>1 DEF FrameInv, Restored, Restorable, HeaderResumes
<1>3. ShotOK /\ Rebuilt
  BY <1>1, <1>2 DEF FrameInv
<1>4. PICK s \in Scans : shot.pic = Picture(header, s)
  BY <1>3 DEF ShotOK
<1> DEFINE to == shot.to
           n == Len(shot.pic)
           kept == SubSeq(shot.pic, 1, to)
<1>5. /\ n \in Nat /\ n >= 4 /\ shot.pic[n] = EOI /\ shot.pic[n - 1] = FF
      /\ shot.pic[2] = SOI /\ shot.pic \in Seq(Octet)
  <2>1. header \in Headers
    BY DEF IInv, TypeOK
  <2>2. /\ Len(header) \in Nat /\ Len(s) \in Nat /\ n = Len(header) + Len(s) + 4
        /\ shot.pic[2] = SOI
        /\ shot.pic[Len(header) + Len(s) + 3] = FF
        /\ shot.pic[Len(header) + Len(s) + 4] = EOI
    BY <1>4, <2>1, PictureParts
  <2>3. n - 1 = Len(header) + Len(s) + 3
    BY <2>2
  <2> QED
    BY <1>4, <2>1, <2>2, <2>3, PictureType
<1>6. to \in Nat /\ 1 <= to /\ to <= n
  BY <1>3, <1>5 DEF ShotOK
<1>7. /\ jpeg_ptr \in Nat /\ jpeg_len \in Nat /\ jpeg_ptr + jpeg_len <= BufSize /\ BufSize \in Nat
      /\ jpeg_ptr \in Cells
  BY CellsFacts, FixupAssumption DEF IInv, TypeOK
<1>8. /\ to <= jpeg_len /\ (to < n => jpeg_len = to)
      /\ \A q \in 1 .. to : frame_buf[jpeg_ptr + q - 1] = shot.pic[q]
      /\ \A q \in to + 1 .. jpeg_len : frame_buf[jpeg_ptr + q - 1] # FF
  BY <1>3 DEF Rebuilt
<1>9. /\ kept \in Seq(Octet) /\ Len(kept) = to
      /\ \A q \in 1 .. to : kept[q] = shot.pic[q]
  <2>1. \A q \in 1 .. to : shot.pic[q] \in Octet
    <3>1. ASSUME NEW q \in 1 .. to PROVE q \in 1 .. Len(shot.pic)
      BY <1>5, <1>6
    <3> QED
      BY <1>5, <3>1, ElementOfSeq
  <2>2. /\ kept \in Seq(Octet) /\ Len(kept) = to - 1 + 1
        /\ \A q \in 1 .. to - 1 + 1 : kept[q] = shot.pic[1 + q - 1]
    BY <1>5, <1>6, <2>1, SubSeqProperties
  <2>3. to - 1 + 1 = to /\ \A q \in 1 .. to : 1 + q - 1 = q
    BY <1>6
  <2> QED
    BY <2>2, <2>3
<1> HIDE DEF kept, n, to
<1>10. ASSUME NEW m \in EoiEnds PROVE m = to /\ to = n
  <2>1. /\ m \in 2 .. jpeg_len /\ frame_buf[jpeg_ptr + m - 2] = FF
        /\ frame_buf[jpeg_ptr + m - 1] = EOI
    BY DEF EoiEnds
  <2>2. jpeg_ptr + (m - 1) - 1 = jpeg_ptr + m - 2 /\ m \in Nat
    BY <1>7, <2>1
  <2>3. m - 1 <= to
    <3>1. m - 1 > to => m - 1 \in to + 1 .. jpeg_len
      BY <1>6, <1>7, <2>1
    <3> QED
      BY <1>6, <1>8, <2>1, <2>2, <3>1
  <2>4. shot.pic[m - 1] = FF
    <3>1. m - 1 \in 1 .. to
      BY <1>6, <2>1, <2>3
    <3> QED
      BY <1>8, <2>1, <2>2, <3>1
  <2>5. m <= to
    <3>1. m > to => m - 1 = to /\ to = n
      BY <1>5, <1>6, <1>7, <1>8, <2>1, <2>3
    <3> QED
      BY <1>5, <1>6, <2>2, <2>4, <3>1 DEF FF, EOI
  <2>6. shot.pic[m] = EOI
    <3>1. m \in 1 .. to
      BY <1>6, <2>1, <2>5
    <3> QED
      BY <1>8, <2>1, <3>1
  <2>7. m - 1 \in 1 .. Len(shot.pic) - 1 /\ m - 1 + 1 = m
    BY <1>5, <1>6, <2>1, <2>5 DEF n
  <2>8. MarkerAt(shot.pic, m - 1)
    BY <2>4, <2>6, <2>7 DEF MarkerAt, EOI
  <2>9. \/ m - 1 = 1 \/ m - 1 = Len(shot.pic) - 1 \/ shot.pic[m - 1 + 1] \notin {SOI, EOI}
    BY <1>4, <2>7, <2>8, PictureMarkers DEF IInv, TypeOK
  <2>10. m # 2
    BY <1>5, <2>6 DEF SOI, EOI
  <2>11. m = n
    BY <1>5, <2>1, <2>6, <2>7, <2>9, <2>10 DEF n
  <2> QED
    BY <1>5, <1>6, <2>1, <2>5, <2>11
<1>11. to = n => to \in EoiEnds
  <2>1. SUFFICES ASSUME to = n PROVE to \in EoiEnds
    OBVIOUS
  <2>2. /\ to \in 2 .. jpeg_len /\ to - 1 \in 1 .. to /\ to \in 1 .. to
        /\ jpeg_ptr + to - 2 = jpeg_ptr + (to - 1) - 1
    BY <1>5, <1>6, <1>7, <1>8, <2>1
  <2>3. /\ frame_buf[jpeg_ptr + (to - 1) - 1] = shot.pic[to - 1]
        /\ frame_buf[jpeg_ptr + to - 1] = shot.pic[to]
    BY <1>8, <2>2
  <2> QED
    BY <1>5, <2>1, <2>2, <2>3 DEF EoiEnds
<1>12. kept = [q \in 1 .. to |-> frame_buf[jpeg_ptr + q - 1]]
  <2>1. kept = [q \in 1 .. to |-> kept[q]]
    BY <1>9, LenProperties
  <2>2. [q \in 1 .. to |-> kept[q]] = [q \in 1 .. to |-> frame_buf[jpeg_ptr + q - 1]]
    BY <1>8, <1>9
  <2> QED
    BY <2>1, <2>2
<1>13. CASE TrimToEoi
  <2>1. to = n /\ jpeg_len' = to /\ frame_buf' = frame_buf
    BY <1>10, <1>13 DEF TrimToEoi, Return
  <2>2. Out' = kept
    BY <1>1, <1>12, <2>1 DEF Out
  <2>3. EndsWithEoi(kept)
    <3>1. to - 1 \in 1 .. to /\ to \in 1 .. to /\ to >= 2
      BY <1>5, <2>1
    <3> QED
      BY <1>5, <1>9, <2>1, <3>1 DEF EndsWithEoi
  <2>4. kept = SubSeq(shot'.pic, 1, shot'.to)
    BY <1>1 DEF kept, to
  <2> QED
    BY <2>2, <2>3, <2>4 DEF Restored
<1>14. CASE NoRoomForEoi
  <2>1. to # n /\ jpeg_len' = jpeg_len /\ frame_buf' = frame_buf /\ ~EoiFits
    BY <1>11, <1>14 DEF NoRoomForEoi, Return
  <2>2. jpeg_len' = to
    BY <1>5, <1>6, <1>8, <2>1
  <2>3. Out' = kept
    BY <1>1, <1>12, <2>1, <2>2 DEF Out
  <2>4. ~EoiFits'
    BY <1>1, <2>1 DEF EoiFits, EndCell
  <2>5. kept = SubSeq(shot'.pic, 1, shot'.to)
    BY <1>1 DEF kept, to
  <2> QED
    BY <2>3, <2>4, <2>5 DEF Restored
<1>15. CASE AppendEoi
  <2>1. /\ to # n /\ jpeg_len' = jpeg_len + 2 /\ EndCell + 2 <= BufSize
        /\ frame_buf' = [p \in Cells |-> IF p = EndCell THEN FF
                                         ELSE IF p = EndCell + 1 THEN EOI
                                         ELSE frame_buf[p]]
    BY <1>11, <1>15 DEF AppendEoi, Return, EoiFits
  <2>2. jpeg_len = to /\ EndCell = jpeg_ptr + to
    BY <1>5, <1>6, <1>8, <2>1 DEF EndCell
  <2> DEFINE eoi == <<FF, EOI>>
             all == kept \o eoi
  <2>3. eoi \in Seq(Octet) /\ Len(eoi) = 2 /\ eoi[1] = FF /\ eoi[2] = EOI
    BY DEF FF, EOI, Octet
  <2> HIDE DEF eoi
  <2>4. /\ all \in Seq(Octet) /\ Len(all) = Len(kept) + Len(eoi)
        /\ \A q \in 1 .. Len(kept) + Len(eoi) :
             all[q] = IF q <= Len(kept) THEN kept[q] ELSE eoi[q - Len(kept)]
    <3>1. kept \in Seq(Octet) /\ eoi \in Seq(Octet)
      BY <1>9, <2>3
    <3> QED
      BY <3>1, ConcatProperties
  <2> HIDE DEF all
  <2>5. Len(all) = to + 2
    BY <1>9, <2>3, <2>4
  <2>6. ASSUME NEW q \in 1 .. to + 2 PROVE frame_buf'[jpeg_ptr + q - 1] = all[q]
    <3>1. q \in 1 .. Len(kept) + Len(eoi)
      BY <1>9, <2>3
    <3>2. CASE q <= to
      <4>1. /\ q \in 1 .. to /\ jpeg_ptr + q - 1 \in Cells /\ jpeg_ptr + q - 1 # EndCell
            /\ jpeg_ptr + q - 1 # EndCell + 1
        BY <1>6, <1>7, <2>2, <3>2 DEF Cells
      <4>2. frame_buf'[jpeg_ptr + q - 1] = frame_buf[jpeg_ptr + q - 1]
        BY <2>1, <4>1
      <4>3. all[q] = kept[q]
        BY <1>9, <2>4, <3>1, <3>2
      <4> QED
        BY <1>8, <1>9, <4>1, <4>2, <4>3
    <3>3. CASE q = to + 1
      <4>1. jpeg_ptr + q - 1 = EndCell /\ EndCell \in Cells /\ ~(q <= to) /\ q - to = 1
        BY <1>6, <1>7, <2>1, <2>2, <3>3 DEF Cells
      <4>2. frame_buf'[jpeg_ptr + q - 1] = FF
        BY <2>1, <4>1
      <4>3. all[q] = eoi[1]
        BY <1>9, <2>4, <3>1, <4>1
      <4> QED
        BY <2>3, <4>2, <4>3
    <3>4. CASE q = to + 2
      <4>1. /\ jpeg_ptr + q - 1 = EndCell + 1 /\ EndCell + 1 \in Cells /\ EndCell + 1 # EndCell
            /\ ~(q <= to) /\ q - to = 2
        BY <1>6, <1>7, <2>1, <2>2, <3>4 DEF Cells
      <4>2. frame_buf'[jpeg_ptr + q - 1] = EOI
        BY <2>1, <4>1
      <4>3. all[q] = eoi[2]
        BY <1>9, <2>4, <3>1, <4>1
      <4> QED
        BY <2>3, <4>2, <4>3
    <3> QED
      BY <1>6, <3>2, <3>3, <3>4
  <2>7. Out' = [q \in 1 .. to + 2 |-> frame_buf'[jpeg_ptr + q - 1]]
    BY <1>1, <2>1, <2>2 DEF Out
  <2>8. all = [q \in 1 .. to + 2 |-> all[q]]
    BY <2>4, <2>5, LenProperties
  <2>9. Out' = kept \o <<FF, EOI>>
    BY <2>6, <2>7, <2>8 DEF all, eoi
  <2>10. kept = SubSeq(shot'.pic, 1, shot'.to)
    BY <1>1 DEF kept, to
  <2> QED
    BY <2>9, <2>10 DEF Restored
<1> QED
  BY <1>13, <1>14, <1>15

LEMMA FrameNext == Recognisable /\ IInv /\ SavedIsHeader /\ FrameInv /\ [Next]_vars => FrameInv'
<1> SUFFICES ASSUME Recognisable, IInv, SavedIsHeader, FrameInv, [Next]_vars PROVE FrameInv'
  OBVIOUS
<1>0. ASSUME pc' \notin {"fix", "eoi", "done"} PROVE FrameInv'
  BY <1>0 DEF FrameInv, Restored
<1>1. CASE CaptureHeader \/ FindDqt \/ NoDqt \/ WalkSegment \/ SaveHeader \/ SosNotFound
  BY <1>0, <1>1 DEF CaptureHeader, FindDqt, NoDqt, WalkSegment, SaveHeader, SosNotFound, Extracted
<1>2. CASE NoFrame \/ FrameUsed \/ ChangeResolution
  BY <1>0, <1>2 DEF NoFrame, FrameUsed, ChangeResolution
<1>3. CASE CaptureFrame
  <2>1. pc' = "fix"
    BY <1>3 DEF CaptureFrame
  <2> QED
    BY <1>3, <2>1, FrameCapture DEF FrameInv, Restored
<1>4. CASE NoMarker
  BY <1>4 DEF NoMarker, FrameInv, Restored
<1>5. CASE Prepend
  <2>1. /\ pc = "fix" /\ saved_header_len = 0 /\ saved_header_len' = 0 /\ header' = header
        /\ shot' = shot /\ pc' \in {"eoi", "overrun"}
    BY <1>5 DEF Prepend, PutBefore, Found, savedVars
  <2>2. ~(saved_header_len' > 0)
    BY <2>1
  <2> QED
    BY <2>1, <2>2 DEF FrameInv, ShotOK, Restorable, Restored
<1>6. CASE Overrun \/ UNCHANGED vars
  <2>1. /\ pc' = pc /\ ret' = ret /\ clean' = clean /\ header' = header /\ shot' = shot
        /\ frame_buf' = frame_buf /\ frame_pos' = frame_pos
        /\ jpeg_ptr' = jpeg_ptr /\ jpeg_len' = jpeg_len
        /\ saved_header_len' = saved_header_len
    BY <1>6 DEF Overrun, vars, savedVars, outVars
  <2>2. ShotOK' = ShotOK /\ HeaderResumes' = HeaderResumes /\ Taken' = Taken
    BY <2>1 DEF ShotOK, HeaderResumes, Taken
  <2>3. \A b : CapturedAt(b)' = CapturedAt(b)
    BY <2>1, <2>2 DEF CapturedAt
  <2>4. (pc' = "fix" => \E b \in 0 .. frame_pos' : CapturedAt(b)')
    BY <2>1, <2>3 DEF FrameInv
  <2>5. Restorable' = Restorable /\ Rebuilt' = Rebuilt
    BY <2>1, <2>2 DEF Restorable, Rebuilt
  <2>6. Out' = Out /\ EoiFits' = EoiFits
    BY <2>1 DEF Out, EoiFits, EndCell
  <2>7. Restored'
    BY <2>1, <2>2, <2>6 DEF FrameInv, Restored
  <2> QED
    BY <2>1, <2>2, <2>4, <2>5, <2>7 DEF FrameInv
<1> QED
  BY <1>1, <1>2, <1>3, <1>4, <1>5, <1>6, FrameSoi, FrameInject, FrameEnd
  DEF Next, jpeg_fixup_frame

THEOREM FrameInvariant ==
    Segmented /\ Recognisable => (Spec => [](IInv /\ SaveInv /\ FrameInv))
<1> SUFFICES ASSUME Segmented, Recognisable
             PROVE  Spec => [](IInv /\ SaveInv /\ FrameInv)
  OBVIOUS
<1>1. Init => FrameInv
  BY DEF Init, FrameInv, Restored
<1>2. SaveInv => SavedIsHeader
  BY DEF SaveInv
<1>3. IInv /\ SaveInv /\ FrameInv /\ [Next]_vars => FrameInv'
  BY <1>2, FrameNext
<1> QED
  BY <1>1, <1>3, SavedInvariant, PTL DEF Spec

(* A capture that has a header segment's marker becomes the camera's       *)
(* picture again, up to where the capture ended (jpeg_fixup_frame).        *)
THEOREM FramesRestored == Segmented /\ Recognisable => (Spec => []Restored)
<1> SUFFICES ASSUME Segmented, Recognisable PROVE Spec => []Restored
  OBVIOUS
<1>1. FrameInv => Restored
  BY DEF FrameInv
<1> QED
  BY FrameInvariant, <1>1, PTL
=============================================================================
