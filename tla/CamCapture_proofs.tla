------------------------- MODULE CamCapture_proofs -------------------------
(***************************************************************************)
(* Proofs about CamCapture, for frames, rings, buffers and warmups of any  *)
(* size.  OneFrame needs MaxMissed < Bufs: the interrupt handler never     *)
(* falls behind by more than the ring.                                     *)
(***************************************************************************)
EXTENDS CamCapture, SequenceTheorems, TLAPS

(* Buffers filled since the DMA was started and not read yet, and the      *)
(* place of the k-th of them in the ring.                                  *)
Lag == missed + (IF pend THEN 1 ELSE 0)
Place(i, k) == IF i + k < Bufs THEN i + k ELSE i + k - Bufs
At(k) == Place(isr_next_desc, k)

FirstOf(f, i) == [f |-> f, c |-> i, whole |-> TRUE]

(* n chunks of frame f were put into the ring since the restart, the last  *)
(* Lag of them are still there.                                            *)
Ring(f, n) ==
    /\ Lag <= n
    /\ widx = At(Lag)
    /\ \A k \in 0 .. Lag - 1 :
          desc[At(k)] = [full |-> TRUE, buf |-> FirstOf(f, n - Lag + k + 1)]

Prefix(f) == \A i \in 1 .. Len(frame) : frame[i] = FirstOf(f, i)

(* The others are in frame_buf, as far as it has room.                     *)
Copied(f, n) == Prefix(f) /\ (Len(frame) = n - Lag \/ Len(frame) = Cap)

(* The camera and the VSYNC interrupt.                                     *)
SyncInv == /\ vpend => ~lines
           /\ ~lines => pos = 0

(* The flags at the thread's steps.                                        *)
FlagInv ==
    /\ ret = "ok" => pc = "idle"
    /\ pc \in {"idle", "prepare", "blanking", "restart", "extract", "get"} =>
          ~extract_active
    /\ pc \in {"blanking", "restart", "extract"} => frame = <<>>
    /\ pc = "blanking" => capturing /\ (vsync_blanking \/ ~frame_done)
    /\ stale => ~warmed_up /\ ~header /\ pc \in {"idle", "dqt"}

(* From the VSYNC edge to the restart of the DMA, if that is in time.      *)
EdgeInv ==
    ~late /\ ThreadBehind =>
        /\ ~lines /\ ~vpend
        /\ vsync_blanking /\ ~frame_done
        /\ capturing /\ vsync_skip_remaining = 0
        /\ pc = "extract" => /\ running /\ aligned /\ ~pend /\ missed = 0
                             /\ isr_next_desc = 0 /\ widx = 0

(* While the frame is captured: until the second edge is handled the ring  *)
(* has its next chunks, after that nothing is copied.                      *)
FrameInv ==
    ~late /\ pc \in {"frame", "drain", "stop"} =>
        /\ vsync_blanking /\ capturing /\ vsync_skip_remaining = 0
        /\ extract_active
        /\ frame_done => \E f \in 0 .. 1 : Prefix(f)
        /\ ~frame_done /\ vpend =>
              \E n \in Nat : Ring(1 - fno, n) /\ Copied(1 - fno, n)
        /\ ~frame_done /\ ~vpend =>
              running /\ aligned /\ Ring(fno, pos) /\ Copied(fno, pos)

GetInv == ~late /\ pc = "get" => \E f \in 0 .. 1 : Prefix(f)

IInv == SyncInv /\ FlagInv /\ EdgeInv /\ FrameInv /\ GetInv
-----------------------------------------------------------------------------
(* Type correctness.                                                       *)
LEMMA NextIdx ==
    ASSUME NEW x \in Descs
    PROVE  /\ (x + 1) % Bufs = IF x + 1 < Bufs THEN x + 1 ELSE 0
           /\ (x + 1) % Bufs \in Descs
<1>1. x \in Nat /\ x < Bufs /\ Bufs \in Nat \ {0}
  BY ConstAssumption DEF Descs
<1>2. CASE x + 1 < Bufs
  BY <1>1, <1>2 DEF Descs
<1>3. CASE ~(x + 1 < Bufs)
  <2>1. x + 1 = Bufs /\ Bufs % Bufs = 0
    BY <1>1, <1>3
  <2> QED
    BY <1>1, <2>1 DEF Descs
<1> QED
  BY <1>2, <1>3

LEMMA EmptyType == EmptyDesc \in [full : BOOLEAN, buf : Chunk]
BY ConstAssumption DEF EmptyDesc, Chunk

RingOK == desc \in [Descs -> [full : BOOLEAN, buf : Chunk]]
FrameOK == frame \in Seq(Chunk) /\ Len(frame) <= Cap

LEMMA StartType ==
    ASSUME TypeOK, hw_dma_start
    PROVE  /\ RingOK' /\ isr_next_desc' \in Descs /\ widx' \in Descs
           /\ pend' \in BOOLEAN /\ running' \in BOOLEAN
           /\ missed' \in 0 .. MaxMissed /\ aligned' \in BOOLEAN
<1>1. 0 \in Descs /\ 0 \in 0 .. MaxMissed
  BY ConstAssumption DEF Descs
<1> QED
  BY <1>1, EmptyType DEF hw_dma_start, RingOK

LEMMA StopType ==
    ASSUME TypeOK, hw_stop
    PROVE  /\ running' \in BOOLEAN /\ aligned' \in BOOLEAN /\ widx' \in Descs
           /\ missed' \in 0 .. MaxMissed /\ extract_active' \in BOOLEAN
           /\ capturing' \in BOOLEAN
<1>1. 0 \in Descs /\ 0 \in 0 .. MaxMissed
  BY ConstAssumption DEF Descs
<1> QED
  BY <1>1 DEF hw_stop

LEMMA PrepareType ==
    ASSUME NEW skip \in 0 .. NeverSkipped, hw_prepare(skip)
    PROVE  /\ FrameOK' /\ frame_done' \in BOOLEAN /\ vsync_blanking' \in BOOLEAN
           /\ vsync_skip_remaining' \in 0 .. NeverSkipped /\ capturing' \in BOOLEAN
<1>1. <<>> \in Seq(Chunk) /\ Len(<<>>) <= Cap
  BY ConstAssumption
<1> QED
  BY <1>1 DEF hw_prepare, FrameOK

LEMMA ChunkType ==
    ASSUME TypeOK, ChunkSent
    PROVE  /\ RingOK' /\ widx' \in Descs /\ pend' \in BOOLEAN
           /\ missed' \in 0 .. MaxMissed /\ pos' \in 0 .. Chunks
<1> USE DEF camVars, dmaVars, vsyncVars, isrVars, threadVars, history
<1>1. pos \in 0 .. Chunks /\ pos < Chunks /\ pos' = pos + 1 /\ fno \in 0 .. 1
      /\ Chunks \in Nat /\ MaxMissed \in Nat /\ missed \in 0 .. MaxMissed
      /\ widx \in Descs /\ aligned \in BOOLEAN /\ pend \in BOOLEAN /\ RingOK
  BY ConstAssumption DEF ChunkSent, TypeOK, RingOK
<1>2. pos' \in 0 .. Chunks /\ pos + 1 \in 1 .. Chunks
  BY <1>1
<1>3. CASE ~running
  BY <1>1, <1>2, <1>3 DEF ChunkSent, RingOK
<1>4. CASE running
  <2> DEFINE b == [f |-> fno, c |-> pos + 1, whole |-> aligned]
  <2>1. b \in Chunk
    BY <1>1, <1>2 DEF Chunk
  <2>2. desc' = [desc EXCEPT ![widx] = [full |-> TRUE, buf |-> b]]
        /\ widx' = (widx + 1) % Bufs /\ pend' = TRUE
    BY <1>4 DEF ChunkSent
  <2> HIDE DEF b
  <2>3. RingOK'
    BY <1>1, <2>1, <2>2 DEF RingOK
  <2>4. missed' \in 0 .. MaxMissed
    <3>1. CASE pend
      <4>1. missed < MaxMissed /\ missed' = missed + 1
        BY <1>4, <3>1 DEF ChunkSent
      <4> QED
        BY <1>1, <4>1
    <3>2. CASE ~pend
      BY <1>1, <1>4, <3>2 DEF ChunkSent
    <3> QED
      BY <3>1, <3>2
  <2>5. widx' \in Descs
    BY <1>1, <2>2, NextIdx
  <2> QED
    BY <1>2, <2>2, <2>3, <2>4, <2>5
<1> QED
  BY <1>3, <1>4

LEMMA IsrType ==
    ASSUME TypeOK, cam_i2s_isr
    PROVE  RingOK' /\ FrameOK' /\ isr_next_desc' \in Descs
<1> DEFINE b == desc[isr_next_desc].buf
<1>1. isr_next_desc \in Descs /\ RingOK /\ FrameOK /\ Cap \in Nat
  BY ConstAssumption DEF TypeOK, RingOK, FrameOK
<1>2. b \in Chunk
  BY <1>1 DEF RingOK
<1>3. frame' \in {frame, Append(frame, b)} /\ (frame' # frame => Len(frame) < Cap)
  BY DEF cam_i2s_isr, Copies
<1>4. FrameOK'
  <2> HIDE DEF b
  <2>1. Append(frame, b) \in Seq(Chunk) /\ Len(Append(frame, b)) = Len(frame) + 1
        /\ Len(frame) \in Nat
    BY <1>1, <1>2 DEF FrameOK
  <2> QED
    BY <1>1, <1>3, <2>1 DEF FrameOK
<1>5. RingOK' /\ isr_next_desc' \in Descs
  BY <1>1, NextIdx, EmptyType DEF cam_i2s_isr, RingOK
<1> QED
  BY <1>4, <1>5

LEMMA TypeInit == Init => TypeOK
<1> SUFFICES ASSUME Init PROVE TypeOK
  OBVIOUS
<1>1. 0 \in Descs /\ 0 \in 0 .. Chunks /\ 0 \in 0 .. MaxMissed
      /\ 0 \in 0 .. NeverSkipped /\ 0 \in 0 .. 1
  BY ConstAssumption DEF Descs, NeverSkipped
<1>2. desc \in [Descs -> [full : BOOLEAN, buf : Chunk]]
  BY EmptyType DEF Init
<1>3. frame \in Seq(Chunk) /\ Len(frame) <= Cap
  BY ConstAssumption DEF Init
<1> QED
  BY <1>1, <1>2, <1>3 DEF Init, TypeOK, Pcs, Results

LEMMA TypeNext == TypeOK /\ [Next]_vars => TypeOK'
<1> SUFFICES ASSUME TypeOK, [Next]_vars PROVE TypeOK'
  OBVIOUS
<1> USE DEF TypeOK, camVars, dmaVars, vsyncVars, isrVars, threadVars, history
<1>1. CASE LinesBegin
  BY <1>1 DEF LinesBegin, ThreadBehind
<1>2. CASE ChunkSent
  <2>1. UNCHANGED <<lines, fno, running, aligned, vpend, vsyncVars, isrVars, threadVars>>
    BY <1>2 DEF ChunkSent
  <2> QED
    BY <1>2, <2>1, ChunkType DEF RingOK
<1>3. CASE Vsync
  <2>1. lines' = FALSE /\ vpend' = TRUE /\ aligned' = FALSE
        /\ UNCHANGED <<running, widx, desc, pend, missed, vsyncVars, isrVars, threadVars>>
    BY <1>3 DEF Vsync
  <2>2. pos' \in 0 .. Chunks /\ fno' \in 0 .. 1
    BY <1>3, ConstAssumption DEF Vsync
  <2> QED
    BY <2>1, <2>2
<1>4. CASE vsync_isr
  <2>1. vpend' = FALSE /\ UNCHANGED <<camVars, dmaVars, isrVars, threadVars, capturing>>
    BY <1>4 DEF vsync_isr
  <2>2. vsync_skip_remaining' \in 0 .. NeverSkipped
    <3>1. vsync_skip_remaining \in 0 .. NeverSkipped /\ NeverSkipped \in Nat
      BY ConstAssumption DEF NeverSkipped
    <3>2. \/ vsync_skip_remaining' = vsync_skip_remaining
          \/ vsync_skip_remaining > 0 /\ vsync_skip_remaining' = CountDown
      BY <1>4 DEF vsync_isr
    <3> HIDE DEF NeverSkipped
    <3> QED
      BY <3>1, <3>2 DEF CountDown
  <2>3. frame_done' \in BOOLEAN /\ vsync_blanking' \in BOOLEAN
    BY <1>4 DEF vsync_isr
  <2> QED
    BY <2>1, <2>2, <2>3
<1>5. CASE cam_i2s_isr
  <2>1. pend' = FALSE
        /\ UNCHANGED <<camVars, running, aligned, widx, missed, vpend, vsyncVars,
                       extract_active, threadVars>>
    BY <1>5 DEF cam_i2s_isr
  <2>2. RingOK' /\ FrameOK' /\ isr_next_desc' \in Descs
    BY <1>5, IsrType
  <2>3. UNCHANGED <<lines, pos, fno, running, aligned, widx, missed, vpend,
                    frame_done, vsync_blanking, capturing, vsync_skip_remaining,
                    extract_active, pc, warmed_up, header, ret, stale, late>>
    BY <2>1
  <2>4. /\ lines' \in BOOLEAN /\ pos' \in 0 .. Chunks /\ fno' \in 0 .. 1
        /\ running' \in BOOLEAN /\ aligned' \in BOOLEAN /\ widx' \in Descs
        /\ vpend' \in BOOLEAN /\ missed' \in 0 .. MaxMissed
        /\ vsync_skip_remaining' \in 0 .. NeverSkipped
    BY <2>3
  <2>5. /\ frame_done' \in BOOLEAN /\ vsync_blanking' \in BOOLEAN
        /\ capturing' \in BOOLEAN /\ extract_active' \in BOOLEAN
        /\ pc' \in Pcs /\ warmed_up' \in BOOLEAN /\ header' \in BOOLEAN
        /\ ret' \in Results /\ stale' \in BOOLEAN /\ late' \in BOOLEAN
    BY <2>3
  <2>6. pend' \in BOOLEAN
    BY <2>1
  <2> QED
    BY <2>2, <2>4, <2>5, <2>6, Zenon DEF RingOK, FrameOK
<1>6. CASE Call
  <2>1. NeverSkipped \in 0 .. NeverSkipped
    BY ConstAssumption DEF NeverSkipped
  <2>2. CASE ~warmed_up /\ ~header
    BY <1>6, <2>1, <2>2, StartType, PrepareType DEF Call, RingOK, FrameOK, Pcs, Results
  <2>3. CASE ~(~warmed_up /\ ~header)
    BY <1>6, <2>3 DEF Call, Pcs, Results
  <2> QED
    BY <2>2, <2>3
<1>7. CASE DqtEnd
  BY <1>7, StopType DEF DqtEnd, Pcs
<1>8. CASE Prepare
  <2>1. (IF warmed_up THEN 0 ELSE WarmupFrames) \in 0 .. NeverSkipped
    BY ConstAssumption DEF NeverSkipped
  <2> QED
    BY <1>8, <2>1, StartType, PrepareType DEF Prepare, RingOK, FrameOK, Pcs
<1>9. CASE SeeBlanking \/ ExtractStart \/ SeeDone \/ FrameTimeout \/ Drain
  <2>1. pc' \in Pcs /\ extract_active' \in BOOLEAN
    BY <1>9 DEF SeeBlanking, ExtractStart, SeeDone, FrameTimeout, Drain, Pcs
  <2>2. UNCHANGED <<camVars, dmaVars, vpend, vsyncVars, frame, isr_next_desc,
                    warmed_up, header, ret, history>>
    BY <1>9 DEF SeeBlanking, ExtractStart, SeeDone, FrameTimeout, Drain
  <2> QED
    BY <2>1, <2>2
<1>10. CASE BlankingTimeout
  BY <1>10, StopType DEF BlankingTimeout, Pcs, Results
<1>11. CASE Restart
  BY <1>11, StartType DEF Restart, RingOK, Pcs
<1>12. CASE Stop
  BY <1>12, StopType DEF Stop, Pcs
<1>13. CASE GetFrame
  <2>1. pc' \in Pcs /\ ret' \in Results /\ warmed_up' \in BOOLEAN /\ late' = FALSE
    BY <1>13 DEF GetFrame, Pcs, Results
  <2>2. UNCHANGED <<camVars, dmaVars, vpend, vsyncVars, isrVars, header, stale>>
    BY <1>13 DEF GetFrame
  <2> QED
    BY <2>1, <2>2
<1>14. CASE cam_i2s_reset_warmup
  BY <1>14, StopType DEF cam_i2s_reset_warmup
<1>15. CASE UNCHANGED vars
  BY <1>15 DEF vars
<1> QED
  BY <1>1, <1>2, <1>3, <1>4, <1>5, <1>6, <1>7, <1>8, <1>9, <1>10, <1>11, <1>12,
     <1>13, <1>14, <1>15 DEF Next, Camera, Thread, Deadline

(* The type invariant: descriptors, positions and flags keep to their      *)
(* values and frame_buf is never overrun.                                  *)
THEOREM TypeCorrect == Spec => []TypeOK
BY TypeInit, TypeNext, PTL DEF Spec
-----------------------------------------------------------------------------
(* Places in the ring.                                                     *)
Succ(i) == IF i + 1 < Bufs THEN i + 1 ELSE 0

LEMMA PlaceIn ==
    ASSUME NEW i \in Descs, NEW k \in 0 .. Bufs
    PROVE  Place(i, k) \in Descs /\ Place(i, 0) = i
BY ConstAssumption DEF Place, Descs

LEMMA PlacesDiffer ==
    ASSUME NEW i \in Descs, NEW k \in 0 .. Bufs - 1, NEW l \in 0 .. Bufs - 1, k # l
    PROVE  Place(i, k) # Place(i, l)
BY ConstAssumption DEF Place, Descs

LEMMA PlaceSucc ==
    ASSUME NEW i \in Descs, NEW k \in 0 .. Bufs - 1
    PROVE  Place(i, k + 1) = Succ(Place(i, k)) /\ Place(Succ(i), k) = Place(i, k + 1)
BY ConstAssumption DEF Place, Descs, Succ

LEMMA LagFacts ==
    ASSUME TypeOK
    PROVE  /\ Lag \in Nat /\ Lag <= MaxMissed + 1
           /\ pend => Lag = missed + 1
           /\ ~pend => Lag = missed
<1>1. missed \in 0 .. MaxMissed /\ MaxMissed \in Nat
  BY ConstAssumption DEF TypeOK
<1>2. CASE pend
  BY <1>1, <1>2 DEF Lag
<1>3. CASE ~pend
  BY <1>1, <1>3 DEF Lag
<1> QED
  BY <1>2, <1>3

(* A chunk goes into the ring: the handler is never a whole ring behind.   *)
LEMMA RingPut ==
    ASSUME TypeOK, TypeOK', MaxMissed < Bufs, ChunkSent, running, aligned, Ring(fno, pos)
    PROVE  Ring(fno, pos)' /\ Lag' = Lag + 1
<1> DEFINE b == [full |-> TRUE, buf |-> FirstOf(fno, pos + 1)]
           full(k) == [full |-> TRUE, buf |-> FirstOf(fno, pos - Lag + k + 1)]
<1>1. /\ desc' = [desc EXCEPT ![widx] = b] /\ widx' = (widx + 1) % Bufs
      /\ pend' = TRUE /\ (pend => missed < MaxMissed)
      /\ pend => missed' = missed + 1
      /\ ~pend => missed' = missed
      /\ fno' = fno /\ pos' = pos + 1 /\ isr_next_desc' = isr_next_desc
  <2>1. aligned = TRUE
    BY DEF TypeOK
  <2> QED
    BY <2>1 DEF ChunkSent, isrVars, FirstOf
<1>2. /\ Lag \in Nat /\ Lag <= MaxMissed + 1 /\ Lag' \in Nat /\ Lag' <= MaxMissed + 1
      /\ Lag' = missed' + 1 /\ pos \in Nat /\ Lag <= pos /\ Bufs \in Nat \ {0}
      /\ MaxMissed \in Nat /\ isr_next_desc \in Descs /\ widx \in Descs /\ widx = At(Lag)
  <2>1. Lag' \in Nat /\ Lag' <= MaxMissed + 1 /\ (pend' => Lag' = missed' + 1)
    <3>1. TypeOK => /\ Lag \in Nat /\ Lag <= MaxMissed + 1 /\ (pend => Lag = missed + 1)
      BY LagFacts
    <3>2. (TypeOK => /\ Lag \in Nat /\ Lag <= MaxMissed + 1 /\ (pend => Lag = missed + 1))'
      BY LagFacts, PTL
    <3> QED
      BY <3>2
  <2>2. pos \in 0 .. Chunks
    BY DEF TypeOK
  <2>3. pos \in Nat
    BY <2>2, ConstAssumption
  <2> QED
    BY <1>1, <2>1, <2>3, LagFacts, ConstAssumption DEF TypeOK, Ring
<1>3. Lag' = Lag + 1
  <2>1. CASE pend
    <3>1. Lag = missed + 1 /\ missed' = missed + 1
      BY <1>1, <2>1, LagFacts
    <3> QED
      BY <1>2, <3>1
  <2>2. CASE ~pend
    <3>1. Lag = missed /\ missed' = missed
      BY <1>1, <2>2, LagFacts
    <3> QED
      BY <1>2, <3>1
  <2> QED
    BY <2>1, <2>2
<1> DEFINE l == Lag
           i == isr_next_desc
           w == widx
           n == pos
<1>4. l \in 0 .. Bufs - 1
  <2> HIDE DEF l
  <2>1. l \in Nat /\ l + 1 <= MaxMissed + 1
    BY <1>2, <1>3 DEF l
  <2> QED
    BY <1>2, <2>1
<1>5. widx' = Place(i, l + 1)
  <2>1. widx' = Succ(widx)
    BY <1>1, <1>2, NextIdx DEF Succ
  <2>2. widx = Place(i, l)
    BY <1>2 DEF At
  <2> QED
    BY <1>2, <1>4, <2>1, <2>2, PlaceSucc
<1>6. desc \in [Descs -> [full : BOOLEAN, buf : Chunk]]
  BY DEF TypeOK
<1>7. ASSUME NEW k \in 0 .. l
      PROVE  desc'[Place(i, k)] = full(k)
  <2>1. k \in 0 .. Bufs - 1 /\ k \in 0 .. Bufs /\ k \in Nat
    <3> HIDE DEF l
    <3> QED
      BY <1>2, <1>4
  <2>2. Place(i, k) \in Descs /\ widx = Place(i, l)
    BY <1>2, <2>1, PlaceIn DEF At
  <2>3. CASE k = l
    <3>1. n - l + l + 1 = n + 1
      <4> HIDE DEF l, n
      <4>1. l \in Nat /\ n \in Nat
        BY <1>2 DEF l, n
      <4> QED
        BY <4>1
    <3> QED
      BY <1>1, <1>6, <2>2, <2>3, <3>1
  <2>4. CASE k # l
    <3>1. Place(i, k) # widx
      BY <1>2, <1>4, <2>1, <2>2, <2>4, PlacesDiffer
    <3>2. k \in 0 .. l - 1
      <4> HIDE DEF l
      <4> QED
        BY <1>4, <2>1, <2>4
    <3>3. desc[Place(i, k)] = full(k)
      BY <3>2 DEF Ring, At
    <3> QED
      BY <1>1, <1>6, <2>2, <3>1, <3>3
  <2> QED
    BY <2>3, <2>4
<1>8. Lag' <= pos' /\ 0 .. Lag' - 1 = 0 .. l /\ pos' - Lag' = n - l
  <2> HIDE DEF l, n
  <2>1. l \in Nat /\ n \in Nat /\ l <= n /\ Lag' = l + 1 /\ pos' = n + 1
    BY <1>1, <1>2, <1>3 DEF l, n
  <2> QED
    BY <2>1
<1>9. widx' = At(Lag)'
  BY <1>1, <1>3, <1>5 DEF At
<1>10. ASSUME NEW k \in 0 .. Lag' - 1
       PROVE  desc'[At(k)'] = [full |-> TRUE, buf |-> FirstOf(fno', pos' - Lag' + k + 1)]
  <2>1. desc'[Place(i, k)] = full(k) /\ pos' - Lag' = n - l
    BY <1>7, <1>8
  <2> QED
    BY <1>1, <2>1 DEF At
<1> QED
  BY <1>3, <1>8, <1>9, <1>10 DEF Ring

(* The handler takes the oldest chunk.                                     *)
LEMMA RingTake ==
    ASSUME TypeOK, TypeOK', MaxMissed < Bufs, cam_i2s_isr,
           NEW f, NEW n \in Nat, Ring(f, n)
    PROVE  /\ Ring(f, n)' /\ Lag = Lag' + 1 /\ Lag' \in Nat /\ Lag <= n
           /\ desc[isr_next_desc] =
                 [full |-> TRUE, buf |-> FirstOf(f, n - Lag + 1)]
<1> DEFINE l == Lag
           i == isr_next_desc
           full(k) == [full |-> TRUE, buf |-> FirstOf(f, n - Lag + k + 1)]
<1>1. /\ pend /\ pend' = FALSE /\ missed' = missed /\ widx' = widx
  BY DEF cam_i2s_isr
<1>2. /\ l \in Nat /\ l <= MaxMissed + 1 /\ l = missed + 1 /\ l <= n
      /\ MaxMissed \in Nat /\ Bufs \in Nat \ {0} /\ missed \in Nat
      /\ i \in Descs /\ widx = Place(i, l)
  BY <1>1, LagFacts, ConstAssumption DEF TypeOK, Ring, At
<1>3. Lag' = missed
  BY <1>1, <1>2 DEF Lag
<1> DEFINE m == Lag'
<1>4. /\ l = m + 1 /\ l \in 1 .. Bufs /\ m \in Nat
      /\ m \in 0 .. Bufs - 1 /\ m <= n
  <2> HIDE DEF l, m
  <2>1. m = missed
    BY <1>3 DEF m
  <2> QED
    BY <1>2, <2>1
<1>5. desc[i] = [full |-> TRUE, buf |-> FirstOf(f, n - l + 1)]
  <2>1. 0 \in 0 .. l - 1 /\ 0 \in 0 .. Bufs
    <3> HIDE DEF l
    <3> QED
      BY <1>2, <1>4
  <2>2. Place(i, 0) = i
    BY <1>2, <2>1, PlaceIn
  <2>3. desc[i] = full(0)
    BY <2>1, <2>2 DEF Ring, At
  <2>4. n - l + 0 + 1 = n - l + 1
    <3> HIDE DEF l
    <3> QED
      BY <1>2
  <2> QED
    BY <2>3, <2>4
<1>6. /\ isr_next_desc' = Succ(i)
      /\ desc' = [desc EXCEPT ![i] = EmptyDesc]
  BY <1>2, <1>5, NextIdx DEF cam_i2s_isr, Succ
<1>7. desc \in [Descs -> [full : BOOLEAN, buf : Chunk]]
  BY DEF TypeOK
<1>8. widx' = At(Lag)'
  <2>1. Place(Succ(i), m) = Place(i, m + 1)
    BY <1>2, <1>4, PlaceSucc
  <2> QED
    BY <1>1, <1>2, <1>4, <1>6, <2>1 DEF At
<1>9. Lag' <= n
  BY <1>4
<1>10. ASSUME NEW k \in 0 .. Lag' - 1
       PROVE  desc'[At(k)'] = [full |-> TRUE, buf |-> FirstOf(f, n - Lag' + k + 1)]
  <2>1. /\ k \in 0 .. Bufs - 1 /\ k + 1 \in 0 .. Bufs - 1 /\ k + 1 \in 0 .. Bufs
        /\ k + 1 \in 0 .. l - 1 /\ k + 1 # 0 /\ 0 \in 0 .. Bufs - 1 /\ 0 \in 0 .. Bufs
        /\ n - l + (k + 1) + 1 = n - Lag' + k + 1
    <3>1. m \in Nat /\ l = m + 1 /\ k \in 0 .. m - 1 /\ l \in Nat
      BY <1>2, <1>4
    <3> HIDE DEF l, m
    <3>2. n - l + (k + 1) + 1 = n - m + k + 1
      BY <3>1
    <3>3. /\ k \in 0 .. Bufs - 1 /\ k + 1 \in 0 .. Bufs - 1 /\ k + 1 \in 0 .. Bufs
          /\ k + 1 \in 0 .. l - 1 /\ k + 1 # 0 /\ 0 \in 0 .. Bufs - 1 /\ 0 \in 0 .. Bufs
      <4>1. l <= Bufs /\ Bufs \in Nat \ {0}
        BY <1>2, <1>4
      <4> QED
        BY <3>1, <4>1
    <3> QED
      BY <3>2, <3>3 DEF m
  <2>2. Place(Succ(i), k) = Place(i, k + 1) /\ Place(i, k + 1) \in Descs
    BY <1>2, <2>1, PlaceSucc, PlaceIn
  <2>3. Place(i, k + 1) # i
    BY <1>2, <2>1, PlacesDiffer, PlaceIn
  <2>4. desc[Place(i, k + 1)] = full(k + 1)
    BY <2>1 DEF Ring, At
  <2> QED
    BY <1>6, <1>7, <2>1, <2>2, <2>3, <2>4 DEF At
<1> QED
  BY <1>2, <1>4, <1>5, <1>8, <1>9, <1>10 DEF Ring

(* What is copied with it: the next chunk, as long as there is room.       *)
LEMMA CopyNext ==
    ASSUME TypeOK, TypeOK', MaxMissed < Bufs, cam_i2s_isr, extract_active, ~frame_done,
           NEW f, NEW n \in Nat, Ring(f, n), Copied(f, n)
    PROVE  Copied(f, n)'
<1> DEFINE len == Len(frame)
           l == Lag
           m == Lag'
           b == FirstOf(f, n - Lag + 1)
<1>1. /\ l = m + 1 /\ m \in Nat /\ l <= n
      /\ desc[isr_next_desc] = [full |-> TRUE, buf |-> b]
  BY RingTake
<1>2. frame' = IF len < Cap THEN Append(frame, b) ELSE frame
  BY <1>1 DEF cam_i2s_isr, Copies
<1>3. frame \in Seq(Chunk) /\ len \in Nat /\ len <= Cap /\ Cap \in Nat
      /\ (len = n - l \/ len = Cap) /\ Prefix(f)
  BY ConstAssumption DEF TypeOK, Copied
<1>4. CASE len < Cap
  <2> HIDE DEF b
  <2>1. /\ Len(frame') = len + 1 /\ frame'[len + 1] = b
        /\ \A i \in 1 .. len : frame'[i] = frame[i]
    BY <1>2, <1>3, <1>4, AppendProperties
  <2>2. len = n - l /\ Len(frame') = n - m
    <3> HIDE DEF len, l, m
    <3> QED
      BY <1>1, <1>3, <1>4, <2>1
  <2>3. b = FirstOf(f, len + 1)
    BY <2>2 DEF b
  <2>4. ASSUME NEW i \in 1 .. Len(frame')
        PROVE  frame'[i] = FirstOf(f, i)
    <3>1. i \in 1 .. len \/ i = len + 1
      <4> HIDE DEF len
      <4> QED
        BY <1>3, <2>1
    <3> QED
      BY <1>3, <2>1, <2>3, <3>1 DEF Prefix
  <2> QED
    BY <2>2, <2>4 DEF Copied, Prefix
<1>5. CASE ~(len < Cap)
  <2>1. frame' = frame /\ len = Cap
    BY <1>2, <1>3, <1>5
  <2> QED
    BY <1>3, <2>1 DEF Copied, Prefix
<1> QED
  BY <1>4, <1>5
-----------------------------------------------------------------------------
(* The invariant.                                                          *)
LEMMA InvInit == Init => IInv
BY DEF Init, IInv, SyncInv, FlagInv, EdgeInv, FrameInv, GetInv, ThreadBehind

LEMMA SyncNext == SyncInv /\ [Next]_vars => SyncInv'
<1> SUFFICES ASSUME SyncInv, [Next]_vars PROVE SyncInv'
  OBVIOUS
<1> USE DEF SyncInv, camVars
<1>1. CASE Camera
  BY <1>1 DEF Camera, LinesBegin, ChunkSent, Vsync
<1>2. CASE vsync_isr \/ cam_i2s_isr
  BY <1>2 DEF vsync_isr, cam_i2s_isr
<1>3. CASE Thread \/ Deadline \/ cam_i2s_reset_warmup \/ UNCHANGED vars
  <2>1. UNCHANGED <<camVars, vpend>>
    BY <1>3 DEF Thread, Call, DqtEnd, Prepare, SeeBlanking, Restart, ExtractStart,
       SeeDone, Drain, Stop, GetFrame, Deadline, BlankingTimeout, FrameTimeout,
       cam_i2s_reset_warmup, vars
  <2> QED
    BY <2>1
<1> QED
  BY <1>1, <1>2, <1>3 DEF Next

LEMMA FlagNext == FlagInv /\ [Next]_vars => FlagInv'
<1> SUFFICES ASSUME FlagInv, [Next]_vars PROVE FlagInv'
  OBVIOUS
<1> USE DEF FlagInv, camVars, dmaVars, vsyncVars, isrVars, threadVars, history
<1>1. CASE Camera
  <2>1. UNCHANGED <<ret, pc, extract_active, frame, capturing, vsync_blanking,
                    frame_done, stale, warmed_up, header>>
    BY <1>1 DEF Camera, LinesBegin, ChunkSent, Vsync
  <2> QED
    BY <2>1
<1>2. CASE vsync_isr
  BY <1>2 DEF vsync_isr
<1>3. CASE cam_i2s_isr
  <2>1. /\ UNCHANGED <<ret, pc, extract_active, capturing, vsync_blanking,
                       frame_done, stale, warmed_up, header>>
        /\ ~extract_active => frame' = frame
    BY <1>3 DEF cam_i2s_isr, Copies
  <2> QED
    BY <2>1
<1>4. CASE Call
  BY <1>4 DEF Call
<1>5. CASE DqtEnd
  BY <1>5 DEF DqtEnd, hw_stop
<1>6. CASE Prepare
  BY <1>6 DEF Prepare, hw_prepare
<1>7. CASE SeeBlanking \/ Restart \/ ExtractStart \/ SeeDone \/ FrameTimeout \/ Drain
  <2>1. /\ UNCHANGED <<ret, frame, stale, warmed_up, header>>
        /\ pc \notin {"idle", "dqt"}
        /\ \/ pc \in {"blanking", "restart"} /\ pc' \in {"restart", "extract"}
              /\ UNCHANGED extract_active
           \/ pc' \in {"frame", "drain", "stop"}
    BY <1>7 DEF SeeBlanking, Restart, ExtractStart, SeeDone, FrameTimeout, Drain
  <2> QED
    BY <2>1
<1>8. CASE BlankingTimeout
  BY <1>8 DEF BlankingTimeout, hw_stop
<1>9. CASE Stop
  BY <1>9 DEF Stop, hw_stop
<1>10. CASE GetFrame
  BY <1>10 DEF GetFrame
<1>11. CASE cam_i2s_reset_warmup
  BY <1>11 DEF cam_i2s_reset_warmup, hw_stop
<1>12. CASE UNCHANGED vars
  BY <1>12 DEF vars
<1> QED
  BY <1>1, <1>2, <1>3, <1>4, <1>5, <1>6, <1>7, <1>8, <1>9, <1>10, <1>11, <1>12
     DEF Next, Thread, Deadline

LEMMA EdgeNext == TypeOK /\ IInv /\ [Next]_vars => EdgeInv'
<1> SUFFICES ASSUME TypeOK, IInv, [Next]_vars, ~late', ThreadBehind' PROVE EdgeInv'
  BY DEF EdgeInv
<1> USE DEF EdgeInv, ThreadBehind, camVars, dmaVars, vsyncVars, isrVars, threadVars, history
<1>1. CASE LinesBegin
  <2>1. ThreadBehind /\ late'
    BY <1>1 DEF LinesBegin
  <2> QED
    BY <2>1
<1>2. CASE ChunkSent \/ Vsync
  <2>1. lines /\ UNCHANGED <<late, pc, vsync_blanking>>
    BY <1>2 DEF ChunkSent, Vsync
  <2> QED
    BY <2>1 DEF IInv
<1>3. CASE vsync_isr
  <2>1. /\ vpend /\ vpend' = FALSE /\ UNCHANGED <<camVars, dmaVars, isrVars, threadVars, capturing>>
    BY <1>3 DEF vsync_isr
  <2>2. ~ThreadBehind /\ ~lines
    BY <2>1 DEF IInv, SyncInv
  <2>3. pc = "blanking" /\ ~vsync_blanking /\ vsync_blanking' /\ capturing /\ ~frame_done
    BY <2>1, <2>2 DEF IInv, FlagInv
  <2>4. ~(vsync_skip_remaining > 0) /\ vsync_skip_remaining' = vsync_skip_remaining
        /\ frame_done' = (frame_done \/ vsync_blanking)
    BY <1>3, <2>3 DEF vsync_isr
  <2>5. vsync_skip_remaining \in 0 .. NeverSkipped
    BY DEF TypeOK
  <2>6. vsync_skip_remaining = 0
    BY <2>4, <2>5, ConstAssumption DEF NeverSkipped
  <2> QED
    BY <2>1, <2>2, <2>3, <2>4, <2>6
<1>4. CASE cam_i2s_isr
  <2>1. /\ pend /\ UNCHANGED <<lines, pos, fno, vpend, frame_done, vsync_blanking,
                                capturing, vsync_skip_remaining, pc, late>>
    BY <1>4 DEF cam_i2s_isr
  <2>2. pc # "extract" /\ ThreadBehind
    BY <2>1 DEF IInv
  <2> QED
    BY <2>1, <2>2 DEF IInv
<1>5. CASE Call \/ DqtEnd \/ BlankingTimeout \/ SeeDone \/ FrameTimeout \/ Drain
             \/ ExtractStart \/ Stop \/ GetFrame
  <2>1. pc' \in {"dqt", "prepare", "idle", "frame", "drain", "stop", "get"}
    BY <1>5 DEF Call, DqtEnd, BlankingTimeout, SeeDone, FrameTimeout, Drain, ExtractStart,
       Stop, GetFrame
  <2> QED
    BY <2>1
<1>6. CASE cam_i2s_reset_warmup
  BY <1>6 DEF cam_i2s_reset_warmup
<1>7. CASE Prepare
  BY <1>7 DEF Prepare, hw_prepare
<1>8. CASE SeeBlanking
  BY <1>8 DEF SeeBlanking, IInv
<1>9. CASE Restart
  BY <1>9 DEF Restart, IInv, hw_dma_start
<1>10. CASE UNCHANGED vars
  <2>1. UNCHANGED <<late, pc, lines, vpend, vsync_blanking, frame_done, capturing,
                    vsync_skip_remaining, running, aligned, pend, missed,
                    isr_next_desc, widx>>
    BY <1>10 DEF vars
  <2> QED
    BY <2>1 DEF IInv
<1> QED
  BY <1>1, <1>2, <1>3, <1>4, <1>5, <1>6, <1>7, <1>8, <1>9, <1>10
     DEF Next, Camera, Thread, Deadline

(* The steps within the frame.                                             *)
InFrame == ~late /\ pc \in {"frame", "drain", "stop"}

LEMMA FrameFacts ==
    ASSUME FrameInv, InFrame
    PROVE  /\ vsync_blanking /\ capturing /\ vsync_skip_remaining = 0
           /\ extract_active
           /\ frame_done => \E f \in 0 .. 1 : Prefix(f)
           /\ ~frame_done /\ vpend =>
                 \E n \in Nat : Ring(1 - fno, n) /\ Copied(1 - fno, n)
           /\ ~frame_done /\ ~vpend =>
                 running /\ aligned /\ Ring(fno, pos) /\ Copied(fno, pos)
BY DEF FrameInv, InFrame

(* Steps that leave ring and frame as they are.                            *)
LEMMA FrameKept ==
    ASSUME FrameInv, InFrame,
           UNCHANGED <<pos, fno, dmaVars, vpend, vsyncVars, isrVars>>
    PROVE  FrameInv'
<1> USE DEF dmaVars, vsyncVars, isrVars
<1>1. \A f, n : (Ring(f, n)' <=> Ring(f, n)) /\ (Copied(f, n)' <=> Copied(f, n))
               /\ (Prefix(f)' <=> Prefix(f))
  BY DEF Ring, Copied, Prefix, At, Lag
<1>2. /\ Ring(fno, pos)' <=> Ring(fno, pos)
      /\ Copied(fno, pos)' <=> Copied(fno, pos)
      /\ \A n : Ring(1 - fno, n)' <=> Ring(1 - fno, n)
      /\ \A n : Copied(1 - fno, n)' <=> Copied(1 - fno, n)
  BY DEF Ring, Copied, Prefix, At, Lag
<1> QED
  BY <1>1, <1>2, FrameFacts DEF FrameInv

(* Some prefix of one frame is in frame_buf.                               *)
LEMMA SomePrefix ==
    ASSUME TypeOK, FrameInv, InFrame
    PROVE  \E f \in 0 .. 1 : Prefix(f)
<1>1. fno \in 0 .. 1 /\ 1 - fno \in 0 .. 1
  BY DEF TypeOK
<1> QED
  BY <1>1, FrameFacts DEF Copied

LEMMA FrameNext ==
    MaxMissed < Bufs /\ TypeOK /\ TypeOK' /\ IInv /\ [Next]_vars => FrameInv'
<1> SUFFICES ASSUME MaxMissed < Bufs, TypeOK, TypeOK', IInv, [Next]_vars, InFrame'
             PROVE  FrameInv'
  BY DEF FrameInv, InFrame
<1> USE DEF camVars, dmaVars, vsyncVars, isrVars, threadVars, history
<1>0. FrameInv
  BY DEF IInv
<1>1. CASE LinesBegin
  <2>1. UNCHANGED <<pos, fno, dmaVars, vpend, vsyncVars, isrVars, pc>> /\ (late => late')
    BY <1>1 DEF LinesBegin
  <2>2. InFrame
    BY <2>1 DEF InFrame
  <2> QED
    BY <1>0, <2>1, <2>2, FrameKept
<1>2. CASE ChunkSent
  <2>1. lines /\ UNCHANGED <<lines, fno, running, aligned, vpend, vsyncVars, isrVars, threadVars>>
        /\ pos' = pos + 1
    BY <1>2 DEF ChunkSent
  <2>2. InFrame /\ ~vpend
    BY <2>1 DEF InFrame, IInv, SyncInv
  <2>3. \A f \in 0 .. 1 : Prefix(f)' <=> Prefix(f)
    BY <2>1 DEF Prefix
  <2>4. CASE frame_done
    BY <1>0, <2>1, <2>2, <2>3, <2>4, FrameFacts DEF FrameInv
  <2>5. CASE ~frame_done
    <3>1. running /\ aligned /\ Ring(fno, pos) /\ Copied(fno, pos)
      BY <1>0, <2>2, <2>5, FrameFacts
    <3>2. Ring(fno, pos)' /\ Lag' = Lag + 1
      BY <1>2, <3>1, RingPut
    <3>3. pos' - Lag' = pos - Lag
      <4> DEFINE l == Lag
                 n == pos
      <4>1. l \in Nat /\ n \in 0 .. Chunks /\ pos' = n + 1 /\ Lag' = l + 1 /\ Chunks \in Nat
        BY <2>1, <3>2, LagFacts, ConstAssumption DEF TypeOK
      <4> HIDE DEF l, n
      <4>2. (n + 1) - (l + 1) = n - l
        BY <4>1
      <4> QED
        BY <4>1, <4>2 DEF l, n
    <3>4. Copied(fno, pos)'
      BY <2>1, <3>1, <3>3 DEF Copied, Prefix
    <3> QED
      BY <1>0, <2>1, <2>2, <2>5, <3>1, <3>2, <3>4, FrameFacts DEF FrameInv
  <2> QED
    BY <2>4, <2>5
<1>3. CASE Vsync
  <2>1. lines /\ vpend' = TRUE /\ fno' = 1 - fno
        /\ UNCHANGED <<running, widx, desc, pend, missed, vsyncVars, isrVars, threadVars>>
    BY <1>3 DEF Vsync
  <2>2. InFrame /\ ~vpend /\ fno \in 0 .. 1
    BY <2>1 DEF InFrame, IInv, SyncInv, TypeOK
  <2>3. 1 - fno' = fno
    BY <2>1, <2>2
  <2>4. CASE frame_done
    <3>1. \A f \in 0 .. 1 : Prefix(f)' <=> Prefix(f)
      BY <2>1 DEF Prefix
    <3> QED
      BY <1>0, <2>1, <2>2, <2>4, <3>1, FrameFacts DEF FrameInv
  <2>5. CASE ~frame_done
    <3>1. Ring(fno, pos) /\ Copied(fno, pos)
      BY <1>0, <2>2, <2>5, FrameFacts
    <3>2. Ring(1 - fno, pos)' <=> /\ Lag' <= pos' /\ widx' = At(Lag)'
                                  /\ \A k \in 0 .. Lag' - 1 : desc'[At(k)'] =
                                       [full |-> TRUE, buf |-> FirstOf(1 - fno', pos' - Lag' + k + 1)]
      BY DEF Ring
    <3>3. PICK n \in Nat : n = pos
      <4>1. pos \in 0 .. Chunks
        BY DEF TypeOK
      <4> QED
        BY <4>1, ConstAssumption
    <3>4. Ring(1 - fno, n)'
      BY <2>1, <2>3, <3>1, <3>3 DEF Ring, At, Lag
    <3>5. Copied(1 - fno, n)'
      BY <2>1, <2>3, <3>1, <3>3 DEF Copied, Prefix, Lag
    <3> QED
      BY <1>0, <2>1, <2>2, <2>5, <3>4, <3>5, FrameFacts DEF FrameInv
  <2> QED
    BY <2>4, <2>5
<1>4. CASE vsync_isr
  <2>1. /\ vpend /\ vpend' = FALSE /\ UNCHANGED <<camVars, dmaVars, isrVars, threadVars, capturing>>
    BY <1>4 DEF vsync_isr
  <2>2. InFrame
    BY <2>1 DEF InFrame
  <2>3. vsync_blanking /\ capturing /\ vsync_skip_remaining = 0 /\ extract_active
    BY <1>0, <2>2, FrameFacts
  <2>4. ~(vsync_skip_remaining > 0)
    BY <2>3
  <2>5. vsync_blanking' /\ capturing' /\ vsync_skip_remaining' = 0 /\ frame_done'
    BY <1>4, <2>3, <2>4 DEF vsync_isr
  <2>6. \A f \in 0 .. 1 : Prefix(f)' <=> Prefix(f)
    BY <2>1 DEF Prefix
  <2>7. \E f \in 0 .. 1 : Prefix(f)
    BY <1>0, <2>2, SomePrefix
  <2> QED
    BY <2>1, <2>3, <2>5, <2>6, <2>7 DEF FrameInv
<1>5. CASE cam_i2s_isr
  <2>1. UNCHANGED <<camVars, running, aligned, widx, missed, vpend, vsyncVars,
                   extract_active, threadVars>>
    BY <1>5 DEF cam_i2s_isr
  <2>2. InFrame
    BY <2>1 DEF InFrame
  <2>3. CASE frame_done
    <3>1. frame' = frame
      BY <1>5, <2>3 DEF cam_i2s_isr, Copies
    <3>2. \A f \in 0 .. 1 : Prefix(f)' <=> Prefix(f)
      BY <3>1 DEF Prefix
    <3> QED
      BY <1>0, <2>1, <2>2, <2>3, <3>2, FrameFacts DEF FrameInv
  <2>4. CASE ~frame_done /\ vpend
    <3>1. extract_active
      BY <1>0, <2>2, FrameFacts
    <3>2. PICK n \in Nat : Ring(1 - fno, n) /\ Copied(1 - fno, n)
      BY <1>0, <2>2, <2>4, FrameFacts
    <3>3. PICK f : f = 1 - fno
      OBVIOUS
    <3>4. Ring(f, n)' /\ Copied(f, n)'
      BY <1>5, <2>4, <3>1, <3>2, <3>3, RingTake, CopyNext
    <3>5. Ring(1 - fno, n)' /\ Copied(1 - fno, n)'
      BY <2>1, <3>3, <3>4 DEF Ring, Copied, Prefix
    <3> QED
      BY <1>0, <2>1, <2>2, <2>4, <3>5, FrameFacts DEF FrameInv
  <2>5. CASE ~frame_done /\ ~vpend
    <3>1. extract_active /\ running /\ aligned /\ Ring(fno, pos) /\ Copied(fno, pos)
      BY <1>0, <2>2, <2>5, FrameFacts
    <3>2. PICK n \in Nat : n = pos
      <4>1. pos \in 0 .. Chunks
        BY DEF TypeOK
      <4> QED
        BY <4>1, ConstAssumption
    <3>3. PICK f : f = fno
      OBVIOUS
    <3>4. Ring(f, n)' /\ Copied(f, n)'
      BY <1>5, <2>5, <3>1, <3>2, <3>3, RingTake, CopyNext
    <3>5. Ring(fno, pos)' /\ Copied(fno, pos)'
      BY <2>1, <3>2, <3>3, <3>4 DEF Ring, Copied, Prefix
    <3> QED
      BY <1>0, <2>1, <2>2, <2>5, <3>1, <3>5, FrameFacts DEF FrameInv
  <2> QED
    BY <2>3, <2>4, <2>5
<1>6. CASE ExtractStart
  <2>1. /\ pc = "extract" /\ ~late /\ extract_active' = TRUE
        /\ UNCHANGED <<camVars, dmaVars, vpend, vsyncVars, frame, isr_next_desc>>
    BY <1>6 DEF ExtractStart, InFrame
  <2>2. /\ ~lines /\ ~vpend /\ vsync_blanking /\ ~frame_done /\ capturing
        /\ vsync_skip_remaining = 0 /\ running /\ aligned /\ ~pend /\ missed = 0
        /\ isr_next_desc = 0 /\ widx = 0
    BY <2>1 DEF IInv, EdgeInv, ThreadBehind
  <2>3. frame = <<>> /\ pos = 0
    BY <2>1, <2>2 DEF IInv, FlagInv, SyncInv
  <2>4. Lag' = 0
    BY <2>1, <2>2 DEF Lag
  <2>5. Ring(fno, pos)'
    BY <2>1, <2>2, <2>3, <2>4, ConstAssumption DEF Ring, At, Place
  <2>6. Copied(fno, pos)'
    BY <2>1, <2>3, <2>4 DEF Copied, Prefix
  <2> QED
    BY <2>1, <2>2, <2>5, <2>6 DEF FrameInv
<1>7. CASE SeeDone \/ FrameTimeout \/ Drain
  <2>1. UNCHANGED <<pos, fno, dmaVars, vpend, vsyncVars, isrVars, late>>
        /\ pc \in {"frame", "drain"}
    BY <1>7 DEF SeeDone, FrameTimeout, Drain
  <2>2. InFrame
    BY <2>1 DEF InFrame
  <2> QED
    BY <1>0, <2>1, <2>2, FrameKept
<1>8. CASE Call \/ DqtEnd \/ Prepare \/ SeeBlanking \/ BlankingTimeout \/ Restart
             \/ Stop \/ GetFrame \/ cam_i2s_reset_warmup
  <2>1. pc' \in {"dqt", "prepare", "blanking", "restart", "extract", "get", "idle"}
    BY <1>8 DEF Call, DqtEnd, Prepare, SeeBlanking, BlankingTimeout, Restart, Stop,
       GetFrame, cam_i2s_reset_warmup
  <2> QED
    BY <2>1 DEF InFrame
<1>9. CASE UNCHANGED vars
  <2>1. UNCHANGED <<pos, fno, dmaVars, vpend, vsyncVars, isrVars, pc, late>>
    BY <1>9 DEF vars
  <2>2. InFrame
    BY <2>1 DEF InFrame
  <2> QED
    BY <1>0, <2>1, <2>2, FrameKept
<1> QED
  BY <1>1, <1>2, <1>3, <1>4, <1>5, <1>6, <1>7, <1>8, <1>9
     DEF Next, Camera, Thread, Deadline

LEMMA GetNext == TypeOK /\ IInv /\ [Next]_vars => GetInv'
<1> SUFFICES ASSUME TypeOK, IInv, [Next]_vars, ~late', pc' = "get" PROVE GetInv'
  BY DEF GetInv
<1> USE DEF camVars, dmaVars, vsyncVars, isrVars, threadVars, history
<1>1. CASE Stop
  <2>1. InFrame /\ frame' = frame
    BY <1>1 DEF Stop, InFrame
  <2>2. \E f \in 0 .. 1 : Prefix(f)
    BY <2>1, SomePrefix DEF IInv
  <2> QED
    BY <2>1, <2>2 DEF GetInv, Prefix
<1>2. CASE Camera \/ vsync_isr \/ cam_i2s_isr \/ UNCHANGED vars
  <2>1. pc' = pc /\ (late => late')
    <3>1. CASE LinesBegin
      BY <3>1 DEF LinesBegin
    <3>2. CASE ChunkSent \/ Vsync \/ vsync_isr \/ cam_i2s_isr
      BY <3>2 DEF ChunkSent, Vsync, vsync_isr, cam_i2s_isr
    <3>3. CASE UNCHANGED vars
      BY <3>3 DEF vars
    <3> QED
      BY <1>2, <3>1, <3>2, <3>3 DEF Camera
  <2>2. pc = "get" /\ ~late /\ ~extract_active
    BY <2>1 DEF IInv, FlagInv
  <2>3. frame' = frame
    <3>1. CASE Camera \/ vsync_isr \/ UNCHANGED vars
      BY <3>1 DEF Camera, LinesBegin, ChunkSent, Vsync, vsync_isr, vars
    <3>2. CASE cam_i2s_isr
      BY <2>2, <3>2 DEF cam_i2s_isr, Copies
    <3> QED
      BY <1>2, <3>1, <3>2
  <2> QED
    BY <2>2, <2>3 DEF GetInv, Prefix, IInv
<1>3. CASE Call \/ DqtEnd \/ Prepare \/ SeeBlanking \/ Restart \/ ExtractStart \/ SeeDone
             \/ Drain \/ GetFrame \/ Deadline \/ cam_i2s_reset_warmup
  <2>1. pc' # "get"
    BY <1>3 DEF Call, DqtEnd, Prepare, SeeBlanking, Restart, ExtractStart, SeeDone, Drain,
       GetFrame, Deadline, BlankingTimeout, FrameTimeout, cam_i2s_reset_warmup
  <2> QED
    BY <2>1
<1> QED
  BY <1>1, <1>2, <1>3 DEF Next, Thread

(* The inductive invariant, if the handler keeps up with the ring.         *)
THEOREM Invariant == MaxMissed < Bufs => (Spec => [](TypeOK /\ IInv))
<1> SUFFICES ASSUME MaxMissed < Bufs PROVE Spec => [](TypeOK /\ IInv)
  OBVIOUS
<1>1. Init => TypeOK /\ IInv
  BY TypeInit, InvInit
<1>2. TypeOK /\ IInv /\ [Next]_vars => (TypeOK /\ IInv)'
  <2>1. TypeOK /\ IInv /\ [Next]_vars => TypeOK'
    BY TypeNext
  <2> QED
    BY <2>1, SyncNext, FlagNext, EdgeNext, FrameNext, GetNext DEF IInv
<1> QED
  BY <1>1, <1>2, PTL DEF Spec

(* What cam_i2s_capture_frame has captured is the beginning of one frame,  *)
(* unless the thread missed the blanking: for every order of the two       *)
(* interrupts, every deadline and every size of ring and buffer.           *)
THEOREM FramesAreWhole == MaxMissed < Bufs => (Spec => []OneFrame)
<1> SUFFICES ASSUME MaxMissed < Bufs PROVE Spec => []OneFrame
  OBVIOUS
<1>1. TypeOK /\ IInv => OneFrame
  <2> SUFFICES ASSUME TypeOK, IInv, pc = "get", ~late, NEW i \in DOMAIN frame
               PROVE  frame[i] = [f |-> frame[1].f, c |-> i, whole |-> TRUE]
    BY DEF OneFrame
  <2>1. PICK f \in 0 .. 1 : Prefix(f)
    BY DEF IInv, GetInv
  <2>2. frame \in Seq(Chunk) /\ Len(frame) \in Nat /\ DOMAIN frame = 1 .. Len(frame)
    BY LenProperties DEF TypeOK
  <2>3. i \in 1 .. Len(frame) /\ 1 \in 1 .. Len(frame)
    BY <2>2
  <2>4. frame[i] = FirstOf(f, i) /\ frame[1] = FirstOf(f, 1)
    BY <2>1, <2>3 DEF Prefix
  <2>5. frame[1].f = f
    BY <2>4 DEF FirstOf
  <2> QED
    BY <2>4, <2>5 DEF FirstOf
<1> QED
  BY <1>1, Invariant, PTL

(* The flags alone, whatever the handler's delay.                          *)
LEMMA Flags == Spec => []FlagInv
<1>1. Init => FlagInv
  BY InvInit DEF IInv
<1> QED
  BY <1>1, FlagNext, PTL DEF Spec

(* A returned frame stays as it is until the next capture: cam_i2s_hw_stop *)
(* has switched the copying off before.                                    *)
THEOREM FramesAreStable == Spec => FrameStable
<1>1. FlagInv /\ [Next]_vars => [ret = "ok" /\ pc' = "idle" => frame' = frame]_vars
  <2> SUFFICES ASSUME FlagInv, [Next]_vars, ret = "ok", pc' = "idle" PROVE frame' = frame
    OBVIOUS
  <2>1. pc = "idle" /\ ~extract_active
    BY DEF FlagInv
  <2> QED
    BY <2>1 DEF Next, Camera, LinesBegin, ChunkSent, Vsync, vsync_isr,
       cam_i2s_isr, Copies, Thread, Call, DqtEnd, Prepare, SeeBlanking, Restart,
       ExtractStart, SeeDone, Drain, Stop, GetFrame, Deadline, BlankingTimeout, FrameTimeout,
       cam_i2s_reset_warmup, vars, camVars, dmaVars, vsyncVars, isrVars, threadVars
<1> QED
  BY <1>1, Flags, PTL DEF Spec, FrameStable

(* cam_i2s_reset_warmup forces a new extraction before the next capture.   *)
THEOREM ResetsForceExtraction == Spec => ResetForcesExtraction
<1>1. FlagInv /\ [Next]_vars => [Prepare => ~stale]_vars
  <2> SUFFICES ASSUME FlagInv, Prepare PROVE ~stale
    OBVIOUS
  <2>1. pc = "prepare"
    BY DEF Prepare
  <2> QED
    BY <2>1 DEF FlagInv
<1> QED
  BY <1>1, Flags, PTL DEF Spec, ResetForcesExtraction
=============================================================================
