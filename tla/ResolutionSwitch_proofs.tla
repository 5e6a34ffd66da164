---------------------- MODULE ResolutionSwitch_proofs ----------------------
(***************************************************************************)
(* Proofs about ResolutionSwitch, for any set of resolutions.              *)
(***************************************************************************)
EXTENDS ResolutionSwitch, TLAPS

(* The slot is busy exactly while the worker is at work; until a request   *)
(* is answered, the descriptor it has closed stays closed.                 *)
ControlInv ==
    /\ hpc = "camera_init" => wpc = "idle" /\ ~busy
    /\ hpc = "frame_source_init" => wpc \in Capturing /\ ~busy
    /\ hpc \notin {"camera_init", "frame_source_init"} =>
          (busy <=> wpc # "idle")
    /\ hpc \in Switching \cup {"stop"} =>
          target \in Res /\ (busy => closed)

(* What each register write has achieved.                                  *)
SettingInv ==
    /\ AppliedMeansSet
    /\ hpc = "camera_init" => current_res = Qvga
    /\ hpc \in {"camera_init", "window", "jpeg", "clock"} => ~applied
    /\ hpc \in {"jpeg", "clock"} => window = target
    /\ hpc = "clock" => ~held

(* No capture comes between the reset and the last write, and a capture    *)
(* at any other time sees one window.                                      *)
FreshInv ==
    ~overtaken =>
        /\ hpc \in Switching => wpc \notin Asking
        /\ hpc # "reset" => header \in {None, window}
        /\ hpc # "reset" /\ warmed_up => warmedBy = {window}
        /\ hpc \in {"camera_init", "window", "jpeg", "clock"} =>
              header = None /\ ~warmed_up
        /\ wpc \in {"dqt", "frame", "drain"} => seen \subseteq {window}

(* Where the seconds since the close have gone.                            *)
WaitInv ==
    /\ wpc \in {"peer", "refused"} => left <= PeerWait
    /\ wpc = "cooldown" => left <= Cooldown
    /\ hpc = "stop" =>
          /\ wpc \in Asking \cup Working => spent + budget = StopBudget
          /\ spent + budget <= StopBudget
          /\ wpc \in {"peer", "refused"} =>
                StopBudget - (spent + budget) <= PeerWait - left
          /\ wpc = "cooldown" =>
                StopBudget - (spent + budget) <= PeerWait + Cooldown - left

IInv == TypeOK /\ ControlInv /\ SettingInv /\ FreshInv /\ FrameFits /\ WaitInv
-----------------------------------------------------------------------------
(* The flags are only ever set to truth values.                            *)
LEMMA FlagsStep == FlagsOK /\ [Next]_vars => FlagsOK'
<1> SUFFICES ASSUME FlagsOK, [Next]_vars PROVE FlagsOK'
  OBVIOUS
<1> USE DEF FlagsOK, sensorVars, captureVars, slotVars, workerVars, httpVars,
            hw_start, hw_stop, Return
<1>1. CASE UNCHANGED vars
  BY <1>1 DEF vars
<1>2. CASE camera_init
  BY <1>2 DEF camera_init
<1>3. CASE Tick
  BY <1>3 DEF Tick
<1>4. CASE Reuse
  BY <1>4 DEF Reuse
<1>5. CASE Begin \/ Open \/ Get
  BY <1>5 DEF Begin, Open, Get
<1>6. CASE Call
  BY <1>6 DEF Call
<1>7. CASE DqtEnd \/ Prepare \/ SeeBlanking \/ Restart \/ SeeDone
  <2>1. CASE DqtEnd
    BY <2>1 DEF DqtEnd
  <2>2. CASE Prepare
    BY <2>2 DEF Prepare
  <2>3. CASE SeeBlanking \/ SeeDone
    <3>1. UNCHANGED <<sensorVars, captureVars, camera_available, slotVars,
                      httpVars>>
      BY <2>3 DEF SeeBlanking, SeeDone
    <3> QED
      BY <3>1
  <2>4. CASE Restart
    BY <2>4 DEF Restart
  <2> QED
    BY <1>7, <2>1, <2>2, <2>3, <2>4
<1>8. CASE BlankingTimeout
  BY <1>8 DEF BlankingTimeout
<1>9. CASE FrameEnd
  BY <1>9 DEF FrameEnd, Empty, Filled
<1>10. CASE Send \/ Peer \/ Release
  BY <1>10 DEF Send, Peer, Release
<1>11. CASE stream_try_start \/ Request
  BY <1>11 DEF stream_try_start, Request
<1>12. CASE StopDone \/ StopTimeout \/ cam_i2s_reset_warmup
  BY <1>12 DEF StopDone, StopTimeout, cam_i2s_reset_warmup
<1>13. CASE WriteWindow
  BY <1>13 DEF WriteWindow, SensorWrite
<1>14. CASE WriteJpeg
  <2>1. /\ held' = FALSE \/ held' = held \/ held' = TRUE
        /\ UNCHANGED <<ready, warmed_up, capturing, extracting,
                       camera_available, slotVars, overtaken, applied>>
    BY <1>14 DEF WriteJpeg, SensorWrite
  <2> QED
    BY <2>1
<1>15. CASE WriteClock
  BY <1>15 DEF WriteClock, SensorWrite
<1> QED
  BY <1>1, <1>2, <1>3, <1>4, <1>5, <1>6, <1>7, <1>8, <1>9, <1>10, <1>11, <1>12,
     <1>13, <1>14, <1>15 DEF Next, Worker, Http

LEMMA InvInit == Init => IInv
<1> SUFFICES ASSUME Init PROVE IInv
  OBVIOUS
<1> USE ResAssumption DEF Init
<1>0. FlagsOK
  BY DEF FlagsOK
<1>1. TypeOK
  BY <1>0 DEF TypeOK, Windows, Switching, Capturing, Timed, Working
<1>2. ControlInv /\ SettingInv /\ FreshInv
  BY DEF ControlInv, SettingInv, FreshInv, AppliedMeansSet, Switching
<1>3. FrameFits /\ WaitInv
  BY DEF FrameFits, WaitInv
<1> QED
  BY <1>1, <1>2, <1>3 DEF IInv

LEMMA InvBoot == IInv /\ camera_init => IInv'
<1> SUFFICES ASSUME IInv, camera_init PROVE IInv'
  OBVIOUS
<1>0. FlagsOK'
  BY FlagsStep DEF Next, IInv, TypeOK
<1> USE ResAssumption DEF IInv, camera_init, captureVars, slotVars
<1>1. TypeOK'
  BY <1>0 DEF TypeOK, ControlInv, Windows, Switching, Capturing, Timed, Working
<1>2. ControlInv'
  BY DEF ControlInv, Switching, Capturing
<1>3. SettingInv'
  BY DEF SettingInv, AppliedMeansSet
<1>4. FreshInv' /\ FrameFits'
  BY DEF FreshInv, FrameFits, ControlInv, TypeOK, Switching, Asking, Capturing
<1>5. WaitInv'
  BY DEF WaitInv
<1> QED
  BY <1>1, <1>2, <1>3, <1>4, <1>5

LEMMA InvTick == IInv /\ Tick => IInv'
<1> SUFFICES ASSUME IInv, Tick PROVE IInv'
  OBVIOUS
<1>0. FlagsOK'
  BY FlagsStep DEF Next, IInv, TypeOK
<1> USE DEF IInv, Tick, captureVars, slotVars, sensorVars
<1>1. TypeOK'
  BY <1>0 DEF TypeOK, WaitInv, StopBudget, Timed, Working, Asking
<1>2. ControlInv'
  BY DEF ControlInv
<1>3. SettingInv'
  BY DEF SettingInv, AppliedMeansSet
<1>4. FreshInv' /\ FrameFits'
  BY DEF FreshInv, FrameFits
<1>5. WaitInv'
  BY DEF TypeOK, WaitInv, StopBudget, PeerWait, Cooldown, Timed, Working,
         Asking, Capturing
<1> QED
  BY <1>1, <1>2, <1>3, <1>4, <1>5

(* The HTTP thread's steps.                                                *)
LEMMA InvHttp == IInv /\ (Http \/ Reuse) => IInv'
<1> SUFFICES ASSUME IInv, Http \/ Reuse PROVE IInv'
  OBVIOUS
<1>0. FlagsOK'
  BY FlagsStep DEF Next, IInv, TypeOK
<1> USE ResAssumption DEF IInv, captureVars, slotVars, sensorVars, workerVars,
                          httpVars
<1>1. CASE stream_try_start
  <2> USE <1>1 DEF stream_try_start
  <2>1. TypeOK'
    BY <1>0 DEF TypeOK, ControlInv, Capturing, Timed, Working
  <2>2. ControlInv' /\ SettingInv'
    BY DEF ControlInv, SettingInv, AppliedMeansSet, Switching
  <2>3. FreshInv' /\ FrameFits' /\ WaitInv'
    BY DEF FreshInv, FrameFits, WaitInv, Switching
  <2> QED
    BY <2>1, <2>2, <2>3
<1>2. CASE Reuse
  <2> USE <1>2 DEF Reuse
  <2>1. TypeOK' /\ ControlInv' /\ SettingInv'
    BY <1>0 DEF TypeOK, ControlInv, SettingInv, AppliedMeansSet, Switching
  <2>2. FreshInv' /\ FrameFits' /\ WaitInv'
    BY DEF FreshInv, FrameFits, WaitInv, Switching
  <2> QED
    BY <2>1, <2>2
<1>3. CASE Request
  <2> USE <1>3 DEF Request
  <2>1. TypeOK'
    BY <1>0 DEF TypeOK, Switching, StopBudget
  <2>2. ControlInv' /\ SettingInv'
    BY DEF ControlInv, SettingInv, AppliedMeansSet, Switching
  <2>3. FreshInv' /\ FrameFits'
    BY DEF FreshInv, FrameFits, ControlInv, TypeOK, Switching, Asking, Capturing
  <2>4. WaitInv'
    BY DEF WaitInv, TypeOK, StopBudget, PeerWait, Cooldown
  <2> QED
    BY <2>1, <2>2, <2>3, <2>4
<1>4. CASE StopDone
  <2> USE <1>4 DEF StopDone
  <2>1. TypeOK'
    BY <1>0 DEF TypeOK, Switching
  <2>2. ControlInv' /\ SettingInv'
    BY DEF ControlInv, SettingInv, AppliedMeansSet, Switching
  <2>3. FreshInv' /\ FrameFits'
    BY DEF FreshInv, FrameFits, ControlInv, TypeOK, Switching, Asking, Capturing
  <2>4. WaitInv'
    BY DEF WaitInv
  <2> QED
    BY <2>1, <2>2, <2>3, <2>4
<1>5. CASE StopTimeout
  <2> USE <1>5 DEF StopTimeout
  <2>1. TypeOK'
    BY <1>0 DEF TypeOK, Switching
  <2>2. ControlInv' /\ SettingInv'
    BY DEF ControlInv, SettingInv, AppliedMeansSet, Switching
  <2>3. FreshInv' /\ FrameFits'
    BY DEF FreshInv, FrameFits, Switching, Asking, Capturing
  <2>4. WaitInv'
    BY DEF WaitInv
  <2> QED
    BY <2>1, <2>2, <2>3, <2>4
<1>6. CASE cam_i2s_reset_warmup
  <2> USE <1>6 DEF cam_i2s_reset_warmup, hw_stop
  <2>1. TypeOK'
    BY <1>0 DEF TypeOK, Switching
  <2>2. ControlInv' /\ SettingInv'
    BY DEF ControlInv, SettingInv, AppliedMeansSet, Switching
  <2>3. FreshInv' /\ FrameFits'
    BY DEF FreshInv, FrameFits, Switching, Asking, Capturing
  <2>4. WaitInv'
    BY DEF WaitInv
  <2> QED
    BY <2>1, <2>2, <2>3, <2>4
<1>7. CASE WriteWindow
  <2>1. PICK w \in {target, window, Mixed}, next \in {"jpeg", "idle"} :
           /\ SensorWrite("window", next, w, held)
           /\ next = "jpeg" => w = target
           /\ UNCHANGED <<quality, current_res, applied>>
    BY <1>7 DEF WriteWindow
  <2> USE <2>1 DEF SensorWrite
  <2>2. TypeOK'
    BY <1>0 DEF TypeOK, Switching, ControlInv, Windows, Output
  <2>3. ControlInv' /\ SettingInv'
    BY DEF ControlInv, SettingInv, AppliedMeansSet, Switching
  <2>4. FreshInv' /\ FrameFits'
    BY DEF FreshInv, FrameFits, Switching, Asking, Capturing
  <2>5. WaitInv'
    BY DEF WaitInv
  <2> QED
    BY <2>2, <2>3, <2>4, <2>5
<1>8. CASE WriteJpeg
  <2>1. PICK h \in {FALSE, held, TRUE}, next \in {"clock", "idle"} :
           /\ SensorWrite("jpeg", next, window, h)
           /\ next = "clock" => h = FALSE
           /\ UNCHANGED <<quality, current_res, applied>>
    BY <1>8 DEF WriteJpeg
  <2> USE <2>1 DEF SensorWrite
  <2>2. TypeOK'
    BY <1>0 DEF TypeOK, Switching, Windows, Output
  <2>3. ControlInv' /\ SettingInv'
    BY DEF ControlInv, SettingInv, AppliedMeansSet, Switching
  <2>4. FreshInv' /\ FrameFits'
    BY DEF FreshInv, FrameFits, Switching, Asking, Capturing
  <2>5. WaitInv'
    BY DEF WaitInv
  <2> QED
    BY <2>2, <2>3, <2>4, <2>5
<1>9. CASE WriteClock
  <2> USE <1>9 DEF WriteClock, SensorWrite
  <2>2. TypeOK'
    BY <1>0 DEF TypeOK, Switching, ControlInv, Windows, Output
  <2>3. ControlInv' /\ SettingInv'
    BY DEF ControlInv, SettingInv, AppliedMeansSet, Switching
  <2>4. FreshInv' /\ FrameFits'
    BY DEF FreshInv, FrameFits, Switching, Asking, Capturing
  <2>5. WaitInv'
    BY DEF WaitInv
  <2> QED
    BY <2>2, <2>3, <2>4, <2>5
<1> QED
  BY <1>1, <1>2, <1>3, <1>4, <1>5, <1>6, <1>7, <1>8, <1>9 DEF Http

(* The steps of a capture, up to the drain.                                *)
LEMMA InvCapture ==
    IInv /\ (Call \/ DqtEnd \/ Prepare \/ SeeBlanking \/ Restart \/ SeeDone)
        => IInv'
<1> SUFFICES ASSUME IInv,
                    Call \/ DqtEnd \/ Prepare \/ SeeBlanking \/ Restart
                         \/ SeeDone
             PROVE  IInv'
  OBVIOUS
<1>0. FlagsOK'
  BY FlagsStep DEF Next, Worker, IInv, TypeOK
<1> USE ResAssumption DEF IInv, captureVars, slotVars, sensorVars, httpVars
<1>1. CASE Call
  <2> USE <1>1 DEF Call, hw_start
  <2>1. TypeOK'
    BY <1>0 DEF TypeOK, ControlInv, Windows, Output, Capturing, Timed, Working
  <2>2. ControlInv' /\ SettingInv'
    BY DEF ControlInv, SettingInv, AppliedMeansSet, Switching, Capturing
  <2>3. FreshInv'
    BY DEF FreshInv, ControlInv, Output, Switching, Asking, Capturing
  <2>4. FrameFits' /\ WaitInv'
    BY DEF TypeOK, FrameFits, WaitInv, Asking, Capturing, Working
  <2> QED
    BY <2>1, <2>2, <2>3, <2>4
<1>2. CASE DqtEnd
  <2> USE <1>2 DEF DqtEnd, hw_stop
  <2>1. TypeOK'
    BY <1>0 DEF TypeOK, ControlInv, Windows, Output, Capturing, Timed, Working
  <2>2. ControlInv' /\ SettingInv'
    BY DEF ControlInv, SettingInv, AppliedMeansSet, Switching, Capturing
  <2>3. FreshInv'
    BY DEF FreshInv, ControlInv, Output, Switching, Asking, Capturing
  <2>4. FrameFits' /\ WaitInv'
    BY DEF TypeOK, FrameFits, WaitInv, Asking, Capturing, Working
  <2> QED
    BY <2>1, <2>2, <2>3, <2>4
<1>3. CASE Prepare
  <2> USE <1>3 DEF Prepare, CaptureTimeout
  <2>1. TypeOK'
    BY <1>0 DEF TypeOK, ControlInv, Windows, Output, Capturing, Timed, Working
  <2>2. ControlInv' /\ SettingInv'
    BY DEF ControlInv, SettingInv, AppliedMeansSet, Switching, Capturing
  <2>3. FreshInv'
    BY DEF FreshInv, ControlInv, Output, Switching, Asking, Capturing
  <2>4. FrameFits' /\ WaitInv'
    BY DEF TypeOK, FrameFits, WaitInv, Asking, Capturing, Working
  <2> QED
    BY <2>1, <2>2, <2>3, <2>4
<1>4. CASE SeeBlanking
  <2> USE <1>4 DEF SeeBlanking
  <2>1. TypeOK'
    BY <1>0 DEF TypeOK, ControlInv, Windows, Output, Capturing, Timed, Working
  <2>2. ControlInv' /\ SettingInv'
    BY DEF ControlInv, SettingInv, AppliedMeansSet, Switching, Capturing
  <2>3. FreshInv'
    BY DEF FreshInv, ControlInv, Output, Switching, Asking, Capturing
  <2>4. FrameFits' /\ WaitInv'
    BY DEF TypeOK, FrameFits, WaitInv, Asking, Capturing, Working
  <2> QED
    BY <2>1, <2>2, <2>3, <2>4
<1>5. CASE Restart
  <2> USE <1>5 DEF Restart, hw_start
  <2>1. TypeOK'
    BY <1>0 DEF TypeOK, ControlInv, Windows, Output, Capturing, Timed, Working
  <2>2. ControlInv' /\ SettingInv'
    BY DEF ControlInv, SettingInv, AppliedMeansSet, Switching, Capturing
  <2>3. FreshInv'
    BY DEF FreshInv, ControlInv, Output, Switching, Asking, Capturing
  <2>4. FrameFits' /\ WaitInv'
    BY DEF TypeOK, FrameFits, WaitInv, Asking, Capturing, Working
  <2> QED
    BY <2>1, <2>2, <2>3, <2>4
<1>6. CASE SeeDone
  <2> USE <1>6 DEF SeeDone
  <2>1. TypeOK'
    BY <1>0 DEF TypeOK, ControlInv, Windows, Output, Capturing, Timed, Working
  <2>2. ControlInv' /\ SettingInv'
    BY DEF ControlInv, SettingInv, AppliedMeansSet, Switching, Capturing
  <2>3. FreshInv'
    BY DEF FreshInv, ControlInv, Output, Switching, Asking, Capturing
  <2>4. FrameFits' /\ WaitInv'
    BY DEF TypeOK, FrameFits, WaitInv, Asking, Capturing, Working
  <2> QED
    BY <2>1, <2>2, <2>3, <2>4
<1> QED
  BY <1>1, <1>2, <1>3, <1>4, <1>5, <1>6

(* The worker's steps outside of a capture.                                *)
LEMMA InvServe ==
    IInv /\ (Begin \/ Open \/ Get \/ Send \/ Peer \/ Release) => IInv'
<1> SUFFICES ASSUME IInv, Begin \/ Open \/ Get \/ Send \/ Peer \/ Release
             PROVE  IInv'
  OBVIOUS
<1>0. FlagsOK'
  BY FlagsStep DEF Next, Worker, IInv, TypeOK
<1> USE ResAssumption DEF IInv, captureVars, slotVars, sensorVars, httpVars
<1>1. CASE Begin
  <2> USE <1>1 DEF Begin, SendTimeout
  <2>1. TypeOK'
    BY <1>0 DEF TypeOK, ControlInv, Windows, Output, Capturing, Timed, Working
  <2>2. ControlInv' /\ SettingInv'
    BY DEF ControlInv, SettingInv, AppliedMeansSet, Switching, Capturing
  <2>3. FreshInv'
    BY DEF FreshInv, ControlInv, Output, Switching, Asking, Capturing
  <2>4. FrameFits' /\ WaitInv'
    BY DEF TypeOK, FrameFits, WaitInv, Asking, Capturing, Working
  <2> QED
    BY <2>1, <2>2, <2>3, <2>4
<1>2. CASE Open
  <2> USE <1>2 DEF Open, PeerWait
  <2>1. TypeOK'
    BY <1>0 DEF TypeOK, ControlInv, Windows, Output, Capturing, Timed, Working
  <2>2. ControlInv' /\ SettingInv'
    BY DEF ControlInv, SettingInv, AppliedMeansSet, Switching, Capturing
  <2>3. FreshInv'
    BY DEF FreshInv, ControlInv, Output, Switching, Asking, Capturing
  <2>4. FrameFits' /\ WaitInv'
    BY DEF TypeOK, FrameFits, WaitInv, Asking, Capturing, Working
  <2> QED
    BY <2>1, <2>2, <2>3, <2>4
<1>3. CASE Get
  <2> USE <1>3 DEF Get, SendTimeout, Pattern
  <2>1. TypeOK'
    BY <1>0 DEF TypeOK, ControlInv, Windows, Output, Capturing, Timed, Working
  <2>2. ControlInv' /\ SettingInv'
    BY DEF ControlInv, SettingInv, AppliedMeansSet, Switching, Capturing
  <2>3. FreshInv'
    BY DEF FreshInv, ControlInv, Output, Switching, Asking, Capturing
  <2>4. FrameFits' /\ WaitInv'
    BY DEF TypeOK, FrameFits, WaitInv, Asking, Capturing, Working
  <2> QED
    BY <2>1, <2>2, <2>3, <2>4
<1>4. CASE Send
  <2> USE <1>4 DEF Send, PeerWait
  <2>1. TypeOK'
    BY <1>0 DEF TypeOK, ControlInv, Windows, Output, Capturing, Timed, Working
  <2>2. ControlInv' /\ SettingInv'
    BY DEF ControlInv, SettingInv, AppliedMeansSet, Switching, Capturing
  <2>3. FreshInv'
    BY DEF FreshInv, ControlInv, Output, Switching, Asking, Capturing
  <2>4. FrameFits' /\ WaitInv'
    BY DEF TypeOK, FrameFits, WaitInv, Asking, Capturing, Working
  <2> QED
    BY <2>1, <2>2, <2>3, <2>4
<1>5. CASE Peer
  <2> USE <1>5 DEF Peer, Cooldown
  <2>1. TypeOK'
    BY <1>0 DEF TypeOK, ControlInv, Windows, Output, Capturing, Timed, Working
  <2>2. ControlInv' /\ SettingInv'
    BY DEF ControlInv, SettingInv, AppliedMeansSet, Switching, Capturing
  <2>3. FreshInv'
    BY DEF FreshInv, ControlInv, Output, Switching, Asking, Capturing
  <2>4. FrameFits'
    BY DEF FrameFits
  <2>5. WaitInv'
    BY DEF TypeOK, WaitInv, StopBudget, PeerWait, Cooldown, Asking, Capturing,
           Working
  <2> QED
    BY <2>1, <2>2, <2>3, <2>4, <2>5
<1>6. CASE Release
  <2> USE <1>6 DEF Release
  <2>1. TypeOK'
    BY <1>0 DEF TypeOK, ControlInv, Windows, Output, Capturing, Timed, Working
  <2>2. ControlInv' /\ SettingInv'
    BY DEF ControlInv, SettingInv, AppliedMeansSet, Switching, Capturing
  <2>3. FreshInv'
    BY DEF FreshInv, ControlInv, Output, Switching, Asking, Capturing
  <2>4. FrameFits' /\ WaitInv'
    BY DEF TypeOK, FrameFits, WaitInv, Asking, Capturing, Working
  <2> QED
    BY <2>1, <2>2, <2>3, <2>4
<1> QED
  BY <1>1, <1>2, <1>3, <1>4, <1>5, <1>6

(* The end of a capture: a picture, or a failure and the test pattern.     *)
LEMMA InvReturn == IInv /\ (BlankingTimeout \/ FrameEnd) => IInv'
<1> SUFFICES ASSUME IInv, BlankingTimeout \/ FrameEnd PROVE IInv'
  OBVIOUS
<1>0. FlagsOK'
  BY FlagsStep DEF Next, Worker, IInv, TypeOK
<1> USE ResAssumption DEF IInv, captureVars, slotVars, sensorVars, httpVars,
                          hw_stop, Return, frame_source_get, SendTimeout
<1>1. CASE BlankingTimeout
  <2> USE <1>1 DEF BlankingTimeout
  <2>1. TypeOK'
    BY <1>0 DEF TypeOK, ControlInv, Windows, Switching, Capturing, Timed, Working,
                Pattern
  <2>2. ControlInv' /\ SettingInv'
    BY DEF ControlInv, SettingInv, AppliedMeansSet, Switching, Capturing
  <2>3. FreshInv'
    BY DEF FreshInv, ControlInv, Switching, Asking, Capturing
  <2>4. FrameFits'
    BY DEF FrameFits, FreshInv, TypeOK, ControlInv, Switching, Asking, Capturing,
           Pattern, NoFrame
  <2>5. WaitInv'
    BY DEF TypeOK, WaitInv, Asking, Capturing, Working
  <2> QED
    BY <2>1, <2>2, <2>3, <2>4, <2>5
<1>2. ASSUME FrameEnd, Return(FALSE, NoFrame) PROVE IInv'
  <2> USE <1>2
  <2>0. /\ wpc = "drain"
        /\ UNCHANGED <<sensorVars, header, seen, slotVars, target, budget,
                       overtaken, spent>>
        /\ \/ UNCHANGED <<warmed_up, warmedBy>>
           \/ seen # {} /\ warmed_up' = TRUE /\ warmedBy' = seen
    BY DEF FrameEnd, Empty, Filled
  <2> USE <2>0
  <2>1. TypeOK'
    BY <1>0 DEF TypeOK, ControlInv, Windows, Switching, Capturing, Timed, Working,
                Pattern
  <2>2. ControlInv' /\ SettingInv'
    BY DEF ControlInv, SettingInv, AppliedMeansSet, Switching, Capturing
  <2>3. FreshInv'
    BY DEF FreshInv, ControlInv, Switching, Asking, Capturing
  <2>4. FrameFits'
    BY DEF FrameFits, FreshInv, TypeOK, ControlInv, Switching, Asking, Capturing,
           Pattern, NoFrame
  <2>5. WaitInv'
    BY DEF TypeOK, WaitInv, Asking, Capturing, Working
  <2> QED
    BY <2>1, <2>2, <2>3, <2>4, <2>5
<1>3. ASSUME FrameEnd, NEW h \in seen \cup {header},
             Return(TRUE, [kind |-> "camera", hdr |-> h, data |-> seen]),
             seen # {}, warmed_up' = TRUE, warmedBy' = seen
      PROVE  IInv'
  <2> USE <1>3 DEF FrameEnd
  <2>1. TypeOK'
    BY <1>0 DEF TypeOK, ControlInv, Windows, Switching, Capturing, Timed, Working,
                Pictures
  <2>2. ControlInv' /\ SettingInv'
    BY DEF ControlInv, SettingInv, AppliedMeansSet, Switching, Capturing
  <2>3. FreshInv'
    BY DEF FreshInv, ControlInv, Switching, Asking, Capturing
  <2>4. FrameFits'
    BY DEF FrameFits, FreshInv, TypeOK, ControlInv, Switching, Asking, Capturing,
           Pattern, NoFrame
  <2>5. WaitInv'
    BY DEF TypeOK, WaitInv, Asking, Capturing, Working
  <2> QED
    BY <2>1, <2>2, <2>3, <2>4, <2>5
<1> QED
  BY <1>1, <1>2, <1>3 DEF FrameEnd, Empty, Filled

LEMMA InvNext == IInv /\ [Next]_vars => IInv'
<1> SUFFICES ASSUME IInv, [Next]_vars PROVE IInv'
  OBVIOUS
<1>1. CASE UNCHANGED vars
  BY <1>1 DEF vars, sensorVars, captureVars, slotVars, workerVars, httpVars,
              IInv, TypeOK, FlagsOK, ControlInv, SettingInv, AppliedMeansSet,
              FreshInv, FrameFits, WaitInv
<1>2. CASE Next
  BY <1>2, InvBoot, InvTick, InvHttp, InvCapture, InvServe, InvReturn
  DEF Next, Worker
<1> QED
  BY <1>1, <1>2

LEMMA InvAlways == Spec => []IInv
  BY InvInit, InvNext, PTL DEF Spec
-----------------------------------------------------------------------------
(* Every variable keeps to its values, and what the worker sends is a frame *)
(* of its own making: the picture or the test pattern.                     *)
THEOREM TypeCorrect == Spec => []TypeOK
<1>1. IInv => TypeOK
  BY DEF IInv
<1> QED
  BY <1>1, InvAlways, PTL

(* After a switch no capture uses the header or the warmup of the old      *)
(* window, unless the forced stop gave up on a capture in progress.        *)
THEOREM SwitchForcesWarmupHolds == Spec => []SwitchForcesWarmup
<1>1. IInv => SwitchForcesWarmup
  BY DEF IInv, FreshInv, SwitchForcesWarmup, Switching
<1> QED
  BY <1>1, InvAlways, PTL

(* No frame mixes the data, or the header, of two windows (same condition). *)
THEOREM FrameFitsHolds == Spec => []FrameFits
<1>1. IInv => FrameFits
  BY DEF IInv
<1> QED
  BY <1>1, InvAlways, PTL

(* A switch that reports success has set window, quality and port.         *)
THEOREM AppliedMeansSetHolds == Spec => []AppliedMeansSet
<1>1. IInv => AppliedMeansSet
  BY DEF IInv, SettingInv
<1> QED
  BY <1>1, InvAlways, PTL

(* The forced stop gives up only on captures and sends, and on a capture   *)
(* only after its timeout.                                                 *)
THEOREM StopSufficesHolds == Spec => []StopSuffices
<1>1. IInv => StopSuffices
  BY DEF IInv, WaitInv, TypeOK, ControlInv, StopSuffices, StopBudget, PeerWait,
         Cooldown, CaptureTimeout, Asking, Working, Timed, Capturing
<1> QED
  BY <1>1, InvAlways, PTL
-----------------------------------------------------------------------------
(* The sensor's configuration, as camera_config.c promises it.  What the   *)
(* worker and the other steps of the HTTP thread do leaves it alone.       *)
Writing == {"window", "jpeg", "clock"}

LEMMA StageValue ==
    /\ hpc = "camera_init" => Stage = "boot"
    /\ hpc \in Writing => Stage = hpc
    /\ hpc \notin Writing \cup {"camera_init"} => Stage = "idle"
    /\ hpc' = "camera_init" => Stage' = "boot"
    /\ hpc' \in Writing => Stage' = hpc'
    /\ hpc' \notin Writing \cup {"camera_init"} => Stage' = "idle"
BY DEF Stage, Writing

LEMMA Elsewhere ==
    ASSUME UNCHANGED sensorVars,
           \/ UNCHANGED <<hpc, target>>
           \/ {hpc, hpc'} \cap (Writing \cup {"camera_init"}) = {}
    PROVE  UNCHANGED Config!vars
<1>1. UNCHANGED <<window, quality, held, current_res, applied>>
  BY DEF sensorVars
<1>2. CASE UNCHANGED <<hpc, target>>
  <2>1. Stage' = Stage
    BY <1>2 DEF Stage
  <2> QED
    BY <1>1, <1>2, <2>1 DEF Config!vars
<1>3. CASE {hpc, hpc'} \cap (Writing \cup {"camera_init"}) = {}
  <2>1. Stage = "idle" /\ Stage' = "idle"
    BY <1>3, StageValue
  <2> QED
    BY <1>1, <2>1 DEF Config!vars
<1> QED
  BY <1>2, <1>3

LEMMA OthersStutter ==
    ASSUME IInv, \/ Worker \/ stream_try_start \/ Request \/ StopDone \/ StopTimeout
                 \/ Reuse \/ Tick \/ UNCHANGED vars
    PROVE  UNCHANGED Config!vars
<1>1. CASE Begin \/ Open \/ Get \/ Call \/ DqtEnd \/ Prepare \/ SeeBlanking
           \/ Restart \/ SeeDone \/ Send \/ Peer \/ Release
  <2>1. UNCHANGED sensorVars /\ UNCHANGED <<hpc, target>>
    BY <1>1 DEF Begin, Open, Get, Call, DqtEnd, Prepare, SeeBlanking, Restart, SeeDone,
                Send, Peer, Release, httpVars
  <2> QED
    BY <2>1, Elsewhere
<1>2. CASE BlankingTimeout \/ FrameEnd
  <2>1. UNCHANGED sensorVars
    BY <1>2 DEF BlankingTimeout, FrameEnd, sensorVars
  <2>2. UNCHANGED target
    BY <1>2 DEF BlankingTimeout, FrameEnd
  <2>3. \E ok, frame : Return(ok, frame)
    BY <1>2 DEF BlankingTimeout, FrameEnd, Empty, Filled
  <2>4. UNCHANGED hpc \/ (hpc = "frame_source_init" /\ hpc' = "idle")
    BY <2>3 DEF Return
  <2> QED
    BY <2>1, <2>2, <2>4, Elsewhere DEF Writing
<1>3. CASE stream_try_start \/ Reuse \/ Tick
  <2>1. UNCHANGED sensorVars /\ UNCHANGED <<hpc, target>>
    BY <1>3 DEF stream_try_start, Reuse, Tick, httpVars
  <2> QED
    BY <2>1, Elsewhere
<1>4. CASE Request \/ StopDone \/ StopTimeout
  <2>1. UNCHANGED sensorVars /\ {hpc, hpc'} \cap (Writing \cup {"camera_init"}) = {}
    BY <1>4 DEF Request, StopDone, StopTimeout, Writing
  <2> QED
    BY <2>1, Elsewhere
<1>5. CASE UNCHANGED vars
  <2>1. UNCHANGED sensorVars /\ UNCHANGED <<hpc, target>>
    BY <1>5 DEF vars, httpVars
  <2> QED
    BY <2>1, Elsewhere
<1> QED
  BY <1>1, <1>2, <1>3, <1>4, <1>5 DEF Worker

LEMMA ConfigNext == ASSUME IInv, [Next]_vars PROVE [Config!Next]_Config!vars
<1> USE DEF Writing
<1>1. CASE camera_init
  <2>1. Stage = "boot" /\ Stage' = "idle"
    BY <1>1, StageValue DEF camera_init
  <2>2. UNCHANGED current_res
    BY <1>1 DEF camera_init
  <2>3. CASE window' = Qvga /\ quality' = Qvga /\ held' = FALSE /\ applied' = TRUE
    BY <2>1, <2>2, <2>3 DEF Config!Next, Config!Booted
  <2>4. CASE /\ window' \in {Mixed, Qvga} /\ quality' \in {Mixed, Qvga}
             /\ held' \in BOOLEAN /\ UNCHANGED applied
    BY <2>1, <2>2, <2>4 DEF Config!Next, Config!Boot
  <2> QED
    BY <1>1, <2>3, <2>4 DEF camera_init
<1>2. CASE cam_i2s_reset_warmup
  <2>1. Stage = "idle" /\ Stage' = "window"
    BY <1>2, StageValue DEF cam_i2s_reset_warmup
  <2>2. target \in Res
    BY <1>2 DEF cam_i2s_reset_warmup, IInv, ControlInv, Switching
  <2> QED
    BY <1>2, <2>1, <2>2 DEF cam_i2s_reset_warmup, Config!Next, Config!Begin
<1>3. CASE WriteWindow
  <2>1. PICK w \in {target, window, Mixed}, next \in {"jpeg", "idle"} :
           /\ SensorWrite("window", next, w, held)
           /\ next = "jpeg" => w = target
           /\ UNCHANGED <<quality, current_res, applied>>
    BY <1>3 DEF WriteWindow
  <2>2. Stage = "window" /\ Stage' = next
    BY <2>1, StageValue DEF SensorWrite
  <2>3. window' = w /\ UNCHANGED <<held, target>>
    BY <2>1 DEF SensorWrite
  <2> QED
    BY <2>1, <2>2, <2>3 DEF Config!Next, Config!Window, Config!Partly, Config!Wholly
<1>4. CASE WriteJpeg
  <2>1. PICK h \in BOOLEAN, next \in {"clock", "idle"} :
           /\ SensorWrite("jpeg", next, window, h)
           /\ next = "clock" => h = FALSE
           /\ UNCHANGED <<quality, current_res, applied>>
    BY <1>4 DEF WriteJpeg
  <2>2. Stage = "jpeg" /\ Stage' = next
    BY <2>1, StageValue DEF SensorWrite
  <2>3. held' = h /\ UNCHANGED <<window, target>>
    BY <2>1 DEF SensorWrite
  <2> QED
    BY <2>1, <2>2, <2>3 DEF Config!Next, Config!Jpeg, Config!Partly, Config!Wholly
<1>5. CASE WriteClock
  <2>1. Stage = "clock" /\ Stage' = "idle"
    BY <1>5, StageValue DEF WriteClock, SensorWrite
  <2>2. UNCHANGED <<window, held>>
    BY <1>5 DEF WriteClock, SensorWrite
  <2>3. CASE quality' = target /\ current_res' = target /\ applied' = TRUE
    BY <2>1, <2>2, <2>3 DEF Config!Next, Config!Switched
  <2>4. CASE quality' \in {quality, target} /\ UNCHANGED <<current_res, applied>>
    BY <2>1, <2>2, <2>4 DEF Config!Next, Config!Clock, Config!Partly
  <2> QED
    BY <1>5, <2>3, <2>4 DEF WriteClock
<1> QED
  BY <1>1, <1>2, <1>3, <1>4, <1>5, OthersStutter DEF Next, Http

(* The switch implements what camera_config.c promises of the sensor.      *)
THEOREM ConfigStepsHold == Spec => ConfigSteps
<1>1. Init => Config!Init
  BY DEF Init, Config!Init, Stage
<1>2. IInv /\ [Next]_vars => [Config!Next]_Config!vars
  BY ConfigNext
<1> QED
  BY <1>1, <1>2, InvAlways, PTL DEF Spec, ConfigSteps, Config!Spec
-----------------------------------------------------------------------------
(* The slot: stream_try_start claims it, Begin takes it up, Release frees  *)
(* it, and nothing else is anything but a stutter.                         *)
LEMMA SlotAlone ==
    ASSUME UNCHANGED busy, wpc # "begin", wpc' # "begin"
    PROVE  UNCHANGED Slot!vars
BY DEF Slot!vars

LEMMA SlotSame ==
    ASSUME UNCHANGED <<busy, wpc>>
    PROVE  UNCHANGED Slot!vars
BY DEF Slot!vars

LEMMA SlotNext == ASSUME IInv, [Next]_vars PROVE [Slot!Next]_Slot!vars
<1>1. CASE stream_try_start
  <2>1. ~busy /\ busy' = TRUE /\ wpc' = "begin"
    BY <1>1 DEF stream_try_start
  <2>2. Slot!Claim("client")
    BY <2>1 DEF Slot!Claim
  <2> QED
    BY <2>2 DEF Slot!Next
<1>2. CASE Begin
  <2>1. wpc = "begin" /\ wpc' \in {"open", "get"} /\ UNCHANGED busy
    BY <1>2 DEF Begin, slotVars
  <2>2. busy
    BY <2>1 DEF IInv, ControlInv, Capturing
  <2>3. Slot!Serve
    BY <2>1, <2>2 DEF Slot!Serve
  <2> QED
    BY <2>3 DEF Slot!Next
<1>3. CASE Release
  <2>1. wpc \in {"refused", "cooldown"} /\ wpc' = "idle" /\ busy' = FALSE
    BY <1>3 DEF Release
  <2>2. busy
    BY <2>1 DEF IInv, ControlInv, Capturing
  <2>3. Slot!Release
    BY <2>1, <2>2 DEF Slot!Release
  <2> QED
    BY <2>3 DEF Slot!Next
<1>4. CASE Open \/ Get \/ Call \/ DqtEnd \/ Prepare \/ SeeBlanking \/ Restart \/ SeeDone
           \/ Send \/ Peer
  <2>1. UNCHANGED busy /\ wpc # "begin" /\ wpc' # "begin"
    BY <1>4 DEF Open, Get, Call, DqtEnd, Prepare, SeeBlanking, Restart, SeeDone, Send,
                Peer, slotVars
  <2> QED
    BY <2>1, SlotAlone
<1>5. CASE BlankingTimeout \/ FrameEnd
  <2>1. UNCHANGED busy /\ wpc # "begin"
    BY <1>5 DEF BlankingTimeout, FrameEnd, slotVars
  <2>2. \E ok, frame : Return(ok, frame)
    BY <1>5 DEF BlankingTimeout, FrameEnd, Empty, Filled
  <2>3. wpc' # "begin"
    BY <2>2 DEF Return
  <2> QED
    BY <2>1, <2>3, SlotAlone
<1>6. CASE camera_init
  <2>1. UNCHANGED busy /\ wpc # "begin" /\ wpc' # "begin"
    BY <1>6 DEF camera_init, slotVars, IInv, ControlInv
  <2> QED
    BY <2>1, SlotAlone
<1>7. CASE \/ Request \/ StopDone \/ StopTimeout \/ cam_i2s_reset_warmup \/ Reuse \/ Tick
           \/ WriteWindow \/ WriteJpeg \/ WriteClock \/ UNCHANGED vars
  <2>1. UNCHANGED <<busy, wpc>>
    BY <1>7 DEF Request, StopDone, StopTimeout, cam_i2s_reset_warmup, Reuse, Tick, WriteWindow,
                WriteJpeg, WriteClock, SensorWrite, vars, slotVars, workerVars
  <2> QED
    BY <2>1, SlotSame
<1> QED
  BY <1>1, <1>2, <1>3, <1>4, <1>5, <1>6, <1>7 DEF Next, Worker, Http

(* The slot keeps its promise through switches and forced stops.           *)
THEOREM SlotIsKept == Spec => SlotKept
<1>1. Init => Slot!Init
  BY DEF Init, Slot!Init
<1>2. IInv /\ [Next]_vars => [Slot!Next]_Slot!vars
  BY SlotNext
<1> QED
  BY <1>1, <1>2, InvAlways, PTL DEF Spec, SlotKept, Slot!Spec
=============================================================================
