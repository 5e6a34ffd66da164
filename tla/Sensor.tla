------------------------------- MODULE Sensor -------------------------------
(***************************************************************************)
(* The OV2640's registers as camera_init.c and camera_config.c write them  *)
(* over SCCB (camera_sccb.c) from the tables of ov2640_regs.h.             *)
(*                                                                         *)
(* An address means one register in the DSP bank and another in the sensor *)
(* bank; which bank is selected is state of the sensor, and outlives a     *)
(* reset of the processor like every register does.  Any transfer may      *)
(* fail.  ResolutionSwitch has the same operations in three coarse steps,  *)
(* against the captures that run meanwhile.                                *)
(*                                                                         *)
(* A register is named; those a table only tunes the picture with are one  *)
(* register (geometry, tuning), and so are those no table names (others).  *)
(* A value is what it does, or the resolution it is for.                   *)
(***************************************************************************)
EXTENDS Naturals, Sequences

CONSTANTS
    Res,   \* enum camera_resolution
    Qvga   \* CAM_RES_QVGA

(* A resolution is none of the other values a register may have.           *)
ASSUME SensorAssumption ==
    Qvga \in Res /\ {"old", "reset", "SRST", "mixed", "none"} \cap Res = {}

VARIABLES
    \* the sensor
    bank,         \* BANK_SEL
    regs,         \* value of each register
    \* camera_init.c, camera_config.c
    op,           \* what the program does with the sensor
    todo,         \* writes it has still to do
    target,       \* res in camera_set_resolution
    current_res,
    cam_detected,
    \* history
    booted,       \* camera_init has returned 0 since the last reset
    applied       \* so has the last call that writes a configuration

vars == <<bank, regs, op, todo, target, current_res, cam_detected, booted, applied>>

Banks == {"dsp", "sensor"}
SensorRegs == {"COM7", "COM8", "COM9", "CLKRC", "array", "others"}
DspRegs == {"R_BYPASS", "RESET", "ZMOW", "ZMOH", "ZMHH", "IMAGE_MODE", "R_DVP_SP",
            "QS", "brightness", "contrast", "geometry", "tuning"}
Regs == SensorRegs \cup DspRegs
BankOf(r) == IF r \in SensorRegs THEN "sensor" ELSE "dsp"

Sel(b) == [reg |-> "BANK_SEL", val |-> b]
Set(r, v) == [reg |-> r, val |-> v]
-----------------------------------------------------------------------------
(* The tables of ov2640_regs.h.                                            *)
DefaultRegs ==
    <<Sel("dsp"), Set("tuning", "default"),
      Sel("sensor"), Set("CLKRC", "halted"), Set("COM8", "auto"),
      Set("COM9", "gain8"), Set("array", "default"),
      Sel("dsp"), Set("RESET", "held"), Set("R_DVP_SP", "auto"),
      Set("tuning", "default")>>

UxgaRegs ==
    <<Sel("sensor"), Set("COM7", "uxga"), Set("array", "uxga"),
      Sel("dsp"), Set("R_BYPASS", "bypassed"), Set("RESET", "held"),
      Set("geometry", "uxga"), Set("R_DVP_SP", "auto"),
      Set("R_BYPASS", "enabled"), Set("RESET", "released")>>

(* Mutant: the table trusts the bank the last one has left. *)
WindowRegs_NoSelect(r) == <<Set("ZMOW", r), Set("ZMOH", r), Set("ZMHH", r)>>

WindowRegs(r) ==
    <<Sel("dsp"), Set("ZMOW", r), Set("ZMOH", r), Set("ZMHH", r)>>

(* "Must be applied AFTER resolution/window programming."                  *)
JpegRegs ==
    <<Sel("dsp"), Set("RESET", "held"), Set("IMAGE_MODE", "jpeg"),
      Set("tuning", "jpeg"), Set("RESET", "released")>>
-----------------------------------------------------------------------------
(* The sequences of camera_config.c.                                       *)
JpegSettings(r) ==
    <<Sel("sensor"), Set("CLKRC", "full"),
      Sel("dsp"), Set("R_DVP_SP", "div8"),
      Sel("dsp"), Set("QS", r)>>

ExposureSettings ==
    <<Sel("sensor"), Set("COM8", "auto"), Set("COM9", "gain32"),
      Sel("dsp"), Set("brightness", "boost"), Set("contrast", "boost")>>

(* Mutant: the sensor is not reset first. *)
SoftwareReset_None == <<>>
SoftwareReset == <<Sel("sensor"), Set("COM7", "SRST")>>

camera_configure_jpeg_qvga ==
    SoftwareReset \o DefaultRegs \o UxgaRegs \o WindowRegs(Qvga) \o JpegRegs
        \o JpegSettings(Qvga) \o ExposureSettings

(* Mutant: the JPEG coder is programmed before the window. *)
camera_set_resolution_JpegFirst(r) == JpegRegs \o WindowRegs(r) \o JpegSettings(r)

camera_set_resolution(r) == WindowRegs(r) \o JpegRegs \o JpegSettings(r)
-----------------------------------------------------------------------------
(* The sensor was powered up, or left as it was by a program before.       *)
Init ==
    /\ bank \in Banks /\ regs = [r \in Regs |-> "old"]
    /\ op = "off" /\ todo = <<>> /\ target = Qvga /\ current_res = Qvga
    /\ cam_detected = FALSE /\ booted = FALSE /\ applied = FALSE

(* What a register write does; a software reset sets every register, and   *)
(* the bank to what the sensor likes.                                      *)
Effect(w) ==
    CASE w.reg = "BANK_SEL" -> bank' = w.val /\ UNCHANGED regs
      [] w.val = "SRST" /\ bank = "sensor" ->
             bank' \in Banks /\ regs' = [r \in Regs |-> "reset"]
      [] OTHER ->
             /\ UNCHANGED bank
             /\ regs' = IF bank = BankOf(w.reg)
                        THEN [regs EXCEPT ![w.reg] = w.val] ELSE regs

(* The clock, then the power pin: camera_init gives up without either.     *)
PowerUp ==
    /\ op = "off"
    /\ op' \in {"probe", "idle"}
    /\ UNCHANGED <<bank, regs, todo, target, current_res, cam_detected, booted, applied>>

(* camera_sccb_probe selects the bank and reads the two identifiers.       *)
camera_sccb_probe ==
    /\ op = "probe"
    /\ \/ /\ bank' = "sensor" /\ cam_detected' = TRUE
          /\ op' = "boot" /\ todo' = camera_configure_jpeg_qvga
       \/ /\ bank' \in {bank, "sensor"}
          /\ op' = "idle"
          /\ UNCHANGED <<todo, cam_detected>>
    /\ UNCHANGED <<regs, target, current_res, booted, applied>>

ov2640_write_reg ==
    /\ todo # <<>>
    /\ Effect(Head(todo))
    /\ todo' = Tail(todo)
    /\ UNCHANGED <<op, target, current_res, cam_detected, booted, applied>>

(* Mutant: the rest of the sequence goes on after a failure. *)
WriteFails_GoesOn ==
    /\ todo # <<>>
    /\ todo' = Tail(todo)
    /\ UNCHANGED <<bank, regs, op, target, current_res, cam_detected, booted, applied>>

(* Mutant: the failure is returned, but only after the rest of the sequence. *)
WriteFails_Late ==
    /\ todo # <<>>
    /\ todo' = Tail(todo) /\ op' = "idle"
    /\ UNCHANGED <<bank, regs, target, current_res, cam_detected, booted, applied>>

(* A transfer fails, with or without an effect: the call returns.          *)
WriteFails ==
    /\ todo # <<>>
    /\ Effect(Head(todo)) \/ UNCHANGED <<bank, regs>>
    /\ todo' = <<>> /\ op' = "idle"
    /\ UNCHANGED <<target, current_res, cam_detected, booted, applied>>

(* camera_log_diagnostics selects both banks and looks at neither result.  *)
BootDone ==
    /\ op = "boot" /\ todo = <<>>
    /\ bank' \in Banks
    /\ op' = "idle" /\ booted' = TRUE /\ applied' = TRUE
    /\ UNCHANGED <<regs, todo, target, current_res, cam_detected>>

(* handle_api_resolution, whether or not a camera was found.               *)
SetResolution ==
    /\ op = "idle"
    /\ \E r \in Res : target' = r /\ todo' = camera_set_resolution(r)
    /\ op' = "switch" /\ applied' = FALSE
    /\ UNCHANGED <<bank, regs, current_res, cam_detected, booted>>

SwitchDone ==
    /\ op = "switch" /\ todo = <<>>
    /\ op' = "idle" /\ current_res' = target /\ applied' = TRUE
    /\ UNCHANGED <<bank, regs, todo, target, cam_detected, booted>>

(* The watchdog resets the processor, not the sensor.                      *)
Restart ==
    /\ op' = "off" /\ todo' = <<>> /\ target' = Qvga /\ current_res' = Qvga
    /\ cam_detected' = FALSE /\ booted' = FALSE /\ applied' = FALSE
    /\ regs' = [r \in Regs |-> "old"]
    /\ UNCHANGED bank

Next ==
    \/ PowerUp \/ camera_sccb_probe \/ ov2640_write_reg \/ WriteFails
    \/ BootDone \/ SetResolution \/ SwitchDone \/ Restart

Spec == Init /\ [][Next]_vars
-----------------------------------------------------------------------------
Values == Res \cup
    {"old", "reset", "default", "uxga", "jpeg", "halted", "full", "auto", "div8",
     "gain8", "gain32", "boost", "held", "released", "bypassed", "enabled"}
Writes == [reg : Regs \cup {"BANK_SEL"}, val : Values \cup Banks \cup {"SRST"}]

(* Every variable keeps to its values; only a call in progress has writes  *)
(* to do.                                                                  *)
TypeOK ==
    /\ bank \in Banks /\ regs \in [Regs -> Values]
    /\ op \in {"off", "probe", "boot", "idle", "switch"}
    /\ \A i \in DOMAIN todo : todo[i] \in Writes
    /\ todo # <<>> => op \in {"boot", "switch"}
    /\ target \in Res /\ current_res \in Res
    /\ cam_detected \in BOOLEAN /\ booted \in BOOLEAN /\ applied \in BOOLEAN

(* No register is written in the bank of another ("DSP registers (bank 0)",*)
(* "Sensor registers (bank 1)", ov2640_regs.h:25, 76), wherever a table    *)
(* broke off, whatever a reset has interrupted, and although nobody looks  *)
(* at whether the diagnostics selected theirs.                             *)
InItsBank ==
    todo # <<>> /\ Head(todo).reg # "BANK_SEL" => bank = BankOf(Head(todo).reg)

(* What a switch to a resolution writes, and what only the boot does: the  *)
(* whole sensor array and its geometry, with the DSP behind it.            *)
Shows(res) ==
    /\ \A r \in {"ZMOW", "ZMOH", "ZMHH", "QS"} : regs[r] = res
    /\ regs["IMAGE_MODE"] = "jpeg" /\ regs["RESET"] = "released"
    /\ regs["CLKRC"] = "full" /\ regs["R_DVP_SP"] = "div8"

UxgaSensor ==
    /\ regs["COM7"] = "uxga" /\ regs["array"] = "uxga"
    /\ regs["geometry"] = "uxga" /\ regs["R_BYPASS"] = "enabled"

Delivers(res) == Shows(res) /\ UxgaSensor

(* After a call that returned 0 the sensor delivers the resolution that    *)
(* camera_get_resolution reports (window, quality, JPEG coder, clock, out  *)
(* of reset, from the whole array through the DSP), whatever calls have    *)
(* failed before, if the boot has succeeded.  After a boot that broke off  *)
(* a switch has written its own part, and no more can be said: see         *)
(* UxgaFirst.                                                              *)
Configured ==
    applied => IF booted THEN Delivers(current_res) ELSE Shows(current_res)

(* "UXGA sensor resolution (needed before any windowing)"                  *)
(* (ov2640_regs.h:308): no window is written to a sensor that was found    *)
(* and is not set up for it.                                               *)
UxgaFirst ==
    cam_detected /\ todo # <<>> /\ Head(todo).reg \in {"ZMOW", "ZMOH", "ZMHH"}
        => UxgaSensor

(* After a boot that succeeded no register is what a program before has    *)
(* left, and no switch, failed ones included, undoes what only the boot    *)
(* sets: the whole sensor array, the DSP, exposure and contrast.           *)
BootLasts ==
    booted => /\ \A r \in Regs : regs[r] # "old"
              /\ UxgaSensor
              /\ regs["COM8"] = "auto" /\ regs["COM9"] = "gain32"
              /\ regs["brightness"] = "boost" /\ regs["contrast"] = "boost"
-----------------------------------------------------------------------------
(* The sensor as the rest of the program sees it.                          *)
WindowRegNames == {"ZMOW", "ZMOH", "ZMHH"}
Window ==
    IF regs["ZMOW"] \in Res /\ \A r \in WindowRegNames : regs[r] = regs["ZMOW"]
    THEN regs["ZMOW"] ELSE "mixed"
Quality == IF regs["QS"] \in Res THEN regs["QS"] ELSE "mixed"

(* The parts of camera_set_resolution: 4 steps, 5 and 6.                   *)
Part(left) ==
    IF left > 11 THEN "window" ELSE IF left > 6 THEN "jpeg" ELSE "clock"
Stage ==
    IF op = "switch" THEN Part(Len(todo)) ELSE IF op = "idle" THEN "idle" ELSE "boot"

Config == INSTANCE SensorConfig WITH
    Mixed <- "mixed", None <- "none", window <- Window, quality <- Quality,
    held <- regs["RESET"] = "held", stage <- Stage,
    target <- IF op = "switch" THEN target ELSE "none"

(* Every write is a step of the part it belongs to, and no part is begun   *)
(* before the one before is complete; a call reports success only after    *)
(* the last, and a failure leaves the later parts alone.                   *)
ConfigSteps == Config!Spec
=============================================================================
