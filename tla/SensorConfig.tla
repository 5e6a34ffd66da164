----------------------------- MODULE SensorConfig -----------------------------
(***************************************************************************)
(* What camera_init and camera_set_resolution promise of the sensor.  A    *)
(* switch programs the window, then the JPEG coder, which holds the DVP    *)
(* port in reset meanwhile, then the clock and the quality; a later part   *)
(* begins only after the part before was written completely.  A call that  *)
(* fails leaves any part of the part it was in; one that returns 0 has     *)
(* written all.  Sensor and ResolutionSwitch implement it, the one write   *)
(* by write, the other in one step for each part.                          *)
(***************************************************************************)
CONSTANTS
    Res, Qvga,
    Mixed,    \* not the value of any resolution
    None      \* no resolution

VARIABLES
    window,       \* resolution of the output window
    quality,      \* resolution whose QS is written
    held,         \* the DVP port is held in reset
    current_res,  \* camera_get_resolution
    stage,        \* "boot", "idle", or the part being written
    target,       \* resolution being written
    applied       \* the last call returned 0

vars == <<window, quality, held, current_res, stage, target, applied>>

Init ==
    /\ window = Mixed /\ quality = Mixed /\ held = FALSE
    /\ current_res = Qvga /\ stage = "boot" /\ target = None /\ applied = FALSE

(* The boot writes nothing but QVGA.                                       *)
Boot ==
    /\ stage = "boot" /\ stage' \in {"boot", "idle"}
    /\ window' \in {Mixed, Qvga} /\ quality' \in {Mixed, Qvga} /\ held' \in BOOLEAN
    /\ UNCHANGED <<current_res, target, applied>>

Booted ==
    /\ stage = "boot" /\ stage' = "idle"
    /\ window' = Qvga /\ quality' = Qvga /\ held' = FALSE /\ applied' = TRUE
    /\ UNCHANGED <<current_res, target>>

Begin ==
    /\ stage = "idle" /\ stage' = "window"
    /\ target' \in Res /\ applied' = FALSE
    /\ UNCHANGED <<window, quality, held, current_res>>

(* The call goes on, or fails.                                             *)
Partly(part) ==
    /\ stage = part
    /\ \/ stage' = part /\ target' = target
       \/ stage' = "idle" /\ target' = None
    /\ UNCHANGED <<current_res, applied>>

Wholly(part, next) ==
    /\ stage = part /\ stage' = next
    /\ UNCHANGED <<current_res, applied, target>>

Window ==
    /\ \/ Partly("window") /\ window' \in {window, Mixed, target}
       \/ Wholly("window", "jpeg") /\ window' = target
    /\ UNCHANGED <<quality, held>>

Jpeg ==
    /\ \/ Partly("jpeg") /\ held' \in BOOLEAN
       \/ Wholly("jpeg", "clock") /\ held' = FALSE
    /\ UNCHANGED <<window, quality>>

Clock ==
    /\ Partly("clock") /\ quality' \in {quality, target}
    /\ UNCHANGED <<window, held>>

Switched ==
    /\ stage = "clock" /\ stage' = "idle"
    /\ quality' = target /\ current_res' = target /\ target' = None /\ applied' = TRUE
    /\ UNCHANGED <<window, held>>

(* The processor is reset: what the registers have is not known.           *)
Restart ==
    /\ window' = Mixed /\ quality' = Mixed /\ held' = FALSE
    /\ current_res' = Qvga /\ stage' = "boot" /\ target' = None /\ applied' = FALSE

Next ==
    Boot \/ Booted \/ Begin \/ Window \/ Jpeg \/ Clock \/ Switched \/ Restart

Spec == Init /\ [][Next]_vars
=============================================================================
