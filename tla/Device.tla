------------------------------- MODULE Device -------------------------------
(***************************************************************************)
(* main.c: the program around WifiManager and LedControl.  The main thread *)
(* blinks, brings Wi-Fi, camera, HTTP server and watchdog up and then      *)
(* shows the connection state on the LED for ever; the net_mgmt thread     *)
(* changes that state under it, and the HTTP thread carries out commands.  *)
(* A main thread that hangs in a driver no longer feeds the watchdog,      *)
(* which resets the chip, and everything begins anew.                      *)
(*                                                                         *)
(* Left out: what the camera's start does to the camera (ResolutionSwitch  *)
(* has it) and the status log.                                             *)
(***************************************************************************)
EXTENDS WifiManager

CONSTANT BootBlinks     \* the 3 of main.c

ASSUME BlinksAssumption == BootBlinks \in Nat

VARIABLES
    mpc, blinks, seen,          \* of the main thread
    hpc, target, want,          \* of the HTTP thread
    pin, led_on, manual_mode,   \* of led_control.c
    stage,                      \* what the main thread does after Wi-Fi
    served,                     \* the HTTP thread runs
    wdt_channel_id,             \* TRUE: not -1, there is a channel to feed
    wdt,                        \* external: the watchdog runs
    hung                        \* external: a driver does not return to main

Led == INSTANCE LedControl

wifiVars   == vars
ledVars    == <<mpc, blinks, seen, hpc, target, want, pin, led_on, manual_mode>>
bootStages == <<stage, served, wdt_channel_id, wdt, hung>>
deviceVars == <<wifiVars, ledVars, bootStages>>

(* The rest of WifiManager's state; connected belongs to LedControl too.   *)
wifiOnly == <<extVars, ip_addr_str, disconnect_count, reconnect_count, bootVars>>

DeviceInit ==
    /\ Init /\ Led!Init
    /\ stage = "wifi" /\ served = FALSE
    /\ wdt_channel_id = FALSE /\ wdt = FALSE /\ hung = FALSE
-----------------------------------------------------------------------------
(* The main thread.                                                        *)
LedBoot ==
    /\ Led!led_control_init \/ Led!BlinkOn \/ Led!BlinkOff \/ Led!BlinkEnd
    /\ UNCHANGED <<wifiOnly, bootStages>>

(* Mutant: the connection is asked for while the LED still blinks. *)
BootWifi_First == Boot /\ UNCHANGED <<ledVars, bootStages>>

BootWifi == mpc = "wifi" /\ Boot /\ UNCHANGED <<ledVars, bootStages>>

(* The result of wifi_manager_init is 0 or an error.                       *)
BootDone ==
    /\ \/ pc = "ready" /\ Led!WifiReady
       \/ pc \in {"timedOut", "failed"} /\ Led!WifiDegraded
    /\ stage' = "camera"
    /\ UNCHANGED <<wifiOnly, served, wdt_channel_id, wdt, hung>>

(* camera_init, cam_i2s_init and frame_source_init may fail; the boot goes *)
(* on without.                                                             *)
CameraBoot ==
    /\ stage = "camera"
    /\ stage' = "http"
    /\ UNCHANGED <<wifiVars, ledVars, served, wdt_channel_id, wdt, hung>>

ServerBoot ==
    /\ stage = "http"
    /\ served' \in BOOLEAN
    /\ stage' = "watchdog"
    /\ UNCHANGED <<wifiVars, ledVars, wdt_channel_id, wdt, hung>>

(* Mutant: the channel is forgotten although the watchdog was started. *)
Channel_Forgotten(started) == FALSE

Channel(started) == started

(* No device, no channel or a failed setup: the loop runs without.         *)
WatchdogBoot ==
    /\ stage = "watchdog"
    /\ wdt' \in BOOLEAN
    /\ wdt_channel_id' = Channel(wdt')
    /\ stage' = "loop"
    /\ UNCHANGED <<wifiVars, ledVars, served, hung>>

Loop ==
    /\ stage = "loop"
    /\ Led!Look \/ Led!Beat
    /\ UNCHANGED <<wifiOnly, bootStages>>

MainThread ==
    /\ ~hung
    /\ \/ LedBoot \/ BootWifi \/ BootDone \/ CameraBoot \/ ServerBoot
       \/ WatchdogBoot \/ Loop

(* Main waits for a driver: for Wi-Fi's to connect or to tell the link's   *)
(* state, for the sensor's bus, the socket layer, the watchdog.            *)
Hang ==
    /\ ~hung /\ mpc \in {"wifi", "sleep"}
    /\ hung' = TRUE
    /\ UNCHANGED <<wifiVars, ledVars, stage, served, wdt_channel_id, wdt>>

(* Mutant: a timer feeds the watchdog. *)
Unfed_Timer == FALSE

(* Only the loop feeds it, every 5 s at least, if it knows the channel.    *)
Unfed == hung \/ ~wdt_channel_id

WatchdogReset ==
    /\ wdt /\ stage = "loop" /\ Unfed
    /\ Restart /\ Led!Restart
    /\ stage' = "wifi" /\ served' = FALSE
    /\ wdt_channel_id' = FALSE /\ wdt' = FALSE /\ hung' = FALSE

(* The other threads, and the driver.                                      *)
NetMgmt    == Handler /\ UNCHANGED <<ledVars, bootStages>>
HttpServer == served /\ Led!Http /\ UNCHANGED <<wifiOnly, bootStages>>
Network    == Driver /\ UNCHANGED <<ledVars, bootStages>>

Ended == (mpc = "ended" \/ hung) /\ UNCHANGED deviceVars

DeviceNext == \/ MainThread \/ NetMgmt \/ HttpServer \/ Network
              \/ Hang \/ WatchdogReset \/ Ended

(* The main thread has the highest priority of the application's threads   *)
(* and its sleeps end unless it hangs; net_mgmt handles its events; the    *)
(* watchdog's 30 s pass.  No command has to come or be finished, no link   *)
(* has to come up, and nothing has to hang.                                *)
DeviceSpec     == DeviceInit /\ [][DeviceNext]_deviceVars
DeviceFairSpec ==
    DeviceSpec /\ WF_deviceVars(MainThread) /\ WF_deviceVars(NetMgmt)
               /\ WF_deviceVars(WatchdogReset)
-----------------------------------------------------------------------------
(* Every variable of the program keeps to its values.                      *)
DeviceTypeOK ==
    /\ TypeOK /\ Led!TypeOK
    /\ stage \in {"wifi", "camera", "http", "watchdog", "loop"}
    /\ served \in BOOLEAN /\ wdt_channel_id \in BOOLEAN
    /\ wdt \in BOOLEAN /\ hung \in BOOLEAN

(* No heartbeat, of the boot or of the loop, undoes a command: see         *)
(* CommandHolds of LedControl.                                             *)
CommandHolds == Led!CommandHolds

(* What the LED's own module assumes of its surroundings is true of the    *)
(* program: the connection state changes only once the boot has blinked,   *)
(* and commands come only after wifi_manager_init.                         *)
ImplementsLed == Led!Spec

(* In auto mode the LED tells an address from a lost link, through the     *)
(* driver's events, connected, and the loop, whatever links, commands and  *)
(* resets there were before, as long as the main thread does not hang:     *)
(* solid on while an address lasts, and not for good while none comes.     *)
(* (After a lapse connected is stale, and the LED with it.)                *)
LedShowsLink ==
    /\ \A a \in Addrs :
         <>[](lease = a /\ want = "auto" /\ ~hung) => <>[]pin
    /\ <>[](lease = NoAddr /\ ~lapsed /\ want = "auto" /\ ~hung /\ stage = "loop")
         => []<>~pin

(* "Auto mode: main loop heartbeat (solid = connected, blink =             *)
(* disconnected)" (led_control.c:5), where connected is "connected and IP  *)
(* address is assigned" (wifi_manager.h:23): while the loop runs in auto   *)
(* mode and there is no address, the LED goes on and off again and again,  *)
(* however the address was lost.                                           *)
BlinksWhenDown ==
    <>[](lease = NoAddr /\ want = "auto" /\ ~hung /\ stage = "loop")
        => []<>pin /\ []<>~pin

(* "Hardware watchdog (30s timeout)" (README.md:12): the program never     *)
(* hangs for good, except in its boot (main.c:90 starts the watchdog after *)
(* all init) or without a watchdog that could be started ...               *)
HangEnds == <>[]hung => <>[](stage # "loop" \/ ~wdt)

(* ... and it is reset for no other reason: main feeds what it started.    *)
ResetsHangOnly == [][WatchdogReset => hung]_deviceVars
=============================================================================
