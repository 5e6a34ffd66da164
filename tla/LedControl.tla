----------------------------- MODULE LedControl -----------------------------
(***************************************************************************)
(* led_control.c and its two callers: the main thread, which shows the     *)
(* boot and then the Wi-Fi state (main.c), and the HTTP thread, which      *)
(* carries out /api/led commands (handle_api_led in http_api.c).           *)
(*                                                                         *)
(* led_control.c has no lock.  The main thread has priority 0 and the HTTP *)
(* thread 7 on one core, so a heartbeat is one step for the HTTP thread,   *)
(* while it may come between any two steps of a command.  The connection   *)
(* state is wifi_manager.c's and may change at any time.                   *)
(***************************************************************************)
EXTENDS Naturals

CONSTANT BootBlinks     \* the 3 of main.c

VARIABLES
    mpc,            \* control point of the main thread
    blinks,         \* its loop counter
    seen,           \* the argument of led_control_heartbeat
    connected,      \* wifi_manager_is_connected()
    hpc,            \* control point of the HTTP thread
    target,         \* argument of set_hw in the HTTP thread
    pin,            \* the level of the LED's pin
    led_on, manual_mode,
    want            \* history: what the last command asked for

mainVars == <<mpc, blinks, seen>>
ledVars  == <<pin, led_on, manual_mode>>
httpVars == <<hpc, target, want>>
vars     == <<mainVars, connected, httpVars, ledVars>>

Commands == {"on", "off", "toggle"}   \* those that take manual control

Init ==
    /\ mpc = "init" /\ blinks = 0 /\ seen = FALSE
    /\ connected = FALSE
    /\ hpc = "idle" /\ target = FALSE /\ want = "auto"
    /\ pin = FALSE /\ led_on = FALSE /\ manual_mode = FALSE

(* wifi_manager.c, in the net_mgmt thread, once wifi_manager_init is run.  *)
WifiChange ==
    /\ mpc \in {"wifi", "sleep", "beat"}
    /\ connected' = ~connected
    /\ UNCHANGED <<mainVars, httpVars, ledVars>>
-----------------------------------------------------------------------------
(* led_control_set and led_control_heartbeat as the main thread runs them: *)
(* nobody else is at them meanwhile.                                       *)
led_control_set(on) == pin' = on /\ led_on' = on /\ manual_mode' = TRUE

(* Mutant: the heartbeat does not look at manual_mode. *)
led_control_heartbeat_Always(on) ==
    pin' = on /\ led_on' = on /\ UNCHANGED manual_mode

led_control_heartbeat(on) ==
    /\ IF manual_mode THEN UNCHANGED <<pin, led_on>>
                      ELSE pin' = on /\ led_on' = on
    /\ UNCHANGED manual_mode

(* Without its LED the program ends.                                       *)
led_control_init ==
    /\ mpc = "init"
    /\ mpc' \in {"on", "ended"}
    /\ pin' = FALSE /\ led_on' = FALSE /\ manual_mode' = FALSE
    /\ UNCHANGED <<blinks, seen, connected, httpVars>>

BlinkOn ==
    /\ mpc = "on" /\ blinks < BootBlinks
    /\ led_control_set(TRUE)
    /\ mpc' = "off"
    /\ UNCHANGED <<blinks, seen, connected, httpVars>>

BlinkOff ==
    /\ mpc = "off"
    /\ led_control_set(FALSE)
    /\ blinks' = blinks + 1
    /\ mpc' = "on"
    /\ UNCHANGED <<seen, connected, httpVars>>

(* Mutant: manual_mode stays as it is. *)
led_control_auto_Keep == UNCHANGED manual_mode
led_control_auto      == manual_mode' = FALSE

BlinkEnd ==
    /\ mpc = "on" /\ blinks >= BootBlinks
    /\ led_control_auto
    /\ mpc' = "wifi"
    /\ UNCHANGED <<blinks, seen, connected, httpVars, pin, led_on>>

(* wifi_manager_init returned: with an address (lost again perhaps), or    *)
(* without.  The camera's start leaves the LED alone; with                 *)
(* http_server_start commands can come.                                    *)
WifiReady ==
    /\ mpc = "wifi"
    /\ led_control_heartbeat(TRUE)
    /\ mpc' = "sleep"
    /\ UNCHANGED <<blinks, seen, connected, httpVars>>

WifiDegraded ==
    /\ mpc = "wifi"
    /\ mpc' = "sleep"
    /\ UNCHANGED <<blinks, seen, connected, httpVars, ledVars>>

(* The main loop: the connection state is read, then passed on.            *)
Look ==
    /\ mpc = "sleep"
    /\ seen' = connected
    /\ mpc' = "beat"
    /\ UNCHANGED <<blinks, connected, httpVars, ledVars>>

Beat ==
    /\ mpc = "beat"
    /\ led_control_heartbeat(seen)
    /\ mpc' = "sleep"
    /\ UNCHANGED <<blinks, seen, connected, httpVars>>

Main == \/ led_control_init \/ BlinkOn \/ BlinkOff \/ BlinkEnd
        \/ WifiReady \/ WifiDegraded \/ Look \/ Beat
-----------------------------------------------------------------------------
(* handle_api_led, in the HTTP thread, while the main thread sleeps.       *)

(* led_control_set and led_control_toggle set manual_mode first.           *)
Command(c) ==
    /\ mpc = "sleep" /\ hpc = "idle"
    /\ manual_mode' = TRUE
    /\ want' = IF c # "toggle" THEN c ELSE IF pin THEN "off" ELSE "on"
    /\ target' = IF c = "toggle" THEN target ELSE c = "on"
    /\ hpc' = IF c = "toggle" THEN "toggle" ELSE "pin"
    /\ UNCHANGED <<mainVars, connected, pin, led_on>>

(* led_control_toggle reads led_on for the argument of set_hw.             *)
Toggle ==
    /\ mpc = "sleep" /\ hpc = "toggle"
    /\ target' = ~led_on
    /\ hpc' = "pin"
    /\ UNCHANGED <<mainVars, connected, want, ledVars>>

(* set_hw: the pin, then led_on.                                           *)
SetPin ==
    /\ mpc = "sleep" /\ hpc = "pin"
    /\ pin' = target
    /\ hpc' = "state"
    /\ UNCHANGED <<mainVars, connected, target, want, led_on, manual_mode>>

SetState ==
    /\ mpc = "sleep" /\ hpc = "state"
    /\ led_on' = target
    /\ hpc' = "reply"
    /\ UNCHANGED <<mainVars, connected, target, want, pin, manual_mode>>

AutoCommand ==
    /\ mpc = "sleep" /\ hpc = "idle"
    /\ led_control_auto
    /\ want' = "auto"
    /\ hpc' = "reply"
    /\ UNCHANGED <<mainVars, connected, target, pin, led_on>>

(* led_on and manual_mode are read for the answer.                         *)
Reply ==
    /\ mpc = "sleep" /\ hpc = "reply"
    /\ hpc' = "idle"
    /\ UNCHANGED <<mainVars, connected, target, want, ledVars>>

Http == \/ \E c \in Commands : Command(c)
        \/ Toggle \/ SetPin \/ SetState \/ AutoCommand \/ Reply

Ended == mpc = "ended" /\ UNCHANGED vars

(* The watchdog resets the chip.                                           *)
Restart ==
    /\ mpc' = "init" /\ blinks' = 0 /\ seen' = FALSE
    /\ connected' = FALSE
    /\ hpc' = "idle" /\ target' = FALSE /\ want' = "auto"
    /\ pin' = FALSE /\ led_on' = FALSE /\ manual_mode' = FALSE

Next == Main \/ Http \/ WifiChange \/ Ended \/ Restart

Spec == Init /\ [][Next]_vars
-----------------------------------------------------------------------------
(* Every variable keeps to its values.                                     *)
TypeOK ==
    /\ mpc \in {"init", "on", "off", "wifi", "sleep", "beat", "ended"}
    /\ blinks \in 0 .. BootBlinks
    /\ seen \in BOOLEAN /\ connected \in BOOLEAN /\ target \in BOOLEAN
    /\ pin \in BOOLEAN /\ led_on \in BOOLEAN /\ manual_mode \in BOOLEAN
    /\ hpc \in {"idle", "toggle", "pin", "state", "reply"}
    /\ want \in {"on", "off", "auto"}

(* From the answer to an on, off or toggle command to the next command the *)
(* LED is as the command left it, and led_on tells it, whatever heartbeats *)
(* come in between or came in the middle of the command; a toggle has      *)
(* inverted what the LED showed when manual mode began.                    *)
CommandHolds == hpc \in {"idle", "reply"} /\ want # "auto" =>
    manual_mode /\ led_on = pin /\ (pin <=> want = "on")

=============================================================================
