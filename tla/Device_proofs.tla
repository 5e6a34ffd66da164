---------------------------- MODULE Device_proofs ----------------------------
(***************************************************************************)
(* Proofs about Device: what WifiManager and LedControl promise on their   *)
(* own, they promise within the program.                                   *)
(***************************************************************************)
EXTENDS Device, WifiManager_proofs

(* Every step of the program is a step of wifi_manager.c and its driver or *)
(* leaves its state alone.                                                 *)
LEMMA WifiStep == [DeviceNext]_deviceVars => [Next]_vars
<1> SUFFICES ASSUME [DeviceNext]_deviceVars PROVE [Next]_vars
  OBVIOUS
<1> USE DEF vars, wifiOnly, wifiVars
<1>1. CASE LedBoot
  BY <1>1 DEF LedBoot, mgrVars, Led!led_control_init, Led!BlinkOn, Led!BlinkOff, Led!BlinkEnd
<1>2. CASE BootWifi
  BY <1>2 DEF BootWifi, Next
<1>3. CASE BootDone
  BY <1>3 DEF BootDone, mgrVars, Led!WifiReady, Led!WifiDegraded
<1>4. CASE Loop
  BY <1>4 DEF Loop, mgrVars, Led!Look, Led!Beat
<1>5. CASE NetMgmt \/ Network
  BY <1>5 DEF NetMgmt, Network, Next
<1>6. CASE HttpServer
  BY <1>6 DEF HttpServer, mgrVars, Led!Http, Led!Command, Led!Toggle, Led!SetPin,
              Led!SetState, Led!AutoCommand, Led!Reply
<1>7. CASE UNCHANGED deviceVars
  BY <1>7 DEF deviceVars
<1>8. CASE CameraBoot \/ ServerBoot \/ WatchdogBoot \/ Hang
  BY <1>8 DEF CameraBoot, ServerBoot, WatchdogBoot, Hang
<1>9. CASE WatchdogReset
  BY <1>9 DEF WatchdogReset, Next
<1> QED
  BY <1>1, <1>2, <1>3, <1>4, <1>5, <1>6, <1>7, <1>8, <1>9 DEF DeviceNext, MainThread, Ended

(* The program implements WifiManager.                                     *)
THEOREM ImplementsWifi == DeviceSpec => Spec
<1>1. DeviceInit => Init
  BY DEF DeviceInit
<1> QED
  BY <1>1, WifiStep, PTL DEF DeviceSpec, Spec

(* Within the program, too, as soon as all events are handled an address   *)
(* is reported, and only a lapse leaves a connection without one.          *)
THEOREM DeviceSettles == DeviceSpec => []Settled
BY ImplementsWifi, StateSettles, PTL
-----------------------------------------------------------------------------
(* LedControl on its own, for any number of boot blinks.                   *)

(* Manual mode is on from the first step of a command, so that no          *)
(* heartbeat changes the LED between that step and the last; what the      *)
(* command has read and set so far agrees with what it was to do.          *)
ManualInv ==
    /\ want \in {"on", "off", "auto"}
    /\ hpc \in {"idle", "toggle", "pin", "state", "reply"}
    /\ mpc \notin {"sleep", "beat"} => hpc = "idle" /\ want = "auto"
    /\ want # "auto" => manual_mode
    /\ hpc \in {"toggle", "pin", "state"} => want # "auto"
    /\ hpc = "toggle" => (pin <=> want = "off")
    /\ hpc \in {"pin", "state"} => (target <=> want = "on")
    /\ hpc = "state" => pin = target
    /\ hpc # "state" => led_on = pin

LedInv == ManualInv /\ Led!CommandHolds

LEMMA LedInit == Led!Init => LedInv
BY DEF Led!Init, LedInv, ManualInv, Led!CommandHolds

(* The main thread's steps.                                                *)
LEMMA LedMain == ASSUME LedInv, Led!Main PROVE LedInv'
<1> USE DEF LedInv, ManualInv, Led!CommandHolds, Led!httpVars, Led!ledVars
<1>1. CASE Led!led_control_init
  BY <1>1 DEF Led!led_control_init
<1>2. CASE Led!BlinkOn \/ Led!BlinkOff
  BY <1>2 DEF Led!BlinkOn, Led!BlinkOff, Led!led_control_set
<1>3. CASE Led!BlinkEnd
  BY <1>3 DEF Led!BlinkEnd, Led!led_control_auto
<1>4. CASE Led!WifiReady \/ Led!WifiDegraded
  BY <1>4 DEF Led!WifiReady, Led!WifiDegraded, Led!led_control_heartbeat
<1>5. CASE Led!Look
  BY <1>5 DEF Led!Look
<1>6. CASE Led!Beat
  BY <1>6 DEF Led!Beat, Led!led_control_heartbeat
<1> QED
  BY <1>1, <1>2, <1>3, <1>4, <1>5, <1>6 DEF Led!Main

(* The HTTP thread's steps.                                                *)
LEMMA LedHttp == ASSUME LedInv, Led!Http PROVE LedInv'
<1> USE DEF LedInv, ManualInv, Led!CommandHolds, Led!mainVars, Led!ledVars
<1>1. ASSUME NEW c \in Led!Commands, Led!Command(c) PROVE LedInv'
  <2>1. CASE c = "toggle"
    BY <1>1, <2>1 DEF Led!Command
  <2>2. CASE c # "toggle"
    <3>1. /\ want' = c /\ c \in {"on", "off"}
          /\ target' = (c = "on") /\ hpc' = "pin"
      BY <1>1, <2>2 DEF Led!Command, Led!Commands
    <3>2. target' <=> want' = "on"
      BY <3>1
    <3>3. ManualInv'
      BY <1>1, <3>1, <3>2 DEF Led!Command
    <3> QED
      BY <3>1, <3>3
  <2> QED
    BY <2>1, <2>2
<1>2. CASE Led!Toggle
  <2>1. pin <=> want = "off"
    BY <1>2 DEF Led!Toggle
  <2>2. led_on = pin /\ target' = ~led_on
    BY <1>2 DEF Led!Toggle
  <2>3. want' = want /\ (want = "on" <=> ~(want = "off"))
    BY <1>2 DEF Led!Toggle
  <2>4. target' <=> want' = "on"
    BY ONLY <2>1, <2>2, <2>3, Zenon
  <2> QED
    BY <1>2, <2>4 DEF Led!Toggle
<1>3. CASE Led!SetPin
  BY <1>3 DEF Led!SetPin
<1>4. CASE Led!SetState
  BY <1>4 DEF Led!SetState
<1>5. CASE Led!AutoCommand
  BY <1>5 DEF Led!AutoCommand, Led!led_control_auto
<1>6. CASE Led!Reply
  BY <1>6 DEF Led!Reply
<1> QED
  BY <1>1, <1>2, <1>3, <1>4, <1>5, <1>6 DEF Led!Http

LEMMA LedNext == LedInv /\ [Led!Next]_(Led!vars) => LedInv'
<1> SUFFICES ASSUME LedInv, [Led!Next]_(Led!vars) PROVE LedInv'
  OBVIOUS
<1>1. CASE Led!WifiChange
  BY <1>1 DEF Led!WifiChange, LedInv, ManualInv, Led!CommandHolds,
              Led!mainVars, Led!httpVars, Led!ledVars
<1>2. CASE UNCHANGED Led!vars
  BY <1>2 DEF Led!vars, LedInv, ManualInv, Led!CommandHolds,
              Led!mainVars, Led!httpVars, Led!ledVars
<1>3. CASE Led!Restart
  <2>1. Led!Init' => LedInv'
    BY LedInit, PTL
  <2> QED
    BY <1>3, <2>1 DEF Led!Restart, Led!Init
<1> QED
  BY <1>1, <1>2, <1>3, LedMain, LedHttp DEF Led!Next, Led!Ended

(* What an on, off or toggle command set stays until the next command,     *)
(* although led_control.c shares its state between two threads unlocked.   *)
THEOREM LedCommandsHold == Led!Spec => []Led!CommandHolds
<1>1. LedInv => Led!CommandHolds
  BY DEF LedInv
<1> QED
  BY LedInit, LedNext, <1>1, PTL DEF Led!Spec
-----------------------------------------------------------------------------
(* The counter of the boot's loop stays within its bound, because the LED  *)
(* is lit only below it.                                                   *)
LedTypeInv == Led!TypeOK /\ (mpc = "off" => blinks < BootBlinks)

LEMMA LedTypeNext ==
    ASSUME BootBlinks \in Nat, LedTypeInv, [Led!Next]_(Led!vars)
    PROVE  LedTypeInv'
<1> USE DEF LedTypeInv, Led!TypeOK, Led!mainVars, Led!httpVars, Led!ledVars
<1>1. CASE Led!Main
  <2>1. CASE Led!led_control_init
    BY <2>1 DEF Led!led_control_init
  <2>2. CASE Led!BlinkOn
    BY <2>2 DEF Led!BlinkOn, Led!led_control_set
  <2>3. CASE Led!BlinkOff
    <3>1. blinks' \in 0 .. BootBlinks
      BY <2>3 DEF Led!BlinkOff
    <3> QED
      BY <2>3, <3>1, Zenon DEF Led!BlinkOff, Led!led_control_set
  <2>4. CASE Led!BlinkEnd
    BY <2>4 DEF Led!BlinkEnd, Led!led_control_auto
  <2>5. CASE Led!WifiReady
    BY <2>5 DEF Led!WifiReady, Led!led_control_heartbeat
  <2>6. CASE Led!WifiDegraded
    BY <2>6 DEF Led!WifiDegraded
  <2>7. CASE Led!Look
    BY <2>7 DEF Led!Look
  <2>8. CASE Led!Beat
    BY <2>8 DEF Led!Beat, Led!led_control_heartbeat
  <2> QED
    BY <1>1, <2>1, <2>2, <2>3, <2>4, <2>5, <2>6, <2>7, <2>8 DEF Led!Main
<1>2. CASE Led!Http
  <2>1. ASSUME NEW c \in Led!Commands, Led!Command(c) PROVE LedTypeInv'
    <3>1. want' \in {"on", "off"} /\ target' \in BOOLEAN /\ hpc' \in {"toggle", "pin"}
      BY <2>1 DEF Led!Command, Led!Commands
    <3> QED
      BY <2>1, <3>1 DEF Led!Command
  <2>2. CASE Led!Toggle
    BY <2>2 DEF Led!Toggle
  <2>3. CASE Led!SetPin
    BY <2>3 DEF Led!SetPin
  <2>4. CASE Led!SetState
    BY <2>4 DEF Led!SetState
  <2>5. CASE Led!AutoCommand
    BY <2>5 DEF Led!AutoCommand, Led!led_control_auto
  <2>6. CASE Led!Reply
    BY <2>6 DEF Led!Reply
  <2> QED
    BY <1>2, <2>1, <2>2, <2>3, <2>4, <2>5, <2>6 DEF Led!Http
<1>3. CASE Led!WifiChange
  BY <1>3 DEF Led!WifiChange
<1>4. CASE Led!Restart
  <2>1. blinks' \in 0 .. BootBlinks
    BY <1>4 DEF Led!Restart
  <2> QED
    BY <1>4, <2>1, Zenon DEF Led!Restart
<1>5. CASE UNCHANGED Led!vars
  BY <1>5 DEF Led!vars
<1> QED
  BY <1>1, <1>2, <1>3, <1>4, <1>5 DEF Led!Next, Led!Ended

(* The type invariant, for any number of boot blinks.                      *)
THEOREM LedTypeCorrect == BootBlinks \in Nat => (Led!Spec => []Led!TypeOK)
<1> SUFFICES ASSUME BootBlinks \in Nat PROVE Led!Spec => []Led!TypeOK
  OBVIOUS
<1>1. Led!Init => LedTypeInv
  <2>1. Led!Init => blinks \in 0 .. BootBlinks
    BY DEF Led!Init
  <2> QED
    BY <2>1, Zenon DEF Led!Init, LedTypeInv, Led!TypeOK
<1>2. LedTypeInv /\ [Led!Next]_(Led!vars) => LedTypeInv'
  BY LedTypeNext
<1>3. LedTypeInv => Led!TypeOK
  BY DEF LedTypeInv
<1> QED
  BY <1>1, <1>2, <1>3, PTL DEF Led!Spec

-----------------------------------------------------------------------------
(* Within the program.                                                     *)

(* Until the boot has blinked, no connection was asked for, no event       *)
(* raised, and the connection state has not changed.                       *)
OrderInv ==
    /\ mpc \in {"init", "on", "off", "ended"} => pc = "connect"
    /\ pc = "connect" => queue = <<>>
    /\ connected \in BOOLEAN

LEMMA OrderNext == OrderInv /\ [DeviceNext]_deviceVars => OrderInv'
<1> SUFFICES ASSUME OrderInv, [DeviceNext]_deviceVars PROVE OrderInv'
  OBVIOUS
<1> USE DEF OrderInv, wifiOnly, wifiVars, vars, extVars, mgrVars, bootVars, ledVars
<1>1. CASE LedBoot
  BY <1>1 DEF LedBoot, Led!led_control_init, Led!BlinkOn, Led!BlinkOff, Led!BlinkEnd
<1>2. CASE BootWifi
  BY <1>2 DEF BootWifi, Boot, wifi_connect, TakeSem, TakeTimeout, SetPs
<1>3. CASE BootDone
  BY <1>3 DEF BootDone, Led!WifiReady, Led!WifiDegraded
<1>4. CASE Loop
  BY <1>4 DEF Loop, Led!Look, Led!Beat
<1>5. CASE NetMgmt
  BY <1>5 DEF NetMgmt, Handler, wifi_event_handler, ipv4_event_handler, Takes
<1>6. CASE Network
  <2>1. pc # "connect" /\ UNCHANGED <<pc, connected, mpc>>
    BY <1>6 DEF Network, Driver, LinkLost, LeaseLost, Assign, Asked
  <2> QED
    BY <2>1
<1>7. CASE HttpServer
  <2>1. UNCHANGED <<pc, queue, connected, mpc>>
    BY <1>7 DEF HttpServer, Led!Http, Led!Command, Led!Toggle, Led!SetPin,
                Led!SetState, Led!AutoCommand, Led!Reply, Led!mainVars
  <2> QED
    BY <2>1
<1>8. CASE UNCHANGED deviceVars
  BY <1>8 DEF deviceVars
<1>9. CASE CameraBoot \/ ServerBoot \/ WatchdogBoot \/ Hang
  BY <1>9 DEF CameraBoot, ServerBoot, WatchdogBoot, Hang
<1>10. CASE WatchdogReset
  BY <1>10 DEF WatchdogReset, Restart, Led!Restart
<1> QED
  BY <1>1, <1>2, <1>3, <1>4, <1>5, <1>6, <1>7, <1>8, <1>9, <1>10
     DEF DeviceNext, MainThread, Ended

(* A step of the program is a step of LedControl: a change of connected by *)
(* an event is WifiChange, all else of Wi-Fi a stutter.                    *)
LEMMA LedStep ==
    ASSUME OrderInv, OrderInv', mpc \in {"init", "on", "off", "wifi", "sleep", "beat", "ended"},
           [DeviceNext]_deviceVars
    PROVE  [Led!Next]_(Led!vars)
<1> USE DEF ledVars, Led!vars, Led!mainVars, Led!httpVars, Led!ledVars
<1>1. CASE LedBoot \/ BootDone \/ Loop
  BY <1>1 DEF LedBoot, BootDone, Loop, Led!Next, Led!Main
<1>2. CASE BootWifi
  BY <1>2 DEF BootWifi, Boot, wifi_connect, TakeSem, TakeTimeout, SetPs, mgrVars
<1>3. CASE NetMgmt
  <2>1. mpc \in {"wifi", "sleep", "beat"}
    BY <1>3 DEF OrderInv, NetMgmt, Handler, wifi_event_handler, ipv4_event_handler, Takes
  <2>2. connected' = connected \/ connected' = ~connected
    BY DEF OrderInv
  <2> QED
    BY <1>3, <2>1, <2>2 DEF NetMgmt, Led!Next, Led!WifiChange
<1>4. CASE Network
  BY <1>4 DEF Network, Driver, LinkLost, LeaseLost, Assign, mgrVars
<1>5. CASE HttpServer
  BY <1>5 DEF HttpServer, Led!Next
<1>6. CASE UNCHANGED deviceVars
  BY <1>6 DEF deviceVars, wifiVars, vars, mgrVars
<1>7. CASE CameraBoot \/ ServerBoot \/ WatchdogBoot \/ Hang
  BY <1>7 DEF CameraBoot, ServerBoot, WatchdogBoot, Hang, wifiVars, vars, mgrVars
<1>8. CASE WatchdogReset
  BY <1>8 DEF WatchdogReset, Led!Next
<1> QED
  BY <1>1, <1>2, <1>3, <1>4, <1>5, <1>6, <1>7, <1>8 DEF DeviceNext, MainThread, Ended

(* The main thread's control point.                                        *)
MpcInv == mpc \in {"init", "on", "off", "wifi", "sleep", "beat", "ended"}

LEMMA MpcNext == MpcInv /\ [DeviceNext]_deviceVars => MpcInv'
<1> SUFFICES ASSUME MpcInv, [DeviceNext]_deviceVars PROVE MpcInv'
  OBVIOUS
<1>1. CASE LedBoot \/ BootDone \/ Loop
  BY <1>1 DEF MpcInv, LedBoot, BootDone, Loop, Led!led_control_init, Led!BlinkOn,
     Led!BlinkOff, Led!BlinkEnd, Led!WifiReady, Led!WifiDegraded, Led!Look, Led!Beat
<1>2. CASE BootWifi \/ NetMgmt \/ Network
  BY <1>2 DEF MpcInv, BootWifi, NetMgmt, Network, ledVars
<1>3. CASE HttpServer
  BY <1>3 DEF MpcInv, HttpServer, Led!Http, Led!Command, Led!Toggle, Led!SetPin,
              Led!SetState, Led!AutoCommand, Led!Reply, Led!mainVars
<1>4. CASE UNCHANGED deviceVars
  BY <1>4 DEF MpcInv, deviceVars, ledVars
<1>5. CASE CameraBoot \/ ServerBoot \/ WatchdogBoot \/ Hang
  BY <1>5 DEF MpcInv, CameraBoot, ServerBoot, WatchdogBoot, Hang, ledVars
<1>6. CASE WatchdogReset
  BY <1>6 DEF MpcInv, WatchdogReset, Led!Restart
<1> QED
  BY <1>1, <1>2, <1>3, <1>4, <1>5, <1>6 DEF DeviceNext, MainThread, Ended

(* The program keeps the order that LedControl takes for granted.          *)
THEOREM LedRefinement == DeviceSpec => ImplementsLed
<1>1. DeviceInit => OrderInv /\ MpcInv /\ Led!Init
  BY DEF DeviceInit, Init, Led!Init, OrderInv, MpcInv
<1>2. OrderInv /\ OrderInv' /\ MpcInv /\ [DeviceNext]_deviceVars
        => [Led!Next]_(Led!vars)
  BY LedStep DEF MpcInv
<1> QED
  BY <1>1, <1>2, OrderNext, MpcNext, PTL DEF DeviceSpec, ImplementsLed, Led!Spec

(* Within the program, too, the LED stays as the last command left it.     *)
THEOREM DeviceCommandsHold == DeviceSpec => []CommandHolds
BY LedRefinement, LedCommandsHold, PTL DEF ImplementsLed, CommandHolds

(* The type invariant of the program, watchdog and boot included.          *)
StageOK ==
    /\ stage \in {"wifi", "camera", "http", "watchdog", "loop"}
    /\ served \in BOOLEAN /\ wdt_channel_id \in BOOLEAN
    /\ wdt \in BOOLEAN /\ hung \in BOOLEAN

(* Once the loop runs, a watchdog that runs has a channel the loop feeds.  *)
FeedInv == stage = "loop" => wdt_channel_id = wdt

LEMMA StageNext == StageOK /\ FeedInv /\ [DeviceNext]_deviceVars => StageOK' /\ FeedInv'
<1> SUFFICES ASSUME StageOK, FeedInv, [DeviceNext]_deviceVars PROVE StageOK' /\ FeedInv'
  OBVIOUS
<1> USE DEF StageOK, FeedInv, bootStages
<1>1. CASE LedBoot \/ BootWifi \/ Loop \/ NetMgmt \/ HttpServer \/ Network
  BY <1>1 DEF LedBoot, BootWifi, Loop, NetMgmt, HttpServer, Network
<1>2. CASE BootDone
  BY <1>2 DEF BootDone
<1>3. CASE CameraBoot \/ ServerBoot
  BY <1>3 DEF CameraBoot, ServerBoot
<1>4. CASE WatchdogBoot
  BY <1>4 DEF WatchdogBoot, Channel
<1>5. CASE Hang
  BY <1>5 DEF Hang
<1>6. CASE WatchdogReset
  BY <1>6 DEF WatchdogReset
<1>7. CASE UNCHANGED deviceVars
  BY <1>7 DEF deviceVars
<1> QED
  BY <1>1, <1>2, <1>3, <1>4, <1>5, <1>6, <1>7 DEF DeviceNext, MainThread, Ended

LEMMA StageInvariant == DeviceSpec => [](StageOK /\ FeedInv)
<1>1. DeviceInit => StageOK /\ FeedInv
  BY DEF DeviceInit, StageOK, FeedInv
<1> QED
  BY <1>1, StageNext, PTL DEF DeviceSpec

(* Every variable of the program keeps to its values, for any addresses,   *)
(* queue, number of blinks and disconnections.                             *)
THEOREM DeviceTypes == DeviceSpec => []DeviceTypeOK
<1>1. Led!Spec => []Led!TypeOK
  BY LedTypeCorrect, BlinksAssumption
<1>2. TypeOK /\ Led!TypeOK /\ StageOK => DeviceTypeOK
  BY DEF DeviceTypeOK, StageOK
<1> QED
  BY ImplementsWifi, TypeCorrect, LedRefinement, StageInvariant,
     <1>1, <1>2, PTL DEF ImplementsLed

(* The counters agree within the program, too.                             *)
THEOREM DeviceCounters == DeviceSpec => []Counters
BY ImplementsWifi, CountersAgree, PTL

(* The watchdog resets a program that hangs, and no other.                 *)
THEOREM ResetsAreHangs == DeviceSpec => ResetsHangOnly
<1>1. StageOK /\ FeedInv /\ [DeviceNext]_deviceVars
        => [WatchdogReset => hung]_deviceVars
  BY DEF StageOK, FeedInv, WatchdogReset, Unfed
<1> QED
  BY <1>1, StageInvariant, PTL DEF DeviceSpec, ResetsHangOnly
=============================================================================
