----------------------------- MODULE WifiManager -----------------------------
(***************************************************************************)
(* wifi_manager.c: the connection state that the rest of the program sees, *)
(* kept up to date by two net_mgmt event handlers, and the boot-time wait  *)
(* for the first address.                                                  *)
(*                                                                         *)
(* The driver, the DHCP client and the network interface are external: the *)
(* interface has a DHCP address or none; a new address, a lost link and a  *)
(* failed attempt to associate each put an event in the queue of the       *)
(* net_mgmt thread, but an address lost with the link up puts none there   *)
(* that the program asked for.  A handler runs later and reads the         *)
(* interface as it is then.                                                *)
(* Left out: the connect results, which are only logged, and the link      *)
(* information of wifi_manager_get_link_info, which is asked of the driver.*)
(***************************************************************************)
EXTENDS Naturals, Sequences, FiniteSets

CONSTANTS
    Addrs,      \* addresses that DHCP may assign
    NoAddr,     \* the interface has none; "0.0.0.0" for ip_addr_str
    QueueSize,  \* CONFIG_NET_MGMT_EVENT_QUEUE_SIZE
    MaxDrops    \* bound on the disconnect events of a behaviour

ASSUME ConstAssumption ==
    /\ NoAddr \notin Addrs
    /\ QueueSize \in Nat \ {0} /\ MaxDrops \in Nat

VARIABLES
    lease,             \* external: DHCP address of the interface
    lapsed,            \* history: it was lost last with the link up
    queue,             \* external: net_mgmt events not yet handled
    drops,             \* history: disconnect events raised
    connected, ip_addr_str, disconnect_count, reconnect_count,
    wifi_connected_sem,
    pc,                \* control point of wifi_manager_init
    powerSave          \* the driver saves power (its default)

extVars  == <<lease, lapsed, queue, drops>>
mgrVars  == <<connected, ip_addr_str, disconnect_count, reconnect_count>>
bootVars == <<wifi_connected_sem, pc, powerSave>>
vars     == <<extVars, mgrVars, bootVars>>

Init ==
    /\ lease = NoAddr /\ lapsed = FALSE /\ queue = <<>> /\ drops = 0
    /\ connected = FALSE /\ ip_addr_str = NoAddr
    /\ disconnect_count = 0 /\ reconnect_count = 0
    /\ wifi_connected_sem = 0 /\ pc = "connect" /\ powerSave = TRUE
-----------------------------------------------------------------------------
(* The driver and DHCP, once a connection was asked for: an address is     *)
(* assigned or changed; the link is lost or an attempt to get it back      *)
(* fails, and the address goes with it (CONFIG_ESP32_WIFI_STA_RECONNECT    *)
(* keeps trying).                                                          *)
Asked == pc \notin {"connect", "failed"}
Raise(e) == Len(queue) < QueueSize /\ queue' = Append(queue, e)

Assign(a) ==
    /\ Asked /\ lease # a
    /\ lease' = a /\ lapsed' = FALSE
    /\ Raise("addr_add")
    /\ UNCHANGED <<drops, mgrVars, bootVars>>

LinkLost ==
    /\ Asked /\ drops < MaxDrops
    /\ lease' = NoAddr /\ lapsed' = FALSE
    /\ drops' = drops + 1
    /\ Raise("disconnect")
    /\ UNCHANGED <<mgrVars, bootVars>>

(* The lease expires or is refused while the link stays up: that raises    *)
(* NET_EVENT_IPV4_ADDR_DEL only, for which no handler is registered.       *)
LeaseLost ==
    /\ Asked /\ lease # NoAddr
    /\ lease' = NoAddr /\ lapsed' = TRUE
    /\ UNCHANGED <<queue, drops, mgrVars, bootVars>>
-----------------------------------------------------------------------------
(* The event handlers, in the net_mgmt thread, in the order of the events. *)

Takes(e) == queue # <<>> /\ Head(queue) = e /\ queue' = Tail(queue)

(* Mutant: a disconnection is only counted. *)
wifi_event_handler_Count ==
    /\ Takes("disconnect")
    /\ disconnect_count' = disconnect_count + 1
    /\ UNCHANGED <<lease, lapsed, drops, connected, ip_addr_str,
                   reconnect_count, bootVars>>

wifi_event_handler ==
    /\ Takes("disconnect")
    /\ disconnect_count' = disconnect_count + 1
    /\ connected' = FALSE
    /\ UNCHANGED <<lease, lapsed, drops, ip_addr_str, reconnect_count, bootVars>>

(* Mutant: every new address after a disconnection is a reconnection. *)
Reconnected_Any == disconnect_count > 0
Reconnected     == ~connected /\ disconnect_count > 0

(* Mutant: the address is stored once only. *)
NewAddress_Once == IF ip_addr_str = NoAddr THEN lease ELSE ip_addr_str
NewAddress      == lease

HasAddress == lease # NoAddr

(* Mutant: the semaphore has no limit. *)
SemGiven_Unlimited == wifi_connected_sem + 1
SemGiven           == 1

ipv4_event_handler ==
    /\ Takes("addr_add")
    /\ IF HasAddress
       THEN /\ ip_addr_str' = NewAddress
            /\ reconnect_count' =
                 IF Reconnected THEN reconnect_count + 1 ELSE reconnect_count
            /\ connected' = TRUE
            /\ wifi_connected_sem' = SemGiven
       ELSE UNCHANGED <<ip_addr_str, reconnect_count, connected,
                        wifi_connected_sem>>
    /\ UNCHANGED <<lease, lapsed, drops, disconnect_count, pc, powerSave>>
-----------------------------------------------------------------------------
(* wifi_manager_init, in the main thread.                                  *)

(* The callbacks are registered before the connection is asked for; no     *)
(* interface, no SSID or a refused request end the boot-time attempt.      *)
wifi_connect ==
    /\ pc = "connect"
    /\ pc' \in {"wait", "failed"}
    /\ UNCHANGED <<extVars, mgrVars, wifi_connected_sem, powerSave>>

TakeSem ==
    /\ pc = "wait" /\ wifi_connected_sem = 1
    /\ wifi_connected_sem' = 0
    /\ pc' = "setPs"
    /\ UNCHANGED <<extVars, mgrVars, powerSave>>

TakeTimeout ==
    /\ pc = "wait" /\ wifi_connected_sem = 0
    /\ pc' = "timedOut"
    /\ UNCHANGED <<extVars, mgrVars, wifi_connected_sem, powerSave>>

(* esp_wifi_set_ps may fail; the failure is logged.                        *)
SetPs ==
    /\ pc = "setPs"
    /\ powerSave' \in BOOLEAN
    /\ pc' = "ready"
    /\ UNCHANGED <<extVars, mgrVars, wifi_connected_sem>>

Boot    == wifi_connect \/ TakeSem \/ TakeTimeout \/ SetPs
Handler == wifi_event_handler \/ ipv4_event_handler
Driver  == LinkLost \/ LeaseLost \/ \E a \in Addrs : Assign(a)

(* The watchdog resets the chip.                                           *)
Restart ==
    /\ lease' = NoAddr /\ lapsed' = FALSE /\ queue' = <<>> /\ drops' = 0
    /\ connected' = FALSE /\ ip_addr_str' = NoAddr
    /\ disconnect_count' = 0 /\ reconnect_count' = 0
    /\ wifi_connected_sem' = 0 /\ pc' = "connect" /\ powerSave' = TRUE

Next == Boot \/ Handler \/ Driver \/ Restart
Spec == Init /\ [][Next]_vars
-----------------------------------------------------------------------------
(* Every variable keeps to its values.                                     *)
TypeOK ==
    /\ lease \in Addrs \cup {NoAddr} /\ lapsed \in BOOLEAN
    /\ queue \in Seq({"addr_add", "disconnect"}) /\ Len(queue) <= QueueSize
    /\ drops \in 0 .. MaxDrops
    /\ connected \in BOOLEAN
    /\ ip_addr_str \in Addrs \cup {NoAddr}
    /\ disconnect_count \in Nat /\ reconnect_count \in Nat
    /\ wifi_connected_sem \in 0 .. 1
    /\ pc \in {"connect", "wait", "setPs", "ready", "timedOut", "failed"}
    /\ powerSave \in BOOLEAN

(* Events are handled late and read the interface as it is by then; yet    *)
(* with none left to handle an address is reported, as it is, and who is   *)
(* connected without one has lost it with the link up: of an address lost  *)
(* with the link the program knows.  (It knows of no lapse: see            *)
(* ConnectedHasAddress.)                                                   *)
Settled == queue = <<>> =>
    /\ lease # NoAddr => connected /\ ip_addr_str = lease
    /\ connected => lease # NoAddr \/ lapsed

(* Every disconnection is counted once, and one disconnection is followed  *)
(* by at most one reconnection, whatever the order of events.              *)
Count(e) == Cardinality({i \in 1 .. Len(queue) : queue[i] = e})
OneReconnect == reconnect_count <= disconnect_count
Counters == drops = disconnect_count + Count("disconnect") /\ OneReconnect

(* A link that stays up is reported, however many events came before.      *)
ReportsLink == \A a \in Addrs :
    <>[](lease = a) => <>[](connected /\ ip_addr_str = a)

(* "Check if WiFi is connected and IP address is assigned."                *)
(* (wifi_manager.h:23): with no event left to handle, a station that calls *)
(* itself connected has an address.                                        *)
ConnectedHasAddress == queue = <<>> /\ connected => lease # NoAddr

(* "or "0.0.0.0" if not connected" (wifi_manager.h:31), said of the        *)
(* address that wifi_manager_get_ip returns.                               *)
NoIpWhenDown == ~connected => ip_addr_str = NoAddr

(* "power save disabled" (README.md:11): once the boot is over, a          *)
(* connected station saves no power, unless the driver refused.            *)
PowerSaveDisabled ==
    pc = "timedOut" /\ connected => ~powerSave
=============================================================================
