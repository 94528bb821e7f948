------------------------------ MODULE Services ------------------------------
(***************************************************************************)
(* The services behind the dispatch loop of Process 1                      *)
(* (amgos-system/src/main.rs): power, network, bluetooth and input         *)
(* settings, and what the desktop shows of them.                           *)
(*                                                                         *)
(* Every client of the bus may ask for changes, among them the desktop     *)
(* itself, whose top bar shows a power profile as soon as it is chosen,    *)
(* before Process 1 has heard of it and whether or not the request can be  *)
(* sent.  The main thread alone changes a service and publishes the event  *)
(* of the change, so a handler is one step; requests and events wait       *)
(* between the processes (module EventBus), where a stream may be          *)
(* discarded, and the desktop may end and start again with its defaults.   *)
(***************************************************************************)
EXTENDS Integers, Sequences, FiniteSets

CONSTANTS
  Clients, Desktop,  \* of the bus; the desktop is one of them
  Profiles,          \* PowerProfile, with Balanced
  Targets,           \* PowerState values that are requested
  Ssids, Settings, Devices,
  MaxRequests        \* requests sent (bound)

None == "none"
Final == {"Shutdown", "Reboot"}

ASSUME ServicesAssumption ==
  /\ Desktop \in Clients /\ "Balanced" \in Profiles /\ "default" \in Settings
  /\ Targets \subseteq {"Active", "Sleep", "Hibernate"} \cup Final
  /\ None \notin Ssids \cup Profiles /\ MaxRequests \in Nat

VARIABLES
  requests,             \* of each client, not yet dispatched
  sent,                 \* how many so far
  events,               \* published, not yet heard by the desktop
  subscribed,           \* the bus has the desktop's stream
  current_profile, current_state,     \* PowerManager
  active_connection,    \* its ssid, or None
  silent,               \* no event has told of active_connection (history)
  powered, discovering, connected,    \* BluetoothManager
  touchpad_config, keyboard_config,   \* MotionWaveController
  running,              \* RUNNING_SIGNAL
  view,                 \* what the desktop shows, by topic
  chosen,               \* profile chosen in the top bar, its request not yet sent
  told                  \* topics it has been told of since it started (history)

powerVars == <<current_profile, current_state>>
networkVars == <<active_connection, silent>>
bluetoothVars == <<powered, discovering, connected>>
motionVars == <<touchpad_config, keyboard_config>>
serviceVars == <<powerVars, networkVars, bluetoothVars, motionVars>>
wireVars == <<events, subscribed>>
desktopVars == <<view, chosen, told>>
servicesVars == <<requests, sent, wireVars, serviceVars, running, desktopVars>>

Shown == {"profile", "screen", "network", "touchpad", "keyboard"}
Values == Profiles \cup Targets \cup Ssids \cup Settings \cup {None}
Events == [topic : Shown \cup {"bluetooth", "first_boot", "report"}, value : Values]

Defaults == [t \in Shown |-> CASE t = "profile" -> "Balanced"
                               [] t \in {"screen", "network"} -> None
                               [] OTHER -> "default"]

-----------------------------------------------------------------------------
(* Requests.                                                               *)

Requests ==
  [kind : {"SetPowerProfile"}, arg : Profiles]
    \cup [kind : {"RequestPowerState"}, arg : Targets]
    \cup [kind : {"ConnectWifi"}, arg : Ssids]
    \cup [kind : {"FirstBootWizardComplete"}, arg : Ssids \cup {None}]
    \cup [kind : {"SetTouchpadConfig", "SetKeyboardConfig"}, arg : Settings]
    \cup [kind : {"SetBluetoothPower"}, arg : {"on", "off"}]
    \cup [kind : {"StartBluetoothScan", "StopBluetoothScan", "Report"}, arg : {None}]
    \cup [kind : {"ConnectBluetoothDevice", "DisconnectBluetoothDevice"}, arg : Devices]

\* A discarded stream is closed: nothing can be sent on it, either.
Sends(c, r) ==
  /\ c = Desktop => subscribed
  /\ sent < MaxRequests /\ sent' = sent + 1
  /\ requests' = [requests EXCEPT ![c] = Append(@, r)]

ask(c) ==
  /\ \E r \in Requests : Sends(c, r)
  /\ UNCHANGED <<wireVars, serviceVars, running, desktopVars>>

\* The top bar shows the profile at once and returns the request for it.
select_profile(p) ==
  /\ chosen = None /\ chosen' = p
  /\ view' = [view EXCEPT !["profile"] = p]
  /\ told' = told \cup {"profile"}
  /\ UNCHANGED <<requests, sent, wireVars, serviceVars, running>>

\* Nobody will tell of the profile that was chosen.
Unheard == told' = told \ {"profile"}

\* The request is sent, or send_request fails and the choice is forgotten.
send_choice ==
  /\ chosen # None /\ chosen' = None
  /\ \/ Sends(Desktop, [kind |-> "SetPowerProfile", arg |-> chosen]) /\ UNCHANGED told
     \/ Unheard /\ UNCHANGED <<requests, sent>>
  /\ UNCHANGED <<wireVars, serviceVars, running, view>>

\* What a client has sent is lost, swallowed with the rest of a frame it gave
\* up, or with its stream, which the bus discards.
drop_requests(c) ==
  /\ requests[c] # <<>> /\ requests' = [requests EXCEPT ![c] = <<>>]
  /\ IF c = Desktop THEN Unheard /\ subscribed' \in {subscribed, FALSE}
                    ELSE UNCHANGED <<told, subscribed>>
  /\ UNCHANGED <<sent, events, serviceVars, running, view, chosen>>

\* The main loop takes the request at the head of a client's queue.
Dispatch(c, kind, arg) ==
  /\ running /\ requests[c] # <<>>
  /\ Head(requests[c]) = [kind |-> kind, arg |-> arg]
  /\ requests' = [requests EXCEPT ![c] = Tail(@)]
  /\ UNCHANGED <<sent, running, desktopVars>>

\* publish_event: a write that fails discards the desktop's stream, and
\* nothing reaches the desktop any more.
publish(topic, value) ==
  \/ /\ subscribed /\ UNCHANGED subscribed
     /\ events' = Append(events, [topic |-> topic, value |-> value])
  \/ subscribed' = FALSE /\ UNCHANGED events

-----------------------------------------------------------------------------
(* Power.                                                                  *)

Governor(p) == IF p = "Max" THEN "performance" ELSE "powersave"

\* Mutant: told only when the governor changes.
SetProfileIfGovernor(c, p) ==
  /\ Dispatch(c, "SetPowerProfile", p)
  /\ current_profile' = p
  /\ IF Governor(p) # Governor(current_profile) THEN publish("profile", p) ELSE UNCHANGED wireVars
  /\ UNCHANGED <<current_state, networkVars, bluetoothVars, motionVars>>

SetPowerProfile(c, p) ==
  /\ Dispatch(c, "SetPowerProfile", p)
  /\ current_profile' = p
  /\ publish("profile", p)
  /\ UNCHANGED <<current_state, networkVars, bluetoothVars, motionVars>>

\* Sleep and hibernation may fail, which leaves the state; after a wake it
\* is Active.  A refused poweroff or reboot leaves the state it asked for.
Transition(s) ==
  \/ s \in Final /\ current_state' = s
  \/ s \in {"Sleep", "Hibernate"} /\ current_state' \in {"Active", current_state}
  \/ s = "Active" /\ UNCHANGED current_state

\* The result of transition_to is dropped.
RequestPowerState(c, s) ==
  /\ Dispatch(c, "RequestPowerState", s)
  /\ Transition(s)
  /\ publish("screen", s)
  /\ UNCHANGED <<current_profile, networkVars, bluetoothVars, motionVars>>

-----------------------------------------------------------------------------
(* Network.                                                                *)

\* connect: nmcli succeeds or not.
Connect(ssid) == active_connection' \in {ssid, None}

ConnectWifi(c, ssid) ==
  /\ Dispatch(c, "ConnectWifi", ssid)
  /\ Connect(ssid)
  /\ silent' = FALSE
  /\ publish("network", active_connection')
  /\ UNCHANGED <<powerVars, bluetoothVars, motionVars>>

\* The signed configuration is refused, or applied: then its network is
\* connected, of which no event tells.
FirstBootWizardComplete(c, ssid) ==
  /\ Dispatch(c, "FirstBootWizardComplete", ssid)
  /\ \/ UNCHANGED <<wireVars, networkVars>>
     \/ /\ publish("first_boot", None)
        /\ IF ssid = None THEN UNCHANGED networkVars ELSE Connect(ssid) /\ silent' = TRUE
  /\ UNCHANGED <<powerVars, bluetoothVars, motionVars>>

-----------------------------------------------------------------------------
(* Input settings.                                                         *)

SetTouchpadConfig(c, s) ==
  /\ Dispatch(c, "SetTouchpadConfig", s)
  /\ touchpad_config' = s /\ publish("touchpad", s)
  /\ UNCHANGED <<keyboard_config, powerVars, networkVars, bluetoothVars>>

SetKeyboardConfig(c, s) ==
  /\ Dispatch(c, "SetKeyboardConfig", s)
  /\ keyboard_config' = s /\ publish("keyboard", s)
  /\ UNCHANGED <<touchpad_config, powerVars, networkVars, bluetoothVars>>

-----------------------------------------------------------------------------
(* Bluetooth.  Whatever bluetoothctl answers, the manager notes the state  *)
(* that was asked for.                                                     *)

BluetoothStatus == publish("bluetooth", None) /\ UNCHANGED <<powerVars, networkVars, motionVars>>

\* Mutant: a scan goes on when the adapter is switched off.
PowerOnly(c, arg) ==
  /\ Dispatch(c, "SetBluetoothPower", arg)
  /\ powered' = (arg = "on")
  /\ UNCHANGED <<discovering, connected>> /\ BluetoothStatus

SetBluetoothPower(c, arg) ==
  /\ Dispatch(c, "SetBluetoothPower", arg)
  /\ powered' = (arg = "on")
  /\ discovering' = (discovering /\ arg = "on")
  /\ UNCHANGED connected /\ BluetoothStatus

StartBluetoothScan(c) ==
  /\ Dispatch(c, "StartBluetoothScan", None)
  /\ discovering' = (discovering \/ powered)
  /\ UNCHANGED <<powered, connected>> /\ BluetoothStatus

StopBluetoothScan(c) ==
  /\ Dispatch(c, "StopBluetoothScan", None)
  /\ discovering' = FALSE
  /\ UNCHANGED <<powered, connected>> /\ BluetoothStatus

ConnectBluetoothDevice(c, d) ==
  /\ Dispatch(c, "ConnectBluetoothDevice", d)
  /\ connected' = IF powered THEN connected \cup {d} ELSE connected
  /\ UNCHANGED <<powered, discovering>> /\ BluetoothStatus

DisconnectBluetoothDevice(c, d) ==
  /\ Dispatch(c, "DisconnectBluetoothDevice", d)
  /\ connected' = connected \ {d}
  /\ UNCHANGED <<powered, discovering>> /\ BluetoothStatus

-----------------------------------------------------------------------------
\* The requests that change nothing and are answered: a wifi scan, the input
\* devices, the slots, a directory, the log.
Report(c) == Dispatch(c, "Report", None) /\ publish("report", None) /\ UNCHANGED serviceVars

\* systemd carries the poweroff or reboot out: SIGTERM.
GoDown ==
  /\ running /\ current_state \in Final
  /\ running' = FALSE
  /\ UNCHANGED <<requests, sent, wireVars, serviceVars, desktopVars>>

-----------------------------------------------------------------------------
(* The desktop.                                                            *)

\* Sleep and hibernation have no screen, and none is taken down.
Shows(e) == e.topic \in Shown /\ (e.topic = "screen" => e.value \in Final)

hear ==
  /\ events # <<>> /\ events' = Tail(events)
  /\ LET e == Head(events)
     IN  IF Shows(e) THEN /\ view' = [view EXCEPT ![e.topic] = e.value]
                          /\ told' = told \cup {e.topic}
                     ELSE UNCHANGED <<view, told>>
  /\ UNCHANGED <<requests, sent, subscribed, chosen, serviceVars, running>>

\* The desktop ends and starts again: what was on its way to it is lost, and
\* it connects anew.
Restart ==
  /\ view' = Defaults /\ chosen' = None /\ told' = {}
  /\ events' = <<>> /\ subscribed' = TRUE
  /\ UNCHANGED <<requests, sent, serviceVars, running>>

-----------------------------------------------------------------------------
ServicesInit ==
  /\ requests = [c \in Clients |-> <<>>] /\ sent = 0
  /\ events = <<>> /\ subscribed = TRUE
  /\ current_profile = "Balanced" /\ current_state = "Active"
  /\ active_connection \in Ssids \cup {None} /\ silent = TRUE
  /\ powered \in BOOLEAN /\ discovering = FALSE /\ connected = {}
  /\ touchpad_config = "default" /\ keyboard_config = "default"
  /\ running = TRUE
  /\ view = Defaults /\ chosen = None /\ told = Shown \ {"network"}

Handle(c) ==
  \/ \E p \in Profiles : SetPowerProfile(c, p)
  \/ \E s \in Targets : RequestPowerState(c, s)
  \/ \E ssid \in Ssids : ConnectWifi(c, ssid)
  \/ \E ssid \in Ssids \cup {None} : FirstBootWizardComplete(c, ssid)
  \/ \E s \in Settings : SetTouchpadConfig(c, s) \/ SetKeyboardConfig(c, s)
  \/ \E arg \in {"on", "off"} : SetBluetoothPower(c, arg)
  \/ StartBluetoothScan(c) \/ StopBluetoothScan(c)
  \/ \E d \in Devices : ConnectBluetoothDevice(c, d) \/ DisconnectBluetoothDevice(c, d)
  \/ Report(c)

ServicesNext ==
  \/ \E c \in Clients : ask(c) \/ drop_requests(c) \/ Handle(c)
  \/ \E p \in Profiles : select_profile(p)
  \/ send_choice \/ GoDown \/ hear \/ Restart

ServicesSpec == ServicesInit /\ [][ServicesNext]_servicesVars

-----------------------------------------------------------------------------
(* Properties.                                                             *)

\* The variables have their types.
ServicesTypeOK ==
  /\ requests \in [Clients -> Seq(Requests)] /\ sent \in Nat
  /\ events \in Seq(Events) /\ subscribed \in BOOLEAN
  /\ current_profile \in Profiles /\ current_state \in {"Active"} \cup Final
  /\ active_connection \in Ssids \cup {None} /\ silent \in BOOLEAN
  /\ powered \in BOOLEAN /\ discovering \in BOOLEAN /\ connected \subseteq Devices
  /\ touchpad_config \in Settings /\ keyboard_config \in Settings
  /\ running \in BOOLEAN
  /\ view \in [Shown -> Values] /\ chosen \in Profiles \cup {None} /\ told \subseteq Shown

\* What may be shown of a topic: nothing is asked of the power screen unless
\* the system is going down.
Fits(t, value) ==
  /\ t = "profile" => value = current_profile
  /\ t = "screen" /\ current_state \in Final => value = current_state
  /\ t = "network" /\ ~silent => value = active_connection
  /\ t = "touchpad" => value = touchpad_config
  /\ t = "keyboard" => value = keyboard_config

\* When nothing is under way between the processes and the bus has not
\* discarded the desktop's stream, the desktop shows the state of the
\* services wherever it has been told of it, whoever asked for the changes,
\* however the top bar's own choice and the events of others' crossed and
\* whether or not the desktop was restarted.  Of a choice whose request was
\* lost (send_request fails, or it is never read) nothing is claimed until
\* the next event of the profile.
QuietMeansTold ==
  subscribed /\ events = <<>> /\ chosen = None /\ (\A c \in Clients : requests[c] = <<>>)
    => \A t \in told : Fits(t, view[t])

\* No order of bluetooth requests leaves the manager scanning with the
\* adapter off.
ScanNeedsPower == discovering => powered
=============================================================================
