-------------------------- MODULE SessionProofs ---------------------------
(***************************************************************************)
(* Proofs about five parts of a session that share no state: the services  *)
(* and the log of Process 1 (Astrophage), and the notifications, the top   *)
(* bar's tray and the dock of Process 2, for any clients, requests and     *)
(* settings, a ring of any capacity, any number of notifications, any      *)
(* applications and animations of any length.                              *)
(***************************************************************************)
EXTENDS Services, Astrophage, Notifications, Tray, Dock, SubsequencesProofs,
        FiniteSetTheorems, WellFoundedInduction, TLAPS

(***************************************************************************)
(* The services.  That the desktop shows their state when nothing is under *)
(* way is not inductive: the invariant says of every topic where the truth *)
(* is while something is under way, as long as the bus publishes to the    *)
(* desktop.  It is in the last event of the topic that is on its way; when *)
(* there is none it is what the desktop shows, if it has been told, unless *)
(* a profile chosen in the top bar is still to be sent or dispatched.      *)
(***************************************************************************)
USE ServicesAssumption

(* The events on their way that tell of a topic.                           *)
Telling(t) == {i \in DOMAIN events : events[i].topic = t /\ Shows(events[i])}

OnItsWay(t) ==
  \E i \in Telling(t) : Fits(t, events[i].value) /\ \A j \in Telling(t) : j <= i

Queued == \E i \in DOMAIN requests[Desktop] : requests[Desktop][i].kind = "SetPowerProfile"

Asked(t) == t = "profile" /\ (chosen # None \/ Queued)

AsShown(t) == Telling(t) = {} /\ (t \in told => Fits(t, view[t]) \/ Asked(t))

ToldInv == subscribed => \A t \in Shown : OnItsWay(t) \/ AsShown(t)

-----------------------------------------------------------------------------
(* A dispatched request leaves the queues what they are, and a choice of   *)
(* another profile stays where it is.                                      *)
LEMMA DispatchType ==
  ASSUME ServicesTypeOK, NEW c \in Clients, NEW kind, NEW arg, Dispatch(c, kind, arg)
  PROVE  /\ requests' \in [Clients -> Seq(Requests)] /\ sent' \in Nat
         /\ running' \in BOOLEAN
         /\ view' \in [Shown -> Values] /\ chosen' \in Profiles \cup {None}
         /\ told' \subseteq Shown
<1>1. requests[c] \in Seq(Requests) /\ requests[c] # <<>>
  BY DEF ServicesTypeOK, Dispatch
<1>2. Tail(requests[c]) \in Seq(Requests)
  BY <1>1
<1>3. requests' \in [Clients -> Seq(Requests)]
  BY <1>2 DEF ServicesTypeOK, Dispatch
<1>4. QED
  BY <1>3 DEF ServicesTypeOK, Dispatch, desktopVars

(* A published event joins the others, or is lost with the stream.         *)
LEMMA PublishType ==
  ASSUME events \in Seq(Events), subscribed \in BOOLEAN,
         NEW topic \in Shown \cup {"bluetooth", "first_boot", "report"},
         NEW value \in Values, publish(topic, value)
  PROVE  events' \in Seq(Events) /\ subscribed' \in BOOLEAN
<1>1. [topic |-> topic, value |-> value] \in Events
  BY DEF Events
<1>2. CASE UNCHANGED subscribed /\ events' = Append(events, [topic |-> topic, value |-> value])
  BY <1>1, <1>2
<1>3. CASE subscribed' = FALSE /\ UNCHANGED events
  BY <1>3
<1>4. QED
  BY <1>2, <1>3 DEF publish

(* What requests and their answers say is among the values of events.      *)
LEMMA ValuesHold ==
  /\ Profiles \subseteq Values /\ Targets \subseteq Values /\ Ssids \subseteq Values
  /\ Settings \subseteq Values /\ None \in Values
BY DEF Values

-----------------------------------------------------------------------------
(* Every reachable value of every variable is one the code can hold, for   *)
(* any clients and any requests.                                           *)
THEOREM ServicesTypeCorrect == ServicesSpec => []ServicesTypeOK
<1>1. ServicesInit => ServicesTypeOK
  <2> SUFFICES ASSUME ServicesInit PROVE ServicesTypeOK
    OBVIOUS
  <2>1. requests \in [Clients -> Seq(Requests)] /\ events \in Seq(Events)
    BY DEF ServicesInit
  <2>2. view \in [Shown -> Values]
    BY DEF ServicesInit, Defaults, Values
  <2>3. /\ silent \in BOOLEAN /\ powered \in BOOLEAN /\ discovering \in BOOLEAN
        /\ running \in BOOLEAN /\ subscribed \in BOOLEAN
    BY DEF ServicesInit
  <2>4. QED
    BY <2>1, <2>2, <2>3 DEF ServicesInit, ServicesTypeOK
<1>2. ServicesTypeOK /\ [ServicesNext]_servicesVars => ServicesTypeOK'
  <2> SUFFICES ASSUME ServicesTypeOK, [ServicesNext]_servicesVars PROVE ServicesTypeOK'
    OBVIOUS
  <2> USE ValuesHold DEF ServicesTypeOK
  <2>1. ASSUME NEW c \in Clients, NEW p \in Profiles, SetPowerProfile(c, p)
        PROVE  ServicesTypeOK'
    BY <2>1, DispatchType, PublishType
       DEF SetPowerProfile, networkVars, bluetoothVars, motionVars, Shown
  <2>2. ASSUME NEW c \in Clients, NEW s \in Targets, RequestPowerState(c, s)
        PROVE  ServicesTypeOK'
    BY <2>2, DispatchType, PublishType
       DEF RequestPowerState, Transition, networkVars, bluetoothVars, motionVars, Shown
  <2>3. ASSUME NEW c \in Clients, NEW ssid \in Ssids, ConnectWifi(c, ssid)
        PROVE  ServicesTypeOK'
    BY <2>3, DispatchType, PublishType
       DEF ConnectWifi, Connect, powerVars, bluetoothVars, motionVars, Shown
  <2>4. ASSUME NEW c \in Clients, NEW ssid \in Ssids \cup {None}, FirstBootWizardComplete(c, ssid)
        PROVE  ServicesTypeOK'
    BY <2>4, DispatchType, PublishType
       DEF FirstBootWizardComplete, Connect, wireVars, networkVars, powerVars, bluetoothVars,
           motionVars
  <2>5. ASSUME NEW c \in Clients, NEW s \in Settings,
               SetTouchpadConfig(c, s) \/ SetKeyboardConfig(c, s)
        PROVE  ServicesTypeOK'
    BY <2>5, DispatchType, PublishType
       DEF SetTouchpadConfig, SetKeyboardConfig, powerVars, networkVars, bluetoothVars, Shown
  <2>6. ASSUME NEW c \in Clients, NEW arg \in {"on", "off"}, SetBluetoothPower(c, arg)
        PROVE  ServicesTypeOK'
    BY <2>6, DispatchType, PublishType
       DEF SetBluetoothPower, BluetoothStatus, powerVars, networkVars, motionVars
  <2>7. ASSUME NEW c \in Clients, StartBluetoothScan(c) \/ StopBluetoothScan(c)
        PROVE  ServicesTypeOK'
    BY <2>7, DispatchType, PublishType
       DEF StartBluetoothScan, StopBluetoothScan, BluetoothStatus, powerVars, networkVars, motionVars
  <2>8. ASSUME NEW c \in Clients, NEW d \in Devices,
               ConnectBluetoothDevice(c, d) \/ DisconnectBluetoothDevice(c, d)
        PROVE  ServicesTypeOK'
    BY <2>8, DispatchType, PublishType
       DEF ConnectBluetoothDevice, DisconnectBluetoothDevice, BluetoothStatus,
           powerVars, networkVars, motionVars
  <2>9. ASSUME NEW c \in Clients, Report(c) PROVE ServicesTypeOK'
    BY <2>9, DispatchType, PublishType
       DEF Report, serviceVars, powerVars, networkVars, bluetoothVars, motionVars
  <2>10. ASSUME NEW c \in Clients, ask(c) PROVE ServicesTypeOK'
    <3>1. PICK r \in Requests : Sends(c, r)
      BY <2>10 DEF ask
    <3>2. requests' \in [Clients -> Seq(Requests)] /\ sent' \in Nat
      BY <3>1 DEF Sends
    <3>3. QED
      BY <2>10, <3>2
         DEF ask, wireVars, serviceVars, powerVars, networkVars, bluetoothVars, motionVars, desktopVars
  <2>11. ASSUME NEW p \in Profiles, select_profile(p) PROVE ServicesTypeOK'
    <3>1. view' \in [Shown -> Values] /\ told' \subseteq Shown
      BY <2>11 DEF select_profile, Shown
    <3>2. QED
      BY <2>11, <3>1
         DEF select_profile, wireVars, serviceVars, powerVars, networkVars, bluetoothVars, motionVars
  <2>12. CASE GoDown
    BY <2>12 DEF GoDown, wireVars, serviceVars, powerVars, networkVars, bluetoothVars, motionVars,
       desktopVars
  <2>13. CASE hear
    <3>1. events' \in Seq(Events) /\ Head(events) \in Events
      BY <2>13 DEF hear
    <3>2. view' \in [Shown -> Values] /\ told' \subseteq Shown
      BY <2>13, <3>1 DEF hear, Shows, Events
    <3>3. QED
      BY <2>13, <3>1, <3>2
         DEF hear, serviceVars, powerVars, networkVars, bluetoothVars, motionVars
  <2>14. CASE Restart
    <3>1. view' \in [Shown -> Values]
      BY <2>14 DEF Restart, Defaults, Values
    <3>2. events' \in Seq(Events)
      BY <2>14 DEF Restart
    <3>3. QED
      BY <2>14, <3>1, <3>2
         DEF Restart, serviceVars, powerVars, networkVars, bluetoothVars, motionVars
  <2>15. CASE UNCHANGED servicesVars
    BY <2>15 DEF servicesVars, wireVars, serviceVars, powerVars, networkVars, bluetoothVars, motionVars,
       desktopVars
  <2>16. CASE send_choice
    <3>1. PICK r \in Requests : Sends(Desktop, r) \/ UNCHANGED <<requests, sent>>
      <4>1. [kind |-> "SetPowerProfile", arg |-> chosen] \in Requests
        BY <2>16 DEF send_choice, Requests
      <4>2. QED
        BY <2>16, <4>1 DEF send_choice
    <3>2. requests' \in [Clients -> Seq(Requests)] /\ sent' \in Nat
      <4>1. CASE Sends(Desktop, r)
        BY <4>1 DEF Sends
      <4>2. CASE UNCHANGED <<requests, sent>>
        BY <4>2
      <4>3. QED
        BY <3>1, <4>1, <4>2
    <3>3. told' \subseteq Shown /\ chosen' = None
      BY <2>16 DEF send_choice, Unheard
    <3>4. QED
      BY <2>16, <3>2, <3>3
         DEF send_choice, wireVars, serviceVars, powerVars, networkVars, bluetoothVars, motionVars
  <2>17. ASSUME NEW c \in Clients, drop_requests(c) PROVE ServicesTypeOK'
    <3>1. requests' \in [Clients -> Seq(Requests)]
      BY <2>17 DEF drop_requests
    <3>2. told' \subseteq Shown
      BY <2>17 DEF drop_requests, Unheard
    <3>3. QED
      BY <2>17, <3>1, <3>2
         DEF drop_requests, wireVars, serviceVars, powerVars, networkVars, bluetoothVars, motionVars
  <2>18. QED
    BY <2>1, <2>2, <2>3, <2>4, <2>5, <2>6, <2>7, <2>8, <2>9, <2>10, <2>11, <2>12, <2>13, <2>14,
       <2>15, <2>16, <2>17 DEF ServicesNext, Handle
<1>3. QED
  BY <1>1, <1>2, PTL DEF ServicesSpec

-----------------------------------------------------------------------------
(* An adapter that is off does not scan, whatever was asked before.        *)
THEOREM NoScanWhenOff == ServicesSpec => []ScanNeedsPower
<1>1. ServicesInit => ScanNeedsPower
  BY DEF ServicesInit, ScanNeedsPower
<1>2. ScanNeedsPower /\ [ServicesNext]_servicesVars => ScanNeedsPower'
  <2> SUFFICES ASSUME ScanNeedsPower, [ServicesNext]_servicesVars PROVE ScanNeedsPower'
    OBVIOUS
  <2> USE DEF ScanNeedsPower
  <2>1. ASSUME NEW c \in Clients, NEW arg \in {"on", "off"}, SetBluetoothPower(c, arg)
        PROVE  ScanNeedsPower'
    BY <2>1 DEF SetBluetoothPower
  <2>2. ASSUME NEW c \in Clients, StartBluetoothScan(c) \/ StopBluetoothScan(c)
        PROVE  ScanNeedsPower'
    BY <2>2 DEF StartBluetoothScan, StopBluetoothScan
  <2>3. ASSUME NEW c \in Clients, NEW d \in Devices,
               ConnectBluetoothDevice(c, d) \/ DisconnectBluetoothDevice(c, d)
        PROVE  ScanNeedsPower'
    BY <2>3 DEF ConnectBluetoothDevice, DisconnectBluetoothDevice
  <2>4. CASE UNCHANGED <<powered, discovering>>
    BY <2>4
  <2>5. QED
    BY <2>1, <2>2, <2>3, <2>4
       DEF ServicesNext, Handle, SetPowerProfile, RequestPowerState, ConnectWifi,
           FirstBootWizardComplete, SetTouchpadConfig, SetKeyboardConfig, Report, ask,
           select_profile, send_choice, drop_requests, GoDown, hear, Restart, servicesVars,
           serviceVars, bluetoothVars
<1>3. QED
  BY <1>1, <1>2, PTL DEF ServicesSpec

-----------------------------------------------------------------------------
(* Where the truth about a topic is after one more event.                  *)

(* An event that tells the truth about a topic is the last that tells.     *)
LEMMA TruthIsSent ==
  ASSUME events \in Seq(Events), NEW t \in Shown, NEW e \in Events,
         events' = Append(events, e), e.topic = t, Shows(e), Fits(t, e.value)'
  PROVE  OnItsWay(t)'
<1>1. /\ DOMAIN events' = 1 .. Len(events) + 1
      /\ events'[Len(events) + 1] = e
  OBVIOUS
<1>2. Len(events) + 1 \in Telling(t)'
  BY <1>1 DEF Telling
<1>3. \A j \in Telling(t)' : j <= Len(events) + 1
  BY <1>1 DEF Telling
<1>4. QED
  BY <1>1, <1>2, <1>3 DEF OnItsWay

(* An event of another topic, or none, leaves the truth where it was, as   *)
(* long as no choice of the top bar is lost.                               *)
LEMMA TruthStays ==
  ASSUME events \in Seq(Events), NEW t \in Shown,
         \/ UNCHANGED events
         \/ \E e \in Events : events' = Append(events, e) /\ ~(e.topic = t /\ Shows(e)),
         \A v : Fits(t, v) => Fits(t, v)',
         Asked(t) => Asked(t)',
         view'[t] = view[t], t \in told' => t \in told,
         OnItsWay(t) \/ AsShown(t)
  PROVE  OnItsWay(t)' \/ AsShown(t)'
<1>1. Telling(t)' = Telling(t)
  BY DEF Telling
<1>2. \A i \in Telling(t) : events'[i] = events[i]
  BY DEF Telling
<1>3. CASE OnItsWay(t)
  <2>1. PICK i \in Telling(t) : Fits(t, events[i].value) /\ \A j \in Telling(t) : j <= i
    BY <1>3 DEF OnItsWay
  <2>2. Fits(t, events[i].value)'
    BY <1>2, <2>1
  <2>3. QED
    BY <1>1, <2>1, <2>2 DEF OnItsWay
<1>4. CASE AsShown(t)
  <2>1. AsShown(t)'
    BY <1>1, <1>4 DEF AsShown
  <2>2. QED
    BY <2>1
<1>5. QED
  BY <1>3, <1>4

(* A request that is not a choice of a profile does not take one away.     *)
LEMMA ChoiceStays ==
  ASSUME ServicesTypeOK, NEW c \in Clients, NEW kind, NEW arg, Dispatch(c, kind, arg),
         NEW t, kind # "SetPowerProfile" \/ t # "profile", Asked(t)
  PROVE  Asked(t)'
<1>1. t = "profile" /\ kind # "SetPowerProfile" /\ chosen' = chosen
  BY DEF Asked, Dispatch, desktopVars
<1>2. requests \in [Clients -> Seq(Requests)] /\ requests[c] # <<>>
  BY DEF ServicesTypeOK, Dispatch
<1>3. ASSUME Queued PROVE Queued'
  <2>1. PICK i \in DOMAIN requests[Desktop] : requests[Desktop][i].kind = "SetPowerProfile"
    BY <1>3 DEF Queued
  <2>2. CASE c # Desktop
    <3>1. requests'[Desktop] = requests[Desktop]
      BY <1>2, <2>2 DEF Dispatch
    <3>2. QED
      BY <2>1, <3>1 DEF Queued
  <2>3. CASE c = Desktop
    <3>1. requests'[Desktop] = Tail(requests[Desktop])
      BY <1>2, <2>3 DEF Dispatch
    <3>2. requests[Desktop][1].kind = kind
      BY <1>2, <2>3 DEF Dispatch
    <3>3. i > 1 /\ i - 1 \in DOMAIN Tail(requests[Desktop])
          /\ Tail(requests[Desktop])[i - 1] = requests[Desktop][i]
      BY <1>1, <1>2, <2>1, <3>2
    <3>4. QED
      BY <2>1, <3>1, <3>3 DEF Queued
  <2>4. QED
    BY <2>2, <2>3
<1>4. QED
  BY <1>1, <1>3 DEF Asked

(* So a handler whose event tells the truth about every topic it changes   *)
(* keeps the invariant: either the event is on its way or the stream is    *)
(* discarded.                                                              *)
LEMMA HandlerTells ==
  ASSUME ServicesTypeOK, ToldInv, NEW c \in Clients, NEW kind, NEW arg, Dispatch(c, kind, arg),
         NEW topic, NEW value, NEW e \in Events, e = [topic |-> topic, value |-> value],
         publish(topic, value),
         kind = "SetPowerProfile" => topic = "profile",
         \A t \in Shown : IF topic = t /\ Shows(e) THEN Fits(t, value)'
                          ELSE \A v : Fits(t, v) => Fits(t, v)'
  PROVE  ToldInv'
<1> SUFFICES ASSUME subscribed', NEW t \in Shown PROVE OnItsWay(t)' \/ AsShown(t)'
  BY DEF ToldInv
<1>1. /\ subscribed /\ events \in Seq(Events) /\ events' = Append(events, e)
      /\ e.topic = topic /\ e.value = value
  BY DEF publish, ServicesTypeOK
<1>2. CASE topic = t /\ Shows(e)
  BY <1>1, <1>2, TruthIsSent
<1>3. CASE ~(topic = t /\ Shows(e))
  <2>1. kind # "SetPowerProfile" \/ t # "profile"
    BY <1>1, <1>3 DEF Shows, Shown
  <2>2. Asked(t) => Asked(t)'
    BY <2>1, ChoiceStays
  <2>3. view' = view /\ told' = told
    BY DEF Dispatch, desktopVars
  <2>4. OnItsWay(t) \/ AsShown(t)
    BY <1>1 DEF ToldInv
  <2>5. \A v : Fits(t, v) => Fits(t, v)'
    BY <1>3
  <2>6. QED
    BY <1>1, <1>3, <2>2, <2>3, <2>4, <2>5, TruthStays
<1>4. QED
  BY <1>2, <1>3

(* A handler that changes nothing the desktop shows keeps it: one that     *)
(* publishes nothing, and one whose event is of no topic that is shown.    *)
LEMMA SilentHandler ==
  ASSUME ServicesTypeOK, ToldInv, NEW c \in Clients, NEW kind, NEW arg, Dispatch(c, kind, arg),
         UNCHANGED wireVars, kind # "SetPowerProfile",
         \A t \in Shown : \A v : Fits(t, v) => Fits(t, v)'
  PROVE  ToldInv'
<1> SUFFICES ASSUME subscribed', NEW t \in Shown PROVE OnItsWay(t)' \/ AsShown(t)'
  BY DEF ToldInv
<1>1. events \in Seq(Events) /\ events' = events /\ (OnItsWay(t) \/ AsShown(t))
  BY DEF ToldInv, wireVars, ServicesTypeOK
<1>2. Asked(t) => Asked(t)'
  BY ChoiceStays
<1>3. view' = view /\ told' = told
  BY DEF Dispatch, desktopVars
<1>4. QED
  BY <1>1, <1>2, <1>3, TruthStays

(* Nor does one whose event is not shown.                                  *)
LEMMA OffScreenTells ==
  ASSUME ServicesTypeOK, ToldInv, NEW c \in Clients, NEW kind, NEW arg, Dispatch(c, kind, arg),
         NEW topic \in {"bluetooth", "first_boot", "report"}, publish(topic, None),
         kind # "SetPowerProfile",
         \A t \in Shown : \A v : Fits(t, v) => Fits(t, v)'
  PROVE  ToldInv'
<1> DEFINE e == [topic |-> topic, value |-> None]
<1>1. e \in Events
  BY ValuesHold DEF Events
<1>2. ~Shows(e)
  BY DEF Shows, Shown
<1>3. QED
  BY <1>1, <1>2, HandlerTells

(* Hearing an event moves what it tells from the queue to the screen.      *)
LEMMA HearingMoves == ServicesTypeOK /\ ToldInv /\ hear => ToldInv'
<1> SUFFICES ASSUME ServicesTypeOK, hear, NEW t \in Shown, OnItsWay(t) \/ AsShown(t)
             PROVE  OnItsWay(t)' \/ AsShown(t)'
  BY DEF ToldInv, hear
<1> DEFINE e == Head(events)
<1>1. /\ events \in Seq(Events) /\ events # <<>> /\ events' = Tail(events)
      /\ events[1] = e /\ e \in Events
  BY DEF ServicesTypeOK, hear
<1>2. /\ \A i \in Telling(t)' : i + 1 \in Telling(t) /\ events'[i] = events[i + 1]
      /\ \A i \in Telling(t) : i > 1 => i - 1 \in Telling(t)' /\ events'[i - 1] = events[i]
      /\ Telling(t)' \subseteq Nat \ {0} /\ Telling(t) \subseteq Nat \ {0}
  BY <1>1 DEF Telling
<1>3. \A v : Fits(t, v) <=> Fits(t, v)'
  BY DEF hear, Fits, serviceVars, powerVars, networkVars, motionVars
<1>4. Asked(t) => Asked(t)'
  BY DEF hear, Asked, Queued
<1>5. CASE OnItsWay(t)
  <2>1. PICK i \in Telling(t) : Fits(t, events[i].value) /\ \A j \in Telling(t) : j <= i
    BY <1>5 DEF OnItsWay
  <2>2. CASE i > 1
    <3>1. i - 1 \in Telling(t)' /\ Fits(t, events[i - 1].value)'
      BY <1>2, <1>3, <2>1, <2>2
    <3>2. \A j \in Telling(t)' : j <= i - 1
      BY <1>2, <2>1
    <3>3. QED
      BY <1>2, <1>3, <2>1, <2>2, <3>1, <3>2 DEF OnItsWay
  <2>3. CASE i = 1
    <3>1. Telling(t)' = {}
      BY <1>2, <2>1, <2>3
    <3>2. e.topic = t /\ Shows(e) /\ Fits(t, e.value)
      BY <1>1, <2>1, <2>3 DEF Telling
    <3>3. view'[t] = e.value
      BY <3>2 DEF hear, ServicesTypeOK
    <3>4. QED
      BY <1>3, <3>1, <3>2, <3>3 DEF AsShown
  <2>4. QED
    BY <1>2, <2>1, <2>2, <2>3
<1>6. CASE AsShown(t)
  <2>1. Telling(t) = {}
    BY <1>6 DEF AsShown
  <2>2. Telling(t)' = {}
    BY <1>2, <2>1
  <2>3. ~(e.topic = t /\ Shows(e))
    BY <1>1, <2>1 DEF Telling
  <2>4. view'[t] = view[t] /\ (t \in told' => t \in told)
    BY <2>3 DEF hear, ServicesTypeOK
  <2>5. QED
    BY <1>3, <1>4, <1>6, <2>2, <2>4 DEF AsShown
<1>7. QED
  BY <1>5, <1>6

(* A step that publishes nothing and changes no service keeps it, if no    *)
(* choice is lost of which the desktop still believes that it was heard.   *)
LEMMA NothingTold ==
  ASSUME ServicesTypeOK, ToldInv, UNCHANGED <<events, serviceVars>>, subscribed' => subscribed,
         \A t \in Shown : t \in told' => Asked(t)' \/ (t \in told /\ view'[t] = view[t] /\ ~Asked(t))
  PROVE  ToldInv'
<1> SUFFICES ASSUME subscribed', NEW t \in Shown PROVE OnItsWay(t)' \/ AsShown(t)'
  BY DEF ToldInv
<1>1. events' = events /\ (OnItsWay(t) \/ AsShown(t))
  BY DEF ToldInv
<1>2. Telling(t)' = Telling(t) /\ \A v : Fits(t, v)' <=> Fits(t, v)
  BY <1>1 DEF Telling, Fits, serviceVars, powerVars, networkVars, motionVars
<1>3. CASE OnItsWay(t)
  BY <1>1, <1>2, <1>3 DEF OnItsWay
<1>4. CASE AsShown(t)
  BY <1>2, <1>4 DEF AsShown
<1>5. QED
  BY <1>1, <1>3, <1>4

(* When nothing is under way between the processes and the desktop's       *)
(* stream has not been discarded, the desktop shows the state of the       *)
(* services wherever it has been told of it: for any number of clients,    *)
(* requests, lost streams, unsent choices and restarts of the desktop.     *)
THEOREM QuietDesktopIsRight == ServicesSpec => []QuietMeansTold
<1>1. ServicesInit => ToldInv
  BY DEF ServicesInit, ToldInv, AsShown, Telling, Fits, Defaults, Shown, Final
<1>2. ServicesTypeOK /\ ToldInv /\ [ServicesNext]_servicesVars => ToldInv'
  <2> SUFFICES ASSUME ServicesTypeOK, ToldInv, [ServicesNext]_servicesVars PROVE ToldInv'
    OBVIOUS
  <2> USE ValuesHold
  <2>1. ASSUME NEW c \in Clients, NEW p \in Profiles, SetPowerProfile(c, p) PROVE ToldInv'
    <3> DEFINE e == [topic |-> "profile", value |-> p]
    <3>1. e \in Events
      BY DEF Events, Shown
    <3>2. \A t \in Shown : IF "profile" = t /\ Shows(e) THEN Fits(t, p)'
                           ELSE \A v : Fits(t, v) => Fits(t, v)'
      BY <2>1 DEF SetPowerProfile, Fits, Shows, networkVars, motionVars
    <3>3. QED
      BY <2>1, <3>1, <3>2, HandlerTells DEF SetPowerProfile
  <2>2. ASSUME NEW c \in Clients, NEW s \in Targets, RequestPowerState(c, s) PROVE ToldInv'
    <3> DEFINE e == [topic |-> "screen", value |-> s]
    <3>1. e \in Events
      BY DEF Events, Shown
    <3>2. \A t \in Shown : IF "screen" = t /\ Shows(e) THEN Fits(t, s)'
                           ELSE \A v : Fits(t, v) => Fits(t, v)'
      BY <2>2 DEF RequestPowerState, Transition, Final, Fits, Shows, networkVars, motionVars
    <3>3. QED
      BY <2>2, <3>1, <3>2, HandlerTells DEF RequestPowerState
  <2>3. ASSUME NEW c \in Clients, NEW ssid \in Ssids, ConnectWifi(c, ssid) PROVE ToldInv'
    <3>1. PICK n \in Ssids \cup {None} : active_connection' = n
      BY <2>3 DEF ConnectWifi, Connect
    <3> DEFINE e == [topic |-> "network", value |-> n]
    <3>2. e \in Events /\ publish("network", n)
      BY <2>3, <3>1 DEF ConnectWifi, publish, Events, Shown
    <3>3. \A t \in Shown : IF "network" = t /\ Shows(e) THEN Fits(t, n)'
                           ELSE \A v : Fits(t, v) => Fits(t, v)'
      BY <2>3, <3>1 DEF ConnectWifi, Fits, Shows, powerVars, motionVars
    <3>4. QED
      BY <2>3, <3>2, <3>3, HandlerTells DEF ConnectWifi
  <2>4. ASSUME NEW c \in Clients, NEW ssid \in Ssids \cup {None}, FirstBootWizardComplete(c, ssid)
        PROVE  ToldInv'
    <3>1. \A t \in Shown : \A v : Fits(t, v) => Fits(t, v)'
      BY <2>4 DEF FirstBootWizardComplete, Fits, networkVars, powerVars, motionVars
    <3>2. CASE UNCHANGED wireVars
      BY <2>4, <3>1, <3>2, SilentHandler DEF FirstBootWizardComplete
    <3>3. CASE publish("first_boot", None)
      BY <2>4, <3>1, <3>3, OffScreenTells DEF FirstBootWizardComplete
    <3>4. QED
      BY <2>4, <3>2, <3>3 DEF FirstBootWizardComplete
  <2>5. ASSUME NEW c \in Clients, NEW s \in Settings, SetTouchpadConfig(c, s) PROVE ToldInv'
    <3> DEFINE e == [topic |-> "touchpad", value |-> s]
    <3>1. e \in Events
      BY DEF Events, Shown
    <3>2. \A t \in Shown : IF "touchpad" = t /\ Shows(e) THEN Fits(t, s)'
                           ELSE \A v : Fits(t, v) => Fits(t, v)'
      BY <2>5 DEF SetTouchpadConfig, Fits, Shows, powerVars, networkVars
    <3>3. QED
      BY <2>5, <3>1, <3>2, HandlerTells DEF SetTouchpadConfig
  <2>6. ASSUME NEW c \in Clients, NEW s \in Settings, SetKeyboardConfig(c, s) PROVE ToldInv'
    <3> DEFINE e == [topic |-> "keyboard", value |-> s]
    <3>1. e \in Events
      BY DEF Events, Shown
    <3>2. \A t \in Shown : IF "keyboard" = t /\ Shows(e) THEN Fits(t, s)'
                           ELSE \A v : Fits(t, v) => Fits(t, v)'
      BY <2>6 DEF SetKeyboardConfig, Fits, Shows, powerVars, networkVars
    <3>3. QED
      BY <2>6, <3>1, <3>2, HandlerTells DEF SetKeyboardConfig
  <2>7. ASSUME NEW c \in Clients, NEW arg \in {"on", "off"}, SetBluetoothPower(c, arg) PROVE ToldInv'
    <3>1. \A t \in Shown : \A v : Fits(t, v) => Fits(t, v)'
      BY <2>7 DEF SetBluetoothPower, BluetoothStatus, Fits, networkVars, powerVars, motionVars
    <3>2. QED
      BY <2>7, <3>1, OffScreenTells DEF SetBluetoothPower, BluetoothStatus
  <2>8. ASSUME NEW c \in Clients, StartBluetoothScan(c) \/ StopBluetoothScan(c) PROVE ToldInv'
    <3>1. \A t \in Shown : \A v : Fits(t, v) => Fits(t, v)'
      BY <2>8 DEF StartBluetoothScan, StopBluetoothScan, BluetoothStatus, Fits,
         networkVars, powerVars, motionVars
    <3>2. QED
      BY <2>8, <3>1, OffScreenTells DEF StartBluetoothScan, StopBluetoothScan, BluetoothStatus
  <2>9. ASSUME NEW c \in Clients, NEW d \in Devices,
               ConnectBluetoothDevice(c, d) \/ DisconnectBluetoothDevice(c, d)
        PROVE  ToldInv'
    <3>1. \A t \in Shown : \A v : Fits(t, v) => Fits(t, v)'
      BY <2>9 DEF ConnectBluetoothDevice, DisconnectBluetoothDevice, BluetoothStatus, Fits,
         networkVars, powerVars, motionVars
    <3>2. QED
      BY <2>9, <3>1, OffScreenTells
         DEF ConnectBluetoothDevice, DisconnectBluetoothDevice, BluetoothStatus
  <2>10. ASSUME NEW c \in Clients, Report(c) PROVE ToldInv'
    <3>1. \A t \in Shown : \A v : Fits(t, v) => Fits(t, v)'
      BY <2>10 DEF Report, Fits, serviceVars, networkVars, powerVars, motionVars
    <3>2. QED
      BY <2>10, <3>1, OffScreenTells DEF Report
  <2>11. ASSUME NEW c \in Clients, ask(c) PROVE ToldInv'
    <3>1. PICK r \in Requests : Sends(c, r)
      BY <2>11 DEF ask
    <3>2. Queued => Queued'
      <4>1. \A i \in DOMAIN requests[Desktop] :
              i \in DOMAIN requests'[Desktop] /\ requests'[Desktop][i] = requests[Desktop][i]
        BY <3>1 DEF Sends, ServicesTypeOK
      <4>2. QED
        BY <4>1 DEF Queued
    <3>3. \A t \in Shown : Asked(t) => Asked(t)'
      BY <2>11, <3>2 DEF ask, desktopVars, Asked
    <3>4. QED
      BY <2>11, <3>3, NothingTold DEF ask, desktopVars, wireVars
  <2>12. ASSUME NEW p \in Profiles, select_profile(p) PROVE ToldInv'
    <3>1. Asked("profile")'
      BY <2>12 DEF select_profile, Asked
    <3>2. ASSUME NEW t \in Shown \ {"profile"}, t \in told'
          PROVE  t \in told /\ view'[t] = view[t] /\ ~Asked(t)
      BY <2>12, <3>2 DEF select_profile, Asked, ServicesTypeOK
    <3>3. QED
      BY <2>12, <3>1, <3>2, NothingTold DEF select_profile, wireVars
  <2>13. CASE hear
    BY <2>13, HearingMoves
  <2>14. CASE Restart
    BY <2>14 DEF Restart, ToldInv, AsShown, Telling
  <2>15. CASE GoDown \/ UNCHANGED servicesVars
    <3>1. \A t \in Shown : Asked(t) => Asked(t)'
      BY <2>15 DEF GoDown, servicesVars, desktopVars, Asked, Queued
    <3>2. QED
      BY <2>15, <3>1, NothingTold DEF GoDown, servicesVars, desktopVars, wireVars
  <2>16. CASE send_choice
    <3>1. CASE Sends(Desktop, [kind |-> "SetPowerProfile", arg |-> chosen]) /\ UNCHANGED told
      <4> DEFINE r == [kind |-> "SetPowerProfile", arg |-> chosen]
      <4>1. requests[Desktop] \in Seq(Requests) /\ requests'[Desktop] = Append(requests[Desktop], r)
        BY <3>1 DEF Sends, ServicesTypeOK
      <4>2. /\ Len(requests[Desktop]) + 1 \in DOMAIN requests'[Desktop]
            /\ requests'[Desktop][Len(requests[Desktop]) + 1].kind = "SetPowerProfile"
        BY <4>1
      <4>3. Asked("profile")'
        BY <4>2 DEF Asked, Queued
      <4>4. \A t \in Shown \ {"profile"} : ~Asked(t)
        BY DEF Asked
      <4>5. QED
        BY <2>16, <3>1, <4>3, <4>4, NothingTold DEF send_choice, wireVars
    <3>2. CASE Unheard
      <4>1. \A t \in Shown : t \in told' => t \in told /\ ~Asked(t)
        BY <3>2 DEF Unheard, Asked
      <4>2. QED
        BY <2>16, <4>1, NothingTold DEF send_choice, wireVars
    <3>3. QED
      BY <2>16, <3>1, <3>2 DEF send_choice
  <2>17. ASSUME NEW c \in Clients, drop_requests(c) PROVE ToldInv'
    <3>1. CASE c = Desktop
      <4>1. \A t \in Shown : t \in told' => t \in told /\ ~Asked(t)
        BY <2>17, <3>1 DEF drop_requests, Unheard, Asked
      <4>2. QED
        BY <2>17, <4>1, NothingTold DEF drop_requests
    <3>2. CASE c # Desktop
      <4>1. requests'[Desktop] = requests[Desktop]
        BY <2>17, <3>2 DEF drop_requests, ServicesTypeOK
      <4>2. \A t \in Shown : Asked(t) => Asked(t)'
        BY <2>17, <4>1 DEF drop_requests, Asked, Queued
      <4>3. QED
        BY <2>17, <3>2, <4>2, NothingTold DEF drop_requests
    <3>3. QED
      BY <3>1, <3>2
  <2>18. QED
    BY <2>1, <2>2, <2>3, <2>4, <2>5, <2>6, <2>7, <2>8, <2>9, <2>10, <2>11, <2>12, <2>13, <2>14,
       <2>15, <2>16, <2>17 DEF ServicesNext, Handle
<1>3. ServicesTypeOK /\ ToldInv => QuietMeansTold
  BY DEF ServicesTypeOK, ToldInv, OnItsWay, AsShown, Asked, Queued, Telling, QuietMeansTold
<1>4. QED
  BY <1>1, <1>2, <1>3, ServicesTypeCorrect, PTL DEF ServicesSpec

HIDE ServicesAssumption

-----------------------------------------------------------------------------
(***************************************************************************)
(* The log.  That the ring is the end of what was pushed is inductive;     *)
(* that each thread's records come in the order of their timestamps needs  *)
(* the invariant that a record stamped and not yet pushed is newer than    *)
(* all its thread has pushed, though it may be older than what the other   *)
(* thread pushed meanwhile.                                                *)
(***************************************************************************)
USE AstrophageAssumption

TailOfPushed ==
  /\ Len(entries) = (IF Len(pushed) < Capacity THEN Len(pushed) ELSE Capacity)
  /\ \A i \in DOMAIN entries : entries[i] = pushed[Len(pushed) - Len(entries) + i]

StampsInOrder ==
  /\ \A w \in Writers : stamped[w] # NoRecord => stamped[w].by = w /\ stamped[w].stamp <= clock
  /\ \A i \in DOMAIN pushed : pushed[i].stamp <= clock
  /\ \A w \in Writers, i \in DOMAIN pushed :
       stamped[w] # NoRecord /\ pushed[i].by = w => pushed[i].stamp < stamped[w].stamp
  /\ \A i, j \in DOMAIN pushed :
       i < j /\ pushed[i].by = pushed[j].by => pushed[i].stamp < pushed[j].stamp

(* Every reachable value of every variable is one the code can hold, for   *)
(* any capacity and any number of records.                                 *)
THEOREM AstrophageTypeCorrect == AstrophageSpec => []AstrophageTypeOK
<1>1. AstrophageInit => AstrophageTypeOK
  BY DEF AstrophageInit, AstrophageTypeOK
<1>2. AstrophageTypeOK /\ [AstrophageNext]_astrophageVars => AstrophageTypeOK'
  <2> SUFFICES ASSUME AstrophageTypeOK, [AstrophageNext]_astrophageVars PROVE AstrophageTypeOK'
    OBVIOUS
  <2> USE DEF AstrophageTypeOK
  <2>1. ASSUME NEW w \in Writers, NEW what \in Things, Stamp(w, what)
        PROVE  clock' \in Nat /\ stamped' \in [Writers -> Records \cup {NoRecord}]
    <3>1. clock' \in Nat \ {0}
      BY <2>1 DEF Stamp
    <3>2. [what |-> what, by |-> w, stamp |-> clock'] \in Records
      BY <3>1 DEF Records
    <3>3. QED
      BY <2>1, <3>1, <3>2 DEF Stamp
  <2>2. CASE log_problem
    <3>1. problems' \in Nat /\ <<"problem", problems'>> \in Things
      BY <2>2 DEF log_problem, Things
    <3>2. QED
      BY <2>1, <2>2, <3>1 DEF log_problem, ringVars, Writers
  <2>3. CASE KernelMessage
    BY <2>3 DEF KernelMessage, ringVars
  <2>4. CASE Round
    <3>1. read_available \in Seq(Things)
      BY DEF read_available, Things
    <3>2. Sampled \in Seq(Things)
      BY DEF Sampled, Things
    <3>3. sampling' \in Seq(Things)
      BY <2>4, <3>1, <3>2 DEF Round
    <3>4. QED
      BY <2>4, <3>3 DEF Round, ringVars
  <2>5. CASE RecordNext
    <3>1. Head(sampling) \in Things /\ sampling' \in Seq(Things)
      BY <2>5 DEF RecordNext
    <3>2. QED
      BY <2>1, <2>5, <3>1 DEF RecordNext, ringVars, Writers
  <2>6. ASSUME NEW w \in Writers, push_back(w) PROVE AstrophageTypeOK'
    <3>1. stamped[w] \in Records /\ Room \in Seq(Records)
      BY <2>6 DEF push_back, Room
    <3>2. entries' \in Seq(Records) /\ pushed' \in Seq(Records)
      BY <2>6, <3>1 DEF push_back
    <3>3. QED
      BY <2>6, <3>2 DEF push_back
  <2>7. CASE UNCHANGED astrophageVars
    BY <2>7 DEF astrophageVars, ringVars
  <2>8. QED
    BY <2>2, <2>3, <2>4, <2>5, <2>6, <2>7 DEF AstrophageNext
<1>3. QED
  BY <1>1, <1>2, PTL DEF AstrophageSpec

(* The ring is the end of what was pushed.                                 *)
LEMMA RingIsTail == AstrophageSpec => []TailOfPushed
<1>1. AstrophageInit => TailOfPushed
  BY DEF AstrophageInit, TailOfPushed
<1>2. AstrophageTypeOK /\ TailOfPushed /\ [AstrophageNext]_astrophageVars => TailOfPushed'
  <2> SUFFICES ASSUME AstrophageTypeOK, TailOfPushed, [AstrophageNext]_astrophageVars
               PROVE  TailOfPushed'
    OBVIOUS
  <2>1. ASSUME NEW w \in Writers, push_back(w) PROVE TailOfPushed'
    <3> DEFINE r == stamped[w]
    <3>1. /\ entries \in Seq(Records) /\ pushed \in Seq(Records) /\ r \in Records
          /\ entries' = Append(Room, r) /\ pushed' = Append(pushed, r)
      BY <2>1 DEF AstrophageTypeOK, push_back
    <3>2. CASE Len(entries) >= Capacity
      <4>1. Len(entries) = Capacity /\ Len(pushed) >= Capacity
        BY <3>1, <3>2 DEF TailOfPushed
      <4>2. Len(entries') = Capacity /\ Len(pushed') = Len(pushed) + 1
        BY <3>1, <3>2, <4>1 DEF Room
      <4>3. \A i \in 1 .. Capacity - 1 : entries'[i] = entries[i + 1]
        BY <3>1, <3>2, <4>1 DEF Room
      <4>4. ASSUME NEW i \in 1 .. Capacity - 1
            PROVE  entries[i + 1] = pushed'[Len(pushed) - Capacity + i + 1]
        <5>1. i + 1 \in DOMAIN entries /\ Len(pushed) - Capacity + i + 1 \in DOMAIN pushed
          BY <3>1, <4>1
        <5>2. entries[i + 1] = pushed[Len(pushed) - Len(entries) + (i + 1)]
          BY <5>1 DEF TailOfPushed
        <5>3. QED
          BY <3>1, <4>1, <5>1, <5>2
      <4>5. entries'[Capacity] = r /\ pushed'[Len(pushed) + 1] = r
        BY <3>1, <3>2, <4>1 DEF Room
      <4>6. QED
        <5>1. DOMAIN entries' = 1 .. Capacity
          BY <3>1, <3>2, <4>2 DEF Room
        <5>2. \A i \in 1 .. Capacity : entries'[i] = pushed'[Len(pushed') - Len(entries') + i]
          <6> SUFFICES ASSUME NEW i \in 1 .. Capacity
                       PROVE  entries'[i] = pushed'[Len(pushed') - Len(entries') + i]
            OBVIOUS
          <6>1. Len(pushed) \in Nat /\ Len(pushed') - Len(entries') + i = Len(pushed) - Capacity + i + 1
            BY <3>1, <4>2
          <6>2. CASE i = Capacity
            <7>1. Len(pushed) - Capacity + i + 1 = Len(pushed) + 1
              BY <6>1, <6>2
            <7>2. QED
              BY <4>5, <6>1, <6>2, <7>1
          <6>3. CASE i \in 1 .. Capacity - 1
            BY <4>3, <4>4, <6>1, <6>3
          <6>4. QED
            BY <6>2, <6>3
        <5>3. QED
          BY <4>1, <4>2, <5>1, <5>2 DEF TailOfPushed
    <3>3. CASE Len(entries) < Capacity
      <4>1. Len(entries) = Len(pushed) /\ \A i \in DOMAIN entries : entries[i] = pushed[i]
        BY <3>1, <3>3 DEF TailOfPushed
      <4>2. entries' = Append(entries, r)
        BY <3>1, <3>3 DEF Room
      <4>3. QED
        BY <3>1, <3>3, <4>1, <4>2 DEF TailOfPushed
    <3>4. QED
      BY <3>1, <3>2, <3>3
  <2>2. CASE UNCHANGED ringVars
    BY <2>2 DEF TailOfPushed, ringVars
  <2>3. QED
    BY <2>1, <2>2 DEF AstrophageNext, log_problem, KernelMessage, Round, RecordNext, astrophageVars
<1>3. QED
  BY <1>1, <1>2, AstrophageTypeCorrect, PTL DEF AstrophageSpec

(* Each thread's records are pushed in the order of their timestamps.      *)
LEMMA PushedInOrder == AstrophageSpec => []StampsInOrder
<1>1. AstrophageInit => StampsInOrder
  BY DEF AstrophageInit, StampsInOrder
<1>2. AstrophageTypeOK /\ StampsInOrder /\ [AstrophageNext]_astrophageVars => StampsInOrder'
  <2> SUFFICES ASSUME AstrophageTypeOK, StampsInOrder, [AstrophageNext]_astrophageVars
               PROVE  StampsInOrder'
    OBVIOUS
  <2>1. ASSUME NEW w \in Writers, NEW what \in Things, Stamp(w, what), UNCHANGED ringVars
        PROVE  StampsInOrder'
    <3> DEFINE r == [what |-> what, by |-> w, stamp |-> clock + 1]
    <3>1. /\ stamped' = [stamped EXCEPT ![w] = r] /\ clock' = clock + 1
          /\ pushed' = pushed /\ clock \in Nat /\ pushed \in Seq(Records)
          /\ stamped \in [Writers -> Records \cup {NoRecord}]
      BY <2>1 DEF Stamp, ringVars, AstrophageTypeOK
    <3>2. \A i \in DOMAIN pushed : pushed[i].stamp \in Nat /\ pushed[i].stamp <= clock
      <4>1. \A i \in DOMAIN pushed : pushed[i] \in Records
        BY <3>1
      <4>2. QED
        BY <4>1 DEF StampsInOrder, Records
    <3>3. r.by = w /\ \A i \in DOMAIN pushed : pushed[i].stamp < r.stamp
      BY <3>1, <3>2
    <3>4. \A i \in DOMAIN pushed' : pushed'[i].stamp <= clock'
      BY <3>1, <3>2
    <3>5. \A v \in Writers : stamped'[v] # NoRecord =>
             /\ stamped'[v].by = v /\ stamped'[v].stamp <= clock'
             /\ \A i \in DOMAIN pushed' : pushed'[i].by = v => pushed'[i].stamp < stamped'[v].stamp
      BY <3>1, <3>3 DEF StampsInOrder, Records
    <3>6. QED
      BY <3>1, <3>4, <3>5 DEF StampsInOrder
  <2>2. ASSUME NEW w \in Writers, push_back(w) PROVE StampsInOrder'
    <3> DEFINE r == stamped[w]
    <3>1. /\ pushed \in Seq(Records) /\ r \in Records /\ r.by = w /\ r # NoRecord
          /\ pushed' = Append(pushed, r) /\ clock' = clock
          /\ stamped' = [stamped EXCEPT ![w] = NoRecord]
      BY <2>2 DEF AstrophageTypeOK, push_back, StampsInOrder
    <3>2. /\ DOMAIN pushed' = 1 .. Len(pushed) + 1 /\ DOMAIN pushed = 1 .. Len(pushed)
          /\ \A i \in DOMAIN pushed : pushed'[i] = pushed[i]
          /\ pushed'[Len(pushed) + 1] = r
      BY <3>1
    <3>3. r.stamp \in Nat /\ r.stamp <= clock
      BY <3>1 DEF Records, StampsInOrder
    <3>4. \A i \in DOMAIN pushed' : pushed'[i].stamp <= clock'
      BY <3>1, <3>2, <3>3 DEF StampsInOrder
    <3>5. \A i \in DOMAIN pushed : pushed[i].by = w => pushed[i].stamp < r.stamp
      BY <3>1 DEF StampsInOrder
    <3>6. \A i, j \in DOMAIN pushed' :
            i < j /\ pushed'[i].by = pushed'[j].by => pushed'[i].stamp < pushed'[j].stamp
      BY <3>1, <3>2, <3>5 DEF StampsInOrder
    <3>7. \A v \in Writers : stamped'[v] # NoRecord => v # w /\ stamped'[v] = stamped[v]
      BY <3>1 DEF AstrophageTypeOK
    <3>8. \A v \in Writers, i \in DOMAIN pushed' :
            stamped'[v] # NoRecord /\ pushed'[i].by = v => pushed'[i].stamp < stamped'[v].stamp
      BY <3>1, <3>2, <3>7 DEF StampsInOrder
    <3>9. \A v \in Writers : stamped'[v] # NoRecord => stamped'[v].by = v /\ stamped'[v].stamp <= clock'
      BY <3>1, <3>7 DEF StampsInOrder
    <3>10. QED
      BY <3>4, <3>6, <3>8, <3>9 DEF StampsInOrder
  <2>3. CASE UNCHANGED <<ringVars, stamped, clock>>
    BY <2>3 DEF StampsInOrder, ringVars
  <2>4. CASE log_problem
    <3>1. <<"problem", problems'>> \in Things
      BY <2>4 DEF log_problem, Things, AstrophageTypeOK
    <3>2. QED
      BY <2>1, <2>4, <3>1 DEF log_problem, Writers
  <2>5. CASE RecordNext
    <3>1. Head(sampling) \in Things
      BY <2>5 DEF RecordNext, AstrophageTypeOK
    <3>2. QED
      BY <2>1, <2>5, <3>1 DEF RecordNext, Writers
  <2>6. QED
    BY <2>2, <2>3, <2>4, <2>5 DEF AstrophageNext, KernelMessage, Round, astrophageVars
<1>3. QED
  BY <1>1, <1>2, AstrophageTypeCorrect, PTL DEF AstrophageSpec

(* A reader that asks for the newest records, however many, sees the end   *)
(* of what was pushed, and each thread's records in the order it made      *)
(* them, however the threads' timestamps and pushes interleave.            *)
THEOREM ReaderSeesNewest == AstrophageSpec => []NewestInOrder
<1>1. AstrophageTypeOK /\ TailOfPushed /\ StampsInOrder => NewestInOrder
  <2> SUFFICES ASSUME AstrophageTypeOK, TailOfPushed, StampsInOrder,
                      NEW limit \in 1 .. Capacity,
                      NEW i \in DOMAIN Recent(limit), NEW j \in DOMAIN Recent(limit),
                      i < j, Recent(limit)[i].by = Recent(limit)[j].by
               PROVE  Recent(limit)[i].stamp < Recent(limit)[j].stamp
    BY DEF TailOfPushed, NewestInOrder
  <2> DEFINE n == IF Len(entries) > limit THEN Len(entries) - limit ELSE 0
             m == Len(pushed) - Len(entries) + n
  <2>1. /\ entries \in Seq(Records) /\ pushed \in Seq(Records) /\ n \in 0 .. Len(entries)
        /\ Recent(limit) = SubSeq(entries, n + 1, Len(entries))
    BY DEF AstrophageTypeOK, Recent
  <2> HIDE DEF n
  <2>2. /\ DOMAIN Recent(limit) = 1 .. Len(entries) - n
        /\ \A k \in DOMAIN Recent(limit) : Recent(limit)[k] = entries[n + k]
    BY <2>1
  <2>3. /\ Recent(limit)[i] = pushed[m + i] /\ Recent(limit)[j] = pushed[m + j]
        /\ m + i \in DOMAIN pushed /\ m + j \in DOMAIN pushed /\ m + i < m + j
    <3>1. i \in Nat /\ j \in Nat /\ n + i \in DOMAIN entries /\ n + j \in DOMAIN entries
      BY <2>1, <2>2
    <3>2. /\ entries[n + i] = pushed[Len(pushed) - Len(entries) + (n + i)]
          /\ entries[n + j] = pushed[Len(pushed) - Len(entries) + (n + j)]
      BY <3>1 DEF TailOfPushed
    <3>3. Len(entries) <= Len(pushed) /\ Len(entries) \in Nat /\ Len(pushed) \in Nat
      BY <2>1 DEF TailOfPushed
    <3>4. /\ m + i = Len(pushed) - Len(entries) + (n + i)
          /\ m + j = Len(pushed) - Len(entries) + (n + j)
      BY <2>1, <3>1, <3>3
    <3>5. m + i \in 1 .. Len(pushed) /\ m + j \in 1 .. Len(pushed) /\ m + i < m + j
      <4>1. n + i \in 1 .. Len(entries) /\ n + j \in 1 .. Len(entries)
        BY <2>1, <3>1
      <4>2. QED
        BY <2>1, <3>1, <3>3, <4>1
    <3>6. Recent(limit)[i] = pushed[m + i] /\ Recent(limit)[j] = pushed[m + j]
      BY <2>2, <3>2, <3>4
    <3>7. QED
      BY <2>1, <3>5, <3>6
  <2>4. QED
    BY <2>3 DEF StampsInOrder
<1>2. QED
  BY <1>1, AstrophageTypeCorrect, RingIsTail, PushedInOrder, PTL

HIDE AstrophageAssumption

-----------------------------------------------------------------------------
(***************************************************************************)
(* The notifications.  That banners make way is inductive with the types   *)
(* of the queues.  A push adds one banner that stays and sends at most one *)
(* away, which is enough: were there more than max_visible before, all of  *)
(* them were critical, and the one that may go is the new one itself.      *)
(* Everything else only lets banners leave: those that stay after it can   *)
(* be led back one-to-one to those that stayed before, by the places where *)
(* Retain found them.                                                      *)
(***************************************************************************)
USE NotificationsAssumption

(* The places of the banners that stay, and what is claimed of them.       *)
Stay(s) == {i \in DOMAIN s : Staying(s[i])}

MakesWay(s) ==
  Cardinality(Stay(s)) <= MaxVisible \/ \A i \in Stay(s) : Critical(s[i])

NoticeTypes ==
  /\ notification_id_seq \in 1 .. MaxNotifications + 1
  /\ dispatched \subseteq [id : 1 .. MaxNotifications, urgency : Urgencies]
  /\ banners \in Seq(Banner)

NoticeInv == NoticeTypes /\ MakesWay(banners)

(* A place in a sequence has a last one.                                   *)
LEMMA LastPlace ==
  ASSUME NEW n \in Nat, NEW C, C \subseteq 1 .. n, C # {}
  PROVE  \E i \in C : \A j \in C : j <= i
<1> DEFINE D == {k \in Nat : k <= n /\ n - k \in C}
           Lower == OpToRel(<, Nat)
<1>1. D \subseteq Nat /\ D # {}
  <2>1. PICK i \in C : TRUE
    OBVIOUS
  <2>2. n - i \in Nat /\ n - (n - i) = i
    BY <2>1
  <2>3. n - i \in D
    BY <2>1, <2>2
  <2>4. QED
    BY <2>3
<1>2. IsWellFoundedOn(Lower, Nat)
  BY NatLessThanWellFounded, Zenon
<1>3. \A x, y \in Nat : x < y => <<x, y>> \in Lower
  BY DEF OpToRel
<1> HIDE DEF Lower
<1>4. PICK k \in D : \A m \in D : ~(<<m, k>> \in Lower)
  <2> HIDE DEF D
  <2>1. QED
    BY <1>1, <1>2, WFMin
<1>5. n - k \in C
  OBVIOUS
<1>6. ASSUME NEW j \in C PROVE j <= n - k
  <2>1. n - j \in Nat /\ n - (n - j) = j /\ n - j <= n
    BY <1>6
  <2>2. n - j \in D
    BY <2>1, <1>6
  <2>3. ~(n - j < k)
    BY <1>3, <1>4, <2>1, <2>2
  <2>4. QED
    BY <2>1, <2>3
<1>7. QED
  BY <1>5, <1>6

(* No more stay than there are.                                            *)
LEMMA StayFinite ==
  ASSUME NEW s \in Seq(Banner)
  PROVE  /\ IsFiniteSet(Stay(s)) /\ Cardinality(Stay(s)) \in Nat
         /\ Cardinality(Stay(s)) <= Len(s)
<1>1. IsFiniteSet(1 .. Len(s)) /\ Cardinality(1 .. Len(s)) = Len(s)
  BY FS_Interval
<1>2. Stay(s) \in SUBSET (1 .. Len(s))
  BY DEF Stay
<1>3. QED
  BY <1>1, <1>2, FS_Subset, FS_CardinalityType

(* What is led back one-to-one to banners that stayed, no less critical    *)
(* than they, makes way as they did.                                       *)
LEMMA FewerStay ==
  ASSUME NEW s \in Seq(Banner), NEW t \in Seq(Banner), MakesWay(s),
         NEW place \in [Stay(t) -> Stay(s)],
         \A i, j \in Stay(t) : place[i] = place[j] => i = j,
         \A i \in Stay(t) : Critical(s[place[i]]) => Critical(t[i])
  PROVE  MakesWay(t)
<1>1. place \in Injection(Stay(t), Stay(s))
  BY DEF Injection, IsInjective
<1>2. Cardinality(Stay(t)) <= Cardinality(Stay(s))
  BY <1>1, StayFinite, FS_Injection
<1>3. Cardinality(Stay(t)) \in Nat /\ Cardinality(Stay(s)) \in Nat
  BY StayFinite
<1>4. CASE Cardinality(Stay(s)) <= MaxVisible
  BY <1>2, <1>3, <1>4 DEF MakesWay
<1>5. CASE \A i \in Stay(s) : Critical(s[i])
  <2>1. \A i \in Stay(t) : Critical(t[i])
    BY <1>5
  <2>2. QED
    BY <2>1 DEF MakesWay
<1>6. QED
  BY <1>4, <1>5 DEF MakesWay

(* So what Retain keeps makes way.                                         *)
LEMMA RetainedMakeWay ==
  ASSUME NEW s \in Seq(Banner), MakesWay(s), NEW S
  PROVE  Retain(s, S) \in Seq(Banner) /\ MakesWay(Retain(s, S))
<1> DEFINE t == Retain(s, S)
<1>1. t \in Seq(Banner)
  BY RetainType
<1>2. PICK found \in [1 .. Len(t) -> Places(s, S)] :
        /\ \A k \in 1 .. Len(t) : t[k] = s[found[k]]
        /\ \A j, k \in 1 .. Len(t) : j < k => found[j] < found[k]
  BY RetainPlaces
<1>3. Places(s, S) \subseteq 1 .. Len(s)
  BY PlacesFinite
<1> HIDE DEF t
<1> DEFINE place == [k \in Stay(t) |-> found[k]]
<1>4. Stay(t) \subseteq 1 .. Len(t) /\ Len(t) \in Nat
  BY <1>1 DEF Stay
<1>5. place \in [Stay(t) -> Stay(s)]
  BY <1>2, <1>3, <1>4 DEF Stay
<1>6. \A i, j \in Stay(t) : place[i] = place[j] => i = j
  <2>1. \A i, j \in 1 .. Len(t) : found[i] = found[j] => i = j
    BY <1>2, <1>3, <1>4
  <2>2. QED
    BY <1>4, <2>1
<1>7. \A i \in Stay(t) : Critical(s[place[i]]) => Critical(t[i])
  BY <1>2, <1>4
<1> HIDE DEF place
<1>8. MakesWay(t)
  BY <1>1, <1>5, <1>6, <1>7, FewerStay
<1>9. QED
  BY <1>1, <1>8 DEF t

(* A push.                                                                 *)
LEMMA PushMakesWay ==
  ASSUME NEW t \in Seq(Banner), MakesWay(t), NEW b \in Banner
  PROVE  MakeWay(<<b>> \o t) \in Seq(Banner) /\ MakesWay(MakeWay(<<b>> \o t))
<1> DEFINE s == <<b>> \o t
<1>1. /\ s \in Seq(Banner) /\ Len(s) = Len(t) + 1
      /\ s[1] = b /\ \A i \in 1 .. Len(t) : s[i + 1] = t[i]
  OBVIOUS
<1> HIDE DEF s
<1>2. CASE Len(s) <= MaxVisible
  <2>1. Cardinality(Stay(s)) <= MaxVisible
    BY <1>1, <1>2, StayFinite
  <2>2. QED
    BY <1>1, <1>2, <2>1 DEF MakeWay, MakesWay, s
<1>3. CASE Cuttable(s) = {}
  <2>1. \A i \in Stay(s) : Critical(s[i])
    BY <1>3 DEF Cuttable, Stay
  <2>2. QED
    BY <1>1, <1>3, <2>1 DEF MakeWay, MakesWay, s
<1>4. CASE Len(s) > MaxVisible /\ Cuttable(s) # {}
  <2> DEFINE last == CHOOSE i \in Cuttable(s) : \A j \in Cuttable(s) : j <= i
             after == [s EXCEPT ![last] = In(@, "Exiting")]
  <2>1. last \in Cuttable(s)
    <3>1. Cuttable(s) \subseteq 1 .. Len(s) /\ Len(s) \in Nat
      BY <1>1 DEF Cuttable
    <3>2. \E i \in Cuttable(s) : \A j \in Cuttable(s) : j <= i
      BY <1>4, <3>1, LastPlace
    <3>3. QED
      BY <3>2
  <2>2. MakeWay(s) = after
    BY <1>1, <1>4 DEF MakeWay
  <2> HIDE DEF last
  <2>3. last \in 1 .. Len(s) /\ s[last] \in Banner /\ ~Critical(s[last]) /\ Staying(s[last])
    BY <1>1, <2>1 DEF Cuttable
  <2>4. In(s[last], "Exiting") \in Banner /\ ~Staying(In(s[last], "Exiting"))
    BY <2>3 DEF In, Banner, Staying
  <2>5. /\ after \in Seq(Banner) /\ Len(after) = Len(s)
        /\ after[last] = In(s[last], "Exiting")
        /\ \A i \in 1 .. Len(s) : i # last => after[i] = s[i]
    BY <1>1, <2>3, <2>4
  <2> HIDE DEF after
  <2>6. Stay(after) = Stay(s) \ {last} /\ last \in Stay(s)
    BY <1>1, <2>3, <2>4, <2>5 DEF Stay
  <2>7. Cardinality(Stay(after)) = Cardinality(Stay(s)) - 1
    BY <1>1, <2>6, StayFinite, FS_RemoveElement
  <2>8. Cardinality(Stay(s)) <= Cardinality(Stay(t)) + 1
    <3> DEFINE f == [i \in Stay(s) |-> i - 1]
    <3>1. \A i \in Stay(s) : f[i] \in Stay(t) \cup {0}
      <4>1. SUFFICES ASSUME NEW i \in Stay(s), i # 1 PROVE i - 1 \in Stay(t)
        BY <1>1 DEF Stay
      <4>2. i - 1 \in 1 .. Len(t) /\ s[i] = t[i - 1] /\ Staying(s[i])
        BY <1>1, <4>1 DEF Stay
      <4>3. QED
        BY <4>2 DEF Stay
    <3>2. \A i, j \in Stay(s) : f[i] = f[j] => i = j
      BY <1>1 DEF Stay
    <3>3. f \in Injection(Stay(s), Stay(t) \cup {0})
      BY <3>1, <3>2 DEF Injection, IsInjective
    <3>4. 0 \notin Stay(t)
      BY DEF Stay
    <3>5. /\ IsFiniteSet(Stay(t) \cup {0})
          /\ Cardinality(Stay(t) \cup {0}) = Cardinality(Stay(t)) + 1
      BY <3>4, StayFinite, FS_AddElement
    <3> HIDE DEF f
    <3>6. QED
      BY <3>3, <3>5, FS_Injection
  <2>9. CASE Cardinality(Stay(t)) <= MaxVisible
    <3>1. /\ Cardinality(Stay(t)) \in Nat /\ Cardinality(Stay(s)) \in Nat
          /\ Cardinality(Stay(after)) \in Nat
      BY <1>1, <2>5, StayFinite
    <3>2. Cardinality(Stay(after)) <= MaxVisible
      BY <2>7, <2>8, <2>9, <3>1
    <3>3. QED
      BY <2>2, <2>5, <3>2 DEF MakesWay, s
  <2>10. CASE \A i \in Stay(t) : Critical(t[i])
    <3>1. ASSUME NEW i \in Stay(s), i # 1 PROVE Critical(s[i])
      <4>1. i - 1 \in 1 .. Len(t) /\ s[i] = t[i - 1] /\ Staying(s[i])
        BY <1>1, <3>1 DEF Stay
      <4>2. i - 1 \in Stay(t)
        BY <4>1 DEF Stay
      <4>3. QED
        BY <2>10, <4>1, <4>2
    <3>2. last = 1
      BY <2>3, <2>6, <3>1
    <3>3. \A i \in Stay(after) : Critical(after[i])
      BY <1>1, <2>5, <2>6, <3>1, <3>2 DEF Stay
    <3>4. QED
      BY <2>2, <2>5, <3>3 DEF MakesWay, s
  <2>11. QED
    BY <2>9, <2>10 DEF MakesWay
<1>5. QED
  BY <1>1, <1>2, <1>3, <1>4

(* A dismissal, and the states of one frame.                               *)
LEMMA DismissalMakesWay ==
  ASSUME NEW s \in Seq(Banner), MakesWay(s), NEW i \in DOMAIN s
  PROVE  /\ [s EXCEPT ![i] = In(@, "Exiting")] \in Seq(Banner)
         /\ MakesWay([s EXCEPT ![i] = In(@, "Exiting")])
<1> DEFINE t == [s EXCEPT ![i] = In(@, "Exiting")]
           place == [k \in Stay(t) |-> k]
<1>1. s[i] \in Banner
  OBVIOUS
<1>2. In(s[i], "Exiting") \in Banner /\ ~Staying(In(s[i], "Exiting"))
  BY <1>1 DEF In, Banner, Staying
<1>3. /\ t \in Seq(Banner) /\ Len(t) = Len(s) /\ t[i] = In(s[i], "Exiting")
      /\ \A k \in 1 .. Len(s) : k # i => t[k] = s[k]
  BY <1>2
<1> HIDE DEF t
<1>4. \A k \in Stay(t) : k \in Stay(s) /\ t[k] = s[k]
  BY <1>2, <1>3 DEF Stay
<1>5. /\ place \in [Stay(t) -> Stay(s)]
      /\ \A k, j \in Stay(t) : place[k] = place[j] => k = j
      /\ \A k \in Stay(t) : Critical(s[place[k]]) => Critical(t[k])
  BY <1>4
<1> HIDE DEF place
<1>6. MakesWay(t)
  BY <1>3, <1>5, FewerStay
<1>7. QED
  BY <1>3, <1>6 DEF t

(* A frame sends a banner away or leaves it as critical as it was.         *)
LEMMA TickType ==
  ASSUME NEW b \in Banner
  PROVE  /\ Tick(b) \in Banner
         /\ Staying(Tick(b)) => Staying(b)
         /\ Critical(Tick(b)) <=> Critical(b)
<1>1. /\ b = [id |-> b.id, urgency |-> b.urgency, state |-> b.state, frames |-> b.frames]
      /\ b.frames \in Nat /\ b.id \in 1 .. MaxNotifications /\ b.urgency \in Urgencies
      /\ b.state \in {"Entering", "Visible", "Exiting"}
  BY DEF Banner
<1> DEFINE more == [b EXCEPT !.frames = @ + 1]
<1>2. /\ more \in Banner /\ more.state = b.state /\ more.urgency = b.urgency
      /\ \A x \in {"Visible", "Exiting"} :
           In(b, x) \in Banner /\ In(b, x).state = x /\ In(b, x).urgency = b.urgency
  <2>1. more \in Banner /\ more.state = b.state /\ more.urgency = b.urgency
    BY DEF Banner
  <2>2. ASSUME NEW x \in {"Visible", "Exiting"}
        PROVE  In(b, x) \in Banner /\ In(b, x).state = x /\ In(b, x).urgency = b.urgency
    BY DEF In, Banner
  <2>3. QED
    BY <2>1, <2>2
<1>3. /\ b.state = "Entering" => Tick(b) \in {more, In(b, "Visible")}
      /\ b.state = "Visible" => Tick(b) \in {more, b, In(b, "Exiting")}
      /\ b.state = "Exiting" => Tick(b) = more
  <2>1. CASE b.state = "Entering"
    BY <2>1, Zenon DEF Tick
  <2>2. CASE b.state = "Visible"
    BY <2>2, Zenon DEF Tick
  <2>3. CASE b.state = "Exiting"
    BY <2>3, Zenon DEF Tick
  <2>4. QED
    BY <2>1, <2>2, <2>3
<1> HIDE DEF more
<1>4. QED
  BY <1>1, <1>2, <1>3 DEF Staying, Critical

(* So a frame makes way.                                                   *)
LEMMA FrameMakesWay ==
  ASSUME NEW s \in Seq(Banner), MakesWay(s)
  PROVE  /\ [i \in DOMAIN s |-> Tick(s[i])] \in Seq(Banner)
         /\ MakesWay([i \in DOMAIN s |-> Tick(s[i])])
<1> DEFINE t == [i \in DOMAIN s |-> Tick(s[i])]
           place == [k \in Stay(t) |-> k]
<1>1. \A i \in 1 .. Len(s) : s[i] \in Banner
  OBVIOUS
<1>2. \A i \in 1 .. Len(s) : t[i] = Tick(s[i]) /\ t[i] \in Banner
  BY <1>1, TickType
<1>3. t \in Seq(Banner) /\ Len(t) = Len(s)
  <2>1. DOMAIN s = 1 .. Len(s) /\ Len(s) \in Nat
    OBVIOUS
  <2>2. t = [i \in 1 .. Len(s) |-> t[i]]
    BY <2>1, Zenon
  <2> HIDE DEF t
  <2>3. t \in [1 .. Len(s) -> Banner]
    BY <1>2, <2>2
  <2>4. QED
    BY <2>1, <2>3
<1> HIDE DEF t
<1>4. \A k \in Stay(t) : k \in Stay(s) /\ (Critical(s[k]) => Critical(t[k]))
  BY <1>1, <1>2, <1>3, TickType DEF Stay
<1>5. /\ place \in [Stay(t) -> Stay(s)]
      /\ \A k, j \in Stay(t) : place[k] = place[j] => k = j
      /\ \A k \in Stay(t) : Critical(s[place[k]]) => Critical(t[k])
  BY <1>4
<1> HIDE DEF place
<1>6. MakesWay(t)
  BY <1>3, <1>5, FewerStay
<1>7. QED
  BY <1>3, <1>6 DEF t

(* However notifications, dismissals and frames meet, no more than         *)
(* max_visible banners stay unless all that stay are critical: for any     *)
(* callers, urgencies, limits and lengths of the animations.               *)
THEOREM BannersGiveWay == NotificationSpec => []BannersMakeWay
<1>1. NotificationInit => NoticeInv
  <2> SUFFICES ASSUME NotificationInit PROVE NoticeInv
    OBVIOUS
  <2>1. NoticeTypes
    BY DEF NotificationInit, NoticeTypes
  <2>2. Stay(banners) = {}
    BY DEF NotificationInit, Stay
  <2>3. QED
    BY <2>1, <2>2 DEF NoticeInv, MakesWay
<1>2. NoticeInv /\ [NotificationNext]_notificationVars => NoticeInv'
  <2> SUFFICES ASSUME NoticeTypes, MakesWay(banners), [NotificationNext]_notificationVars
               PROVE  NoticeTypes' /\ MakesWay(banners)'
    BY DEF NoticeInv
  <2>1. CASE handle_external_notification
    <3>1. PICK u \in Urgencies :
            dispatched' = dispatched \cup {[id |-> notification_id_seq, urgency |-> u]}
      BY <2>1 DEF handle_external_notification
    <3>2. NoticeTypes' /\ banners' = banners
      BY <2>1, <3>1 DEF handle_external_notification, NoticeTypes
    <3>3. QED
      BY <3>2 DEF MakesWay, Stay
  <2>2. CASE hear_notification
    <3>1. PICK e \in dispatched : dispatched' = dispatched \ {e} /\ push(e)
      BY <2>2 DEF hear_notification
    <3> DEFINE b == [id |-> e.id, urgency |-> e.urgency, state |-> "Entering", frames |-> 0]
               kept == Retain(banners, {x \in Banner : x.id # e.id})
    <3>2. b \in Banner
      BY <3>1 DEF NoticeTypes, Banner
    <3>3. kept \in Seq(Banner) /\ MakesWay(kept)
      BY RetainedMakeWay DEF NoticeTypes
    <3>4. banners' = MakeWay(<<b>> \o kept)
      BY <3>1 DEF push
    <3> HIDE DEF b, kept
    <3>5. banners' \in Seq(Banner) /\ MakesWay(banners')
      BY <3>2, <3>3, <3>4, PushMakesWay
    <3>6. NoticeTypes'
      BY <2>2, <3>1, <3>5 DEF hear_notification, NoticeTypes
    <3>7. QED
      BY <3>5, <3>6 DEF MakesWay, Stay
  <2>3. CASE dismiss
    <3>1. PICK i \in DOMAIN banners : banners' = [banners EXCEPT ![i] = In(@, "Exiting")]
      BY <2>3 DEF dismiss
    <3>2. banners' \in Seq(Banner) /\ MakesWay(banners')
      BY <3>1, DismissalMakesWay DEF NoticeTypes
    <3>3. NoticeTypes'
      BY <2>3, <3>2 DEF dismiss, NoticeTypes
    <3>4. QED
      BY <3>2, <3>3 DEF MakesWay, Stay
  <2>4. CASE banner_tick
    <3> DEFINE t == [i \in DOMAIN banners |-> Tick(banners[i])]
    <3>1. t \in Seq(Banner) /\ MakesWay(t)
      BY FrameMakesWay DEF NoticeTypes
    <3>2. PICK S : banners' = Retain(t, S)
      BY <2>4 DEF banner_tick
    <3> HIDE DEF t
    <3>3. banners' \in Seq(Banner) /\ MakesWay(banners')
      BY <3>1, <3>2, RetainedMakeWay
    <3>4. NoticeTypes'
      BY <2>4, <3>3 DEF banner_tick, NoticeTypes
    <3>5. QED
      BY <3>3, <3>4 DEF MakesWay, Stay
  <2>5. CASE DesktopReady \/ UNCHANGED notificationVars
    <3>1. NoticeTypes' /\ banners' = banners
      BY <2>5 DEF DesktopReady, notificationVars, NoticeTypes
    <3>2. QED
      BY <3>1 DEF MakesWay, Stay
  <2>6. QED
    BY <2>1, <2>2, <2>3, <2>4, <2>5 DEF NotificationNext
<1>3. NoticeInv => BannersMakeWay
  BY DEF NoticeInv, MakesWay, Stay, BannersMakeWay
<1>4. QED
  BY <1>1, <1>2, <1>3, PTL DEF NotificationSpec

HIDE NotificationsAssumption

-----------------------------------------------------------------------------
(***************************************************************************)
(* The tray.  That the badge counts only what the drawer holds unread is   *)
(* inductive: the drawer's unread items after a step are at least those    *)
(* before it, without the one dismissed and with the one received, which   *)
(* two injections between the sets of their places show.                   *)
(***************************************************************************)
USE TrayAssumption

Items == [id : 1 .. MaxItems, is_read : BOOLEAN]

(* The places of the unread items of a drawer.                             *)
Unread(drawer) == {i \in DOMAIN drawer : ~drawer[i].is_read}

(* They are finitely many.                                                 *)
LEMMA UnreadFinite ==
  ASSUME NEW S, NEW drawer \in Seq(S)
  PROVE  IsFiniteSet(Unread(drawer)) /\ Cardinality(Unread(drawer)) \in Nat
<1>1. IsFiniteSet(1 .. Len(drawer))
  BY FS_Interval
<1>2. Unread(drawer) \in SUBSET (1 .. Len(drawer))
  BY DEF Unread
<1>3. QED
  BY <1>1, <1>2, FS_Subset, FS_CardinalityType

(* One item removed takes at most itself from the unread ones.             *)
LEMMA RemoveAtUnread ==
  ASSUME NEW S, NEW drawer \in Seq(S), NEW k \in DOMAIN drawer
  PROVE  /\ RemoveAt(drawer, k) \in Seq(S)
         /\ Cardinality(Unread(drawer) \ {k}) <= Cardinality(Unread(RemoveAt(drawer, k)))
<1> DEFINE after == RemoveAt(drawer, k)
           f == [i \in Unread(drawer) \ {k} |-> IF i < k THEN i ELSE i - 1]
<1>1. /\ after \in Seq(S) /\ Len(after) = Len(drawer) - 1
      /\ \A i \in 1 .. k - 1 : after[i] = drawer[i]
      /\ \A i \in k .. Len(drawer) - 1 : after[i] = drawer[i + 1]
  <2> DEFINE front == SubSeq(drawer, 1, k - 1)
             back == SubSeq(drawer, k + 1, Len(drawer))
  <2>1. k \in 1 .. Len(drawer) /\ Len(drawer) \in Nat
    OBVIOUS
  <2>2. /\ front \in Seq(S) /\ Len(front) = k - 1
        /\ \A i \in 1 .. k - 1 : front[i] = drawer[i]
    BY <2>1
  <2>3. /\ back \in Seq(S) /\ Len(back) = Len(drawer) - k
        /\ \A i \in 1 .. Len(drawer) - k : back[i] = drawer[k + i]
    BY <2>1
  <2>4. after = front \o back
    BY DEF RemoveAt
  <2> HIDE DEF front, back, after
  <2>5. after \in Seq(S) /\ Len(after) = Len(drawer) - 1
    BY <2>1, <2>2, <2>3, <2>4
  <2>6. \A i \in 1 .. k - 1 : after[i] = drawer[i]
    BY <2>1, <2>2, <2>3, <2>4
  <2>7. ASSUME NEW i \in k .. Len(drawer) - 1 PROVE after[i] = drawer[i + 1]
    <3>1. after[i] = back[i - (k - 1)] /\ i - (k - 1) \in 1 .. Len(drawer) - k
      BY <2>1, <2>2, <2>3, <2>4
    <3>2. k + (i - (k - 1)) = i + 1
      BY <2>1
    <3>3. QED
      BY <2>3, <3>1, <3>2
  <2>8. QED
    BY <2>5, <2>6, <2>7
<1> HIDE DEF after
<1>2. \A i \in Unread(drawer) \ {k} : f[i] \in Unread(after)
  BY <1>1 DEF Unread
<1>3. \A i, j \in Unread(drawer) \ {k} : f[i] = f[j] => i = j
  BY DEF Unread
<1>4. f \in Injection(Unread(drawer) \ {k}, Unread(after))
  BY <1>2, <1>3 DEF Injection, IsInjective
<1>5. QED
  BY <1>1, <1>4, UnreadFinite, FS_Injection DEF after

(* An unread item put in front is one more.                                *)
LEMMA PrependUnread ==
  ASSUME NEW S, NEW drawer \in Seq(S), NEW x \in S, ~x.is_read
  PROVE  /\ <<x>> \o drawer \in Seq(S)
         /\ Cardinality(Unread(drawer)) + 1 <= Cardinality(Unread(<<x>> \o drawer))
<1> DEFINE after == <<x>> \o drawer
           f == [i \in Unread(drawer) \cup {0} |-> i + 1]
<1>1. /\ after \in Seq(S) /\ Len(after) = Len(drawer) + 1
      /\ after[1] = x /\ \A i \in 1 .. Len(drawer) : after[i + 1] = drawer[i]
  OBVIOUS
<1>2. \A i \in Unread(drawer) \cup {0} : f[i] \in Unread(after)
  BY <1>1 DEF Unread
<1>3. \A i, j \in Unread(drawer) \cup {0} : f[i] = f[j] => i = j
  BY DEF Unread
<1>4. f \in Injection(Unread(drawer) \cup {0}, Unread(after))
  BY <1>2, <1>3 DEF Injection, IsInjective
<1>5. Cardinality(Unread(drawer) \cup {0}) <= Cardinality(Unread(after))
  BY <1>1, <1>4, UnreadFinite, FS_Injection
<1>6. 0 \notin Unread(drawer)
  BY DEF Unread
<1>7. Cardinality(Unread(drawer) \cup {0}) = Cardinality(Unread(drawer)) + 1
  BY <1>6, UnreadFinite, FS_AddElement
<1>8. QED
  BY <1>1, <1>5, <1>7

(* Reading all leaves the drawer what it is, and nothing unread.           *)
LEMMA ReadItems ==
  ASSUME items \in Seq(Items), mark_all_read
  PROVE  items' \in Seq(Items) /\ unread_count' = 0
<1>1. items' = [i \in 1 .. Len(items) |-> [id |-> items[i].id, is_read |-> TRUE]]
  BY DEF mark_all_read
<1>2. ASSUME NEW i \in 1 .. Len(items) PROVE [id |-> items[i].id, is_read |-> TRUE] \in Items
  <2>1. items[i] \in Items
    OBVIOUS
  <2>2. items[i].id \in 1 .. MaxItems
    BY <2>1 DEF Items
  <2>3. QED
    BY <2>2 DEF Items
<1>3. QED
  BY <1>1, <1>2 DEF mark_all_read

(* Every reachable value of every variable is one the code can hold, for   *)
(* any number of notifications.                                            *)
THEOREM TrayTypeCorrect == TraySpec => []TrayTypeOK
<1>1. TrayInit => TrayTypeOK
  <2> SUFFICES ASSUME TrayInit PROVE TrayTypeOK
    OBVIOUS
  <2>1. is_dnd_enabled \in BOOLEAN /\ drawer_open \in BOOLEAN
    BY DEF TrayInit
  <2>2. received \in 0 .. MaxItems /\ items \in Seq(Items) /\ unread_count \in Nat
    BY DEF TrayInit
  <2>3. QED
    BY <2>1, <2>2 DEF TrayTypeOK, Items
<1>2. TrayTypeOK /\ [TrayNext]_trayVars => TrayTypeOK'
  <2> SUFFICES ASSUME TrayTypeOK, [TrayNext]_trayVars PROVE TrayTypeOK'
    OBVIOUS
  <2> USE DEF TrayTypeOK, switches
  <2>1. CASE handle_event
    <3>1. [id |-> received', is_read |-> FALSE] \in Items
      BY <2>1 DEF handle_event, Items
    <3>2. items' \in Seq(Items)
      BY <2>1, <3>1 DEF handle_event, Items
    <3>3. QED
      BY <2>1, <3>2 DEF handle_event, Items
  <2>2. CASE tray_dismiss
    <3>1. PICK i \in DOMAIN items : items' = RemoveAt(items, i) /\ unread_count' = AfterDismiss(i)
      BY <2>2 DEF tray_dismiss
    <3>2. items' \in Seq(Items)
      BY <3>1, RemoveAtUnread DEF Items
    <3>3. QED
      BY <2>2, <3>1, <3>2 DEF tray_dismiss, AfterDismiss, Items
  <2>3. CASE clear_all
    BY <2>3 DEF clear_all
  <2>4. CASE toggle_dnd
    BY <2>4 DEF toggle_dnd
  <2>5. CASE toggle_drawer
    <3>1. items' \in Seq(Items) /\ unread_count' \in Nat
      BY <2>5, ReadItems DEF toggle_drawer, Items
    <3>2. drawer_open' \in BOOLEAN
      BY <2>5 DEF toggle_drawer
    <3>3. QED
      BY <2>5, <3>1, <3>2 DEF toggle_drawer, Items
  <2>6. CASE UNCHANGED trayVars
    BY <2>6 DEF trayVars
  <2>7. QED
    BY <2>1, <2>2, <2>3, <2>4, <2>5, <2>6 DEF TrayNext
<1>3. QED
  BY <1>1, <1>2, PTL DEF TraySpec

(* The badge never counts a notification that is gone or read, whatever    *)
(* was received, dismissed, cleared, read or silenced, in any order.       *)
THEOREM BadgeCountsUnread == TraySpec => []UnreadIsThere
<1> DEFINE Inv == unread_count <= Cardinality(Unread(items))
<1>1. TrayInit => Inv
  <2> SUFFICES ASSUME TrayInit PROVE Inv
    OBVIOUS
  <2>1. Unread(items) = {} /\ unread_count = 0
    BY DEF TrayInit, Unread
  <2>2. QED
    BY <2>1, FS_EmptySet
<1>2. TrayTypeOK /\ Inv /\ [TrayNext]_trayVars => Inv'
  <2> SUFFICES ASSUME TrayTypeOK, Inv, [TrayNext]_trayVars PROVE Inv'
    OBVIOUS
  <2>1. /\ items \in Seq(Items) /\ unread_count \in Nat
        /\ IsFiniteSet(Unread(items)) /\ Cardinality(Unread(items)) \in Nat
    BY UnreadFinite DEF TrayTypeOK, Items
  <2>2. CASE handle_event
    <3> DEFINE new == [id |-> received', is_read |-> FALSE]
    <3>1. new \in Items /\ items' = <<new>> \o items
      BY <2>2 DEF handle_event, Items, TrayTypeOK
    <3>2. /\ items' \in Seq(Items)
          /\ Cardinality(Unread(items)) + 1 <= Cardinality(Unread(items'))
      BY <2>1, <3>1, PrependUnread
    <3>3. Cardinality(Unread(items')) \in Nat
      BY <3>2, UnreadFinite
    <3>4. QED
      BY <2>1, <2>2, <3>2, <3>3 DEF handle_event
  <2>3. CASE tray_dismiss
    <3>1. PICK i \in DOMAIN items : items' = RemoveAt(items, i) /\ unread_count' = AfterDismiss(i)
      BY <2>3 DEF tray_dismiss
    <3>2. /\ items' \in Seq(Items)
          /\ Cardinality(Unread(items) \ {i}) <= Cardinality(Unread(items'))
      BY <2>1, <3>1, RemoveAtUnread
    <3>3. Cardinality(Unread(items')) \in Nat
      BY <3>2, UnreadFinite
    <3>4. Cardinality(Unread(items) \ {i}) =
            IF items[i].is_read THEN Cardinality(Unread(items)) ELSE Cardinality(Unread(items)) - 1
      BY <2>1, FS_RemoveElement DEF Unread
    <3>5. QED
      BY <2>1, <3>1, <3>2, <3>3, <3>4 DEF AfterDismiss
  <2>4. CASE unread_count' = 0 /\ items' \in Seq(Items)
    BY <2>4, UnreadFinite
  <2>5. CASE UNCHANGED <<items, unread_count>>
    BY <2>5
  <2>6. CASE clear_all
    BY <2>4, <2>6 DEF clear_all
  <2>7. CASE toggle_drawer
    <3>1. mark_all_read \/ UNCHANGED <<items, unread_count>>
      BY <2>7, Zenon DEF toggle_drawer
    <3>2. QED
      BY <2>1, <2>4, <2>5, <3>1, ReadItems
  <2>8. QED
    BY <2>2, <2>3, <2>5, <2>6, <2>7 DEF TrayNext, toggle_dnd, trayVars
<1>3. Inv <=> UnreadIsThere
  BY DEF Unread, UnreadIsThere
<1>4. QED
  BY <1>1, <1>2, <1>3, TrayTypeCorrect, PTL DEF TraySpec

HIDE TrayAssumption

-----------------------------------------------------------------------------
(***************************************************************************)
(* The dock.  The three invariants are inductive given the types: an icon  *)
(* leaves exactly with the last window of its application, and             *)
(* evaluate_visibility runs after every change of what the dock reacts to. *)
(***************************************************************************)
USE DockAssumption

(* Every reachable value of every variable is one the code can hold, for   *)
(* any applications and any length of the animations.                      *)
THEOREM DockTypeCorrect == DockSpec => []DockTypeOK
<1>1. DockInit => DockTypeOK
  <2> SUFFICES ASSUME DockInit PROVE DockTypeOK
    OBVIOUS
  <2>1. DOMAIN dock_entries = Pinned /\ dock_entries \in [DOMAIN dock_entries -> Nat]
    BY DEF DockInit
  <2>2. /\ open_windows \in [Apps -> Nat]
        /\ visibility = "Shown" /\ progress \in 0 .. DockFrames
    BY DEF DockInit
  <2>3. overlapping \in BOOLEAN /\ near \in BOOLEAN
    BY DEF DockInit
  <2>4. QED
    BY <2>1, <2>2, <2>3 DEF DockTypeOK
<1>2. DockTypeOK /\ [DockNext]_dockVars => DockTypeOK'
  <2> SUFFICES ASSUME DockTypeOK, [DockNext]_dockVars PROVE DockTypeOK'
    OBVIOUS
  <2> USE DEF DockTypeOK
  <2>1. ASSUME NEW a \in Apps, on_app_launched(a) PROVE DockTypeOK'
    BY <2>1 DEF on_app_launched, slideVars
  <2>2. ASSUME NEW a \in Apps, on_app_closed(a) PROVE DockTypeOK'
    <3>1. DOMAIN dock_entries' \subseteq Apps /\ Pinned \subseteq DOMAIN dock_entries'
      BY <2>2 DEF on_app_closed, Retires
    <3>2. dock_entries' \in [DOMAIN dock_entries' -> Nat]
      BY <2>2 DEF on_app_closed, Retires, Less
    <3>3. QED
      BY <2>2, <3>1, <3>2 DEF on_app_closed, Less, slideVars
  <2>3. CASE on_window_overlapping
    BY <2>3 DEF on_window_overlapping, evaluate_visibility, ToShow, ToHide, iconVars
  <2>4. CASE on_cursor_near_edge
    BY <2>4 DEF on_cursor_near_edge, evaluate_visibility, ToShow, ToHide, iconVars
  <2>5. CASE dock_tick
    BY <2>5 DEF dock_tick, AnimatingIn, AnimatingOut, Less, iconVars
  <2>6. CASE UNCHANGED dockVars
    BY <2>6 DEF dockVars, iconVars, slideVars
  <2>7. QED
    BY <2>1, <2>2, <2>3, <2>4, <2>5, <2>6 DEF DockNext
<1>3. QED
  BY <1>1, <1>2, PTL DEF DockSpec

(* The icons are those of the pinned applications and of those with a      *)
(* window, with the right count, after any order of launches and closes.   *)
THEOREM IconsFollowWindows == DockSpec => []IconsMatchWindows
<1>1. DockInit => IconsMatchWindows
  BY DEF DockInit, IconsMatchWindows
<1>2. DockTypeOK /\ IconsMatchWindows /\ [DockNext]_dockVars => IconsMatchWindows'
  <2> SUFFICES ASSUME DockTypeOK, IconsMatchWindows, [DockNext]_dockVars PROVE IconsMatchWindows'
    OBVIOUS
  <2> USE DEF DockTypeOK, IconsMatchWindows
  <2>1. ASSUME NEW a \in Apps, on_app_launched(a) PROVE IconsMatchWindows'
    BY <2>1 DEF on_app_launched
  <2>2. ASSUME NEW a \in Apps, on_app_closed(a) PROVE IconsMatchWindows'
    <3>1. Retires(a) <=> a \notin Pinned /\ open_windows[a] > 0 /\ open_windows'[a] = 0
      BY <2>2 DEF on_app_closed, Retires, Less
    <3>2. CASE Retires(a)
      BY <2>2, <3>1, <3>2 DEF on_app_closed, Less
    <3>3. CASE ~Retires(a)
      BY <2>2, <3>1, <3>3 DEF on_app_closed, Less
    <3>4. QED
      BY <3>2, <3>3
  <2>3. CASE on_window_overlapping \/ on_cursor_near_edge \/ dock_tick
    BY <2>3 DEF on_window_overlapping, on_cursor_near_edge, dock_tick, iconVars
  <2>4. CASE UNCHANGED dockVars
    BY <2>4 DEF dockVars, iconVars
  <2>5. QED
    BY <2>1, <2>2, <2>3, <2>4 DEF DockNext
<1>3. QED
  BY <1>1, <1>2, DockTypeCorrect, PTL DEF DockSpec

(* However often windows and the cursor turn the animation round, the dock *)
(* is on its way to, or at, the side where it should be.                   *)
THEOREM DockKeepsHeading == DockSpec => []DockHeading
<1>1. DockInit => DockHeading
  BY DEF DockInit, DockHeading, ShouldShow
<1>2. DockTypeOK /\ DockHeading /\ [DockNext]_dockVars => DockHeading'
  <2> SUFFICES ASSUME DockTypeOK, DockHeading, [DockNext]_dockVars PROVE DockHeading'
    OBVIOUS
  <2> USE DEF DockTypeOK, DockHeading, ShouldShow
  <2>1. ASSUME NEW a \in Apps, on_app_launched(a) \/ on_app_closed(a) PROVE DockHeading'
    BY <2>1 DEF on_app_launched, on_app_closed, slideVars
  <2>2. CASE on_window_overlapping
    BY <2>2 DEF on_window_overlapping, evaluate_visibility, ToShow, ToHide
  <2>3. CASE on_cursor_near_edge
    BY <2>3 DEF on_cursor_near_edge, evaluate_visibility, ToShow, ToHide
  <2>4. CASE dock_tick
    BY <2>4 DEF dock_tick, AnimatingIn, AnimatingOut, Less
  <2>5. CASE UNCHANGED dockVars
    BY <2>5 DEF dockVars, slideVars
  <2>6. QED
    BY <2>1, <2>2, <2>3, <2>4, <2>5 DEF DockNext
<1>3. QED
  BY <1>1, <1>2, DockTypeCorrect, PTL DEF DockSpec
=============================================================================
