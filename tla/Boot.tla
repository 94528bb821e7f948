-------------------------------- MODULE Boot --------------------------------
(***************************************************************************)
(* The start of the two processes over the e-bus.  Process 1               *)
(* (amgos-system/src/main.rs) binds the socket, starts the thread that     *)
(* accepts connections, announces hardware, audio, the boot chime and the  *)
(* power profile, and only then enters its dispatch loop.  Process 2       *)
(* (amgos-desktop/src/main.rs) connects once, asks for a Wi-Fi scan, and   *)
(* runs a frame loop whose boot phase and framebuffer gate wait for those  *)
(* announcements.                                                          *)
(*                                                                         *)
(* systemd starts either process again after a crash; a desktop that was   *)
(* started again is another client of the bus.                             *)
(***************************************************************************)
EXTENDS EventBus

CONSTANTS
  Nobody,      \* no desktop process is running
  FadeFrames,  \* frames the wordmark takes to fade in
  MaxDeaths,   \* crashes of Process 1 (bound)
  MaxConfigs   \* first-boot configurations applied (bound)

ASSUME BootAssumption ==
  /\ Nobody \notin Clients
  /\ FadeFrames \in Nat \ {0} /\ MaxDeaths \in Nat /\ MaxConfigs \in Nat
  /\ \A c \in Clients : MaxRequests[c] = 1
  /\ LargeRequests = {} /\ Outcomes = {"answered"}

VARIABLES
  stage,       \* how far main of Process 1 has come
  chimes,      \* calls of play_boot_chime_hardware since the power came on
  deaths,      \* crashes of Process 1
  desktop,     \* the running desktop process
  heard,       \* events its frame loop has taken from event_rx
  boot_phase,  \* BootPhase
  wordmark,    \* wordmark_opacity, in frames
  unlocked     \* FramebufferContinuityGate.presentation_unlocked

process1 == <<stage, chimes, deaths>>
process2 == <<desktop, heard, boot_phase, wordmark, unlocked>>
vars == <<busVars, process1, process2>>

\* The announcements of the boot, in the order of main.rs.
HardwareReady == 1
AudioReady == 2
BootChimeTrigger == 3
PowerProfileChanged == 4

\* What Process 1 publishes when a client's FirstBootWizardComplete is in order.
FirstBootConfigApplied == 5

Stages == {"start", "bound", "polling", "hardware", "audio", "chime", "chimed", "dispatch"}
BootPhases == {"Loading", "ChimeWordmarkSync", "TransitionToDesktop", "DesktopReady"}

Says(e, n) == e = [from |-> System, n |-> n]

-----------------------------------------------------------------------------
(* Process 1.                                                              *)

Goto(from, to) == stage = from /\ stage' = to

BindBus == Goto("start", "bound") /\ bind /\ UNCHANGED <<chimes, deaths, process2>>

\* The supervisor starts the "ebus-poller" thread.
register_service ==
  Goto("bound", "polling") /\ UNCHANGED <<busVars, chimes, deaths, process2>>

Announcing(from, n, to) ==
  Goto(from, to) /\ announce(n) /\ UNCHANGED <<chimes, deaths, process2>>

\* evaluate_chime_sequencer fires once per process; a player is tried before
\* the event is published, and the event published though no player ran.
PlayChime ==
  /\ Goto("audio", "chime")
  /\ chimes' = chimes + 1
  /\ UNCHANGED <<busVars, deaths, process2>>

BootEvents ==
  \/ Announcing("polling", HardwareReady, "hardware")
  \/ Announcing("hardware", AudioReady, "audio")
  \/ PlayChime
  \/ Announcing("chime", BootChimeTrigger, "chimed")
  \/ Announcing("chimed", PowerProfileChanged, "dispatch")

\* From here on a waiting connection is accepted.
Accept(c) ==
  /\ stage \notin {"start", "bound"}
  /\ poll_connections(c)
  /\ UNCHANGED <<process1, process2>>

\* Once round the dispatch loop.
Dispatch ==
  /\ stage = "dispatch"
  /\ poll_requests \/ HandleOne
  /\ UNCHANGED <<process1, process2>>

Configs == Cardinality({i \in DOMAIN published : Says(published[i], FirstBootConfigApplied)})

\* In the same loop: the wizard's request, which some other client sends.
FirstBootWizardComplete ==
  /\ stage = "dispatch" /\ Configs < MaxConfigs
  /\ announce(FirstBootConfigApplied)
  /\ UNCHANGED <<process1, process2>>

Stop ==
  /\ stage = "dispatch"
  /\ shutdown
  /\ UNCHANGED <<process1, process2>>

\* Process 1 dies; "Restart=always" runs main again from the start.
Crash ==
  /\ deaths < MaxDeaths
  /\ Close("unbound")
  /\ stage' = "start"
  /\ deaths' = deaths + 1
  /\ UNCHANGED <<chimes, process2>>

-----------------------------------------------------------------------------
(* Process 2.                                                              *)

\* What a desktop process begins with.
Afresh == heard' = 0 /\ boot_phase' = "Loading" /\ wordmark' = 0 /\ unlocked' = FALSE

\* main starts: everything afresh, and one attempt to connect.
StartDesktop(c) ==
  /\ desktop = Nobody
  /\ connect(c)
  /\ desktop' = c
  /\ Afresh
  /\ UNCHANGED process1

\* ScanWifiAccessPoints, then the reader thread.
ScanWifi ==
  /\ desktop # Nobody
  /\ send_request(desktop, "whole")
  /\ UNCHANGED <<process1, process2>>

Reader ==
  /\ desktop # Nobody
  /\ sent[desktop] # <<>>
  /\ read_event(desktop)
  /\ UNCHANGED <<process1, process2>>

\* The events the frame loop finds in event_rx.
Queue == SubSeq(got[desktop], heard + 1, Len(got[desktop]))

Heard(n) == \E i \in DOMAIN Queue : Says(Queue[i], n)

\* Mutant: the wordmark is revealed as soon as audio is ready.
SyncedAtAudio == boot_phase = "Loading" /\ (Heard(BootChimeTrigger) \/ Heard(AudioReady))

\* The chime was among them while the progress bar was on the screen.
Synced == boot_phase = "Loading" /\ Heard(BootChimeTrigger)

\* Mutant: only AudioReady unlocks presentation.
UnlockedByAudio == unlocked \/ Heard(AudioReady)

\* FramebufferContinuityGate::handle_event
Unlocked == unlocked \/ Heard(AudioReady) \/ Heard(BootChimeTrigger)

\* Mutant: the opacity, clamped at 1.0, must exceed 1.0.
AdvancePast(phase) ==
  CASE phase = "ChimeWordmarkSync" /\ wordmark + 1 > FadeFrames + 1 -> "TransitionToDesktop"
    [] phase = "TransitionToDesktop" -> "DesktopReady"
    [] OTHER -> phase

\* What one frame makes of the phase its events left.
Advance(phase) ==
  CASE phase = "ChimeWordmarkSync" /\ wordmark + 1 >= FadeFrames -> "TransitionToDesktop"
    [] phase = "TransitionToDesktop" -> "DesktopReady"
    [] OTHER -> phase

\* Mutant: the opacity goes on growing, unclamped, into the transition.
FadedOn(phase) ==
  IF phase \in {"ChimeWordmarkSync", "TransitionToDesktop"} THEN wordmark + 1 ELSE wordmark

\* The wordmark's opacity after the frame, clamped at 1.0.
Faded(phase) ==
  IF phase = "ChimeWordmarkSync" /\ wordmark < FadeFrames THEN wordmark + 1 ELSE wordmark

\* Mutant: the end of the wizard starts the wordmark.
PhaseRevealed ==
  IF Synced \/ Heard(FirstBootConfigApplied) THEN "ChimeWordmarkSync" ELSE boot_phase

\* The phase after the events: a first-boot configuration makes the desktop
\* ready from whatever phase, and a chime after it comes too late.
PhaseHeard ==
  IF Heard(FirstBootConfigApplied) THEN "DesktopReady"
  ELSE IF Synced THEN "ChimeWordmarkSync" ELSE boot_phase

\* One frame: all events waiting, then the animation.
Frame ==
  /\ desktop # Nobody
  /\ LET phase == PhaseHeard
     IN  /\ boot_phase' = Advance(phase)
         /\ wordmark' = Faded(phase)
  /\ unlocked' = Unlocked
  /\ heard' = Len(got[desktop])
  /\ UNCHANGED <<busVars, process1, desktop>>

\* The desktop process dies with its connection and all it held.
DesktopFault ==
  /\ desktop # Nobody
  /\ desktop' = Nobody
  /\ IF peer[desktop] THEN hang_up(desktop) ELSE UNCHANGED busVars
  /\ Afresh
  /\ UNCHANGED process1

-----------------------------------------------------------------------------
Init ==
  /\ BusInit
  /\ stage = "start" /\ chimes = 0 /\ deaths = 0
  /\ desktop = Nobody
  /\ heard = 0 /\ boot_phase = "Loading" /\ wordmark = 0 /\ unlocked = FALSE

Main == BindBus \/ register_service \/ BootEvents

BootNext ==
  \/ Main \/ Dispatch \/ FirstBootWizardComplete \/ Stop \/ Crash
  \/ \E c \in Clients : Accept(c) \/ StartDesktop(c)
  \/ ScanWifi \/ Reader \/ Frame \/ DesktopFault

\* main runs on, the threads and the frame loop keep looping.  Nothing makes
\* a process crash or systemd start a desktop.
BootSpec ==
  /\ Init /\ [][BootNext]_vars
  /\ WF_vars(Main) /\ WF_vars(Dispatch)
  /\ \A c \in Clients : WF_vars(Accept(c))
  /\ WF_vars(ScanWifi) /\ WF_vars(Reader) /\ WF_vars(Frame)

-----------------------------------------------------------------------------
(* Properties.                                                             *)

\* The type of the variables Boot adds.
BootTypeOK ==
  /\ TypeOK
  /\ stage \in Stages /\ chimes \in Nat /\ deaths \in 0 .. MaxDeaths
  /\ desktop \in Clients \cup {Nobody}
  /\ heard \in Nat /\ wordmark \in 0 .. FadeFrames
  /\ boot_phase \in BootPhases /\ unlocked \in BOOLEAN

\* The wordmark is on the screen only after this very desktop process was told
\* of the chime, and it was told only after Process 1 had tried to play it
\* ("Sync wordmark reveal with the hardware chime trigger"); a desktop that
\* is ready without it was told of a first-boot configuration.
WordmarkAfterChime ==
  desktop # Nobody =>
    LET Told(n) == \E i \in DOMAIN got[desktop] : Says(got[desktop][i], n)
    IN  /\ wordmark > 0 \/ boot_phase \in {"ChimeWordmarkSync", "TransitionToDesktop"} =>
             Told(BootChimeTrigger)
        /\ boot_phase = "DesktopReady" =>
             Told(BootChimeTrigger) \/ Told(FirstBootConfigApplied)
        /\ Told(BootChimeTrigger) => chimes > 0

\* What was ever sent to a client: read, or on its way.
SentTo(c) == ToSet(got[c]) \cup {down[c][i].e : i \in DOMAIN down[c]}

\* The boot phase and the framebuffer gate are two readers of the same events.
\* They disagree only in a desktop that was accepted after AudioReady and the
\* chime had both gone by: one that composes frames and may not present them
\* has been sent neither, and it is not that either is still to be read.
ReadyCanPresent ==
  desktop # Nobody /\ boot_phase # "Loading" /\ ~unlocked =>
    \A e \in SentTo(desktop) : ~Says(e, AudioReady) /\ ~Says(e, BootChimeTrigger)

\* Where the chime stands in published, if it has been published since c was
\* accepted.
ChimeReaches(c) ==
  \E i \in first[c] + 1 .. Len(published) : Says(published[i], BootChimeTrigger)

\* A desktop that was accepted in time for the chime becomes ready, unless it
\* dies or its connection does.
ChimeLeadsToDesktop ==
  \A c \in Clients :
    (desktop = c /\ conn[c] = "open" /\ ChimeReaches(c)) ~>
      (boot_phase = "DesktopReady" \/ desktop # c \/ conn[c] # "open")

\* The specification's promise for a crash of Process 2, "The user sees the
\* lockscreen.  No reboot required": a desktop started again, with Process 1
\* up, gets to show a frame.  (Process 1 never repeats the chime.)
DesktopComesBack ==
  \A c \in Clients :
    (desktop = c /\ conn[c] = "open" /\ \E d \in Clients \ {c} : conn[d] # "none") ~>
      (boot_phase = "DesktopReady" \/ desktop # c \/ conn[c] # "open")
=============================================================================
