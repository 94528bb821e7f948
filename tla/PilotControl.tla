---------------------------- MODULE PilotControl ----------------------------
(***************************************************************************)
(* Pilot Control, the virtual desktops of Process 2                        *)
(* (amgos-desktop/src/pilot_control/mod.rs), and the MotionWave engine     *)
(* that drives it with touchpad gestures (motion_wave/mod.rs).             *)
(*                                                                         *)
(* A desktop is the set of its windows; its id is its place in the list,   *)
(* since desktops are only ever added.  Animations are counted in frames,  *)
(* finger travel in steps.  The compositor opens and closes windows, the   *)
(* user drags them between the desktops shown and swipes; every one of     *)
(* these calls may come between any two frames.                            *)
(***************************************************************************)
EXTENDS Integers, Sequences, FiniteSets

CONSTANTS
  Windows,           \* window ids
  MaxDesktops,       \* desktops the user creates (bound)
  OverlayFrames,     \* frames of the overlay's entry and exit
  TransitionFrames,  \* frames of a desktop transition
  Threshold          \* swipe_threshold_px, in steps

ASSUME PilotAssumption ==
  /\ MaxDesktops \in Nat \ {0} /\ Threshold \in Nat \ {0}
  /\ OverlayFrames \in Nat \ {0} /\ TransitionFrames \in Nat \ {0}

VARIABLES
  state,              \* PilotControlState
  overlay_animation,  \* 0 .. OverlayFrames
  desktops,           \* the windows of each desktop
  active_desktop_id,
  transition,         \* frames left of transition_animation, 0 for None
  dx, dy,             \* accumulated_swipe_dx and _dy
  natural_scrolling,  \* of touchpad_config
  open,               \* windows the compositor has open
  homeless            \* those opened while no desktop was active, or moved to a
                      \* desktop there is not (history)

overlayVars == <<state, overlay_animation>>
desktopVars == <<desktops, active_desktop_id, transition>>
engineVars == <<dx, dy, natural_scrolling>>
windowVars == <<open, homeless>>
pilotVars == <<overlayVars, desktopVars, engineVars, windowVars>>

-----------------------------------------------------------------------------
(* The overlay.                                                            *)

toggle ==
  \/ state = "Hidden" /\ state' = "Entering" /\ overlay_animation' = 0
  \/ state = "Active" /\ state' = "Exiting" /\ UNCHANGED overlay_animation
  \/ state \in {"Entering", "Exiting"} /\ UNCHANGED overlayVars

show ==
  /\ state = "Hidden"
  /\ state' = "Entering" /\ overlay_animation' = 0
  /\ UNCHANGED <<desktopVars, engineVars, windowVars>>

hide ==
  /\ state \in {"Active", "Entering"}
  /\ state' = "Exiting"
  /\ UNCHANGED <<overlay_animation, desktopVars, engineVars, windowVars>>

Entering ==
  /\ state = "Entering"
  /\ overlay_animation' =
       IF overlay_animation < OverlayFrames THEN overlay_animation + 1 ELSE OverlayFrames
  /\ state' = IF overlay_animation' = OverlayFrames THEN "Active" ELSE "Entering"

\* Mutant: hidden only when the animation was at zero before this frame.
ExitingLate ==
  /\ state = "Exiting"
  /\ overlay_animation' = IF overlay_animation > 1 THEN overlay_animation - 1 ELSE 1
  /\ state' = IF overlay_animation = 0 THEN "Hidden" ELSE "Exiting"

Exiting ==
  /\ state = "Exiting"
  /\ overlay_animation' = IF overlay_animation > 0 THEN overlay_animation - 1 ELSE 0
  /\ state' = IF overlay_animation' = 0 THEN "Hidden" ELSE "Exiting"

\* One frame of the desktop.
tick ==
  /\ Entering \/ Exiting \/ (state \in {"Active", "Hidden"} /\ UNCHANGED overlayVars)
  /\ transition' = IF transition > 0 THEN transition - 1 ELSE 0
  /\ UNCHANGED <<desktops, active_desktop_id, engineVars, windowVars>>

-----------------------------------------------------------------------------
(* The desktops.                                                           *)

Id == DOMAIN desktops

\* What a caller may pass for one; no move asks whether there is such a desktop
\* before the window is taken from its own.
AnyId == 0 .. MaxDesktops + 1

\* switch_to does not ask whether there is such a desktop.
switch_to(id) ==
  /\ active_desktop_id' = id
  /\ transition' = IF id = active_desktop_id THEN transition ELSE TransitionFrames

Found(w, from) == from \in Id /\ w \in desktops[from]

\* Mutant: the window is added to its new desktop, not taken from the old.
Copied(w, from, to) ==
  [d \in Id |-> IF d = to /\ Found(w, from) THEN desktops[d] \cup {w} ELSE desktops[d]]

\* The desktops after window w was moved.
Moved(w, from, to) ==
  [d \in Id |-> IF d = to /\ Found(w, from) THEN desktops[d] \cup {w}
               ELSE IF d = from THEN desktops[d] \ {w} ELSE desktops[d]]

\* The user clicks a desktop in the sidebar,
ClickDesktop(id) ==
  /\ switch_to(id)
  /\ UNCHANGED <<desktops, overlayVars, engineVars, windowVars>>

\* the + icon,
create_desktop ==
  /\ Len(desktops) < MaxDesktops
  /\ desktops' = Append(desktops, {})
  /\ UNCHANGED <<active_desktop_id, transition, overlayVars, engineVars, windowVars>>

\* drags a thumbnail onto a desktop; without that the window is on none,
move_window_to_desktop(w, from, to) ==
  /\ desktops' = Moved(w, from, to)
  /\ homeless' = IF Found(w, from) /\ to \notin Id THEN homeless \cup {w} ELSE homeless
  /\ UNCHANGED <<open, active_desktop_id, transition, overlayVars, engineVars>>

\* or onto the + icon.
move_window_to_new_desktop(w, from) ==
  /\ Len(desktops) < MaxDesktops
  /\ desktops' = Append(Moved(w, from, 0), IF Found(w, from) THEN {w} ELSE {})
  /\ switch_to(Len(desktops) + 1)
  /\ UNCHANGED <<overlayVars, engineVars, windowVars>>

\* The compositor opens a window; it is registered on the active desktop, if
\* that exists.
on_window_opened(w) ==
  /\ w \notin open
  /\ open' = open \cup {w}
  /\ IF active_desktop_id \in Id
       THEN /\ desktops' = [desktops EXCEPT ![active_desktop_id] = @ \cup {w}]
            /\ UNCHANGED homeless
       ELSE homeless' = homeless \cup {w} /\ UNCHANGED desktops
  /\ UNCHANGED <<active_desktop_id, transition, overlayVars, engineVars>>

on_window_closed(w) ==
  /\ w \in open
  /\ open' = open \ {w} /\ homeless' = homeless \ {w}
  /\ desktops' = [d \in Id |-> desktops[d] \ {w}]
  /\ UNCHANGED <<active_desktop_id, transition, overlayVars, engineVars>>

-----------------------------------------------------------------------------
(* MotionWave: process_touchpad_motion with three or four fingers, and     *)
(* dispatch_action of what it recognised.                                  *)

Beyond(travel) == travel > Threshold \/ travel < -Threshold

\* A recognised swipe begins the next one from nothing.
Fresh == dx' = 0 /\ dy' = 0

\* Upwards toggles the overlay; downwards dismisses it when it is Active.
SwipeVertically(up) ==
  /\ IF up \/ state = "Active" THEN toggle ELSE UNCHANGED overlayVars
  /\ UNCHANGED desktopVars

\* To the desktop before or after, by id.
SwipeHorizontally(left) ==
  LET target == IF ~left THEN active_desktop_id + 1
                ELSE IF active_desktop_id > 0 THEN active_desktop_id - 1 ELSE 0
  IN  /\ IF target # active_desktop_id /\ target < Len(desktops)
           THEN switch_to(target)
           ELSE UNCHANGED <<active_desktop_id, transition>>
      /\ UNCHANGED <<desktops, overlayVars>>

process_touchpad_motion(sx, sy) ==
  LET x == dx + sx
      y == dy + IF natural_scrolling THEN sy ELSE -sy
  IN  /\ \/ Beyond(y) /\ Fresh /\ SwipeVertically(y < 0)
         \/ ~Beyond(y) /\ Beyond(x) /\ Fresh /\ SwipeHorizontally(x < 0)
         \/ ~Beyond(y) /\ ~Beyond(x) /\ dx' = x /\ dy' = y /\ UNCHANGED <<overlayVars, desktopVars>>
      /\ UNCHANGED <<natural_scrolling, windowVars>>

end_gesture ==
  /\ Fresh
  /\ UNCHANGED <<natural_scrolling, overlayVars, desktopVars, windowVars>>

\* TouchpadConfigChanged arrives from Process 1.
update_touchpad_config ==
  /\ natural_scrolling' = ~natural_scrolling
  /\ UNCHANGED <<dx, dy, overlayVars, desktopVars, windowVars>>

-----------------------------------------------------------------------------
PilotInit ==
  /\ state = "Hidden" /\ overlay_animation = 0
  /\ desktops = <<{}>> /\ active_desktop_id = 1
  /\ transition = 0
  /\ dx = 0 /\ dy = 0 /\ natural_scrolling = TRUE
  /\ open = {} /\ homeless = {}

Overlay == tick \/ show \/ hide

Desktops ==
  \/ create_desktop
  \/ \E id \in Id : ClickDesktop(id)
  \/ \E w \in Windows : on_window_opened(w) \/ on_window_closed(w)
  \/ \E w \in open, from \in AnyId : \/ move_window_to_new_desktop(w, from)
                                     \/ \E to \in AnyId : move_window_to_desktop(w, from, to)

MotionWave ==
  \/ \E sx, sy \in {-1, 0, 1} : process_touchpad_motion(sx, sy)
  \/ end_gesture \/ update_touchpad_config

PilotNext == Overlay \/ Desktops \/ MotionWave

PilotSpec == PilotInit /\ [][PilotNext]_pilotVars

-----------------------------------------------------------------------------
(* Properties.                                                             *)

\* The type of every variable.  No swipe leaves more travel behind than the
\* threshold, and the active desktop is one of the list, or 0.
PilotTypeOK ==
  /\ state \in {"Hidden", "Entering", "Active", "Exiting"}
  /\ overlay_animation \in 0 .. OverlayFrames
  /\ desktops \in Seq(SUBSET Windows) /\ Len(desktops) \in 1 .. MaxDesktops
  /\ active_desktop_id \in 0 .. Len(desktops)
  /\ transition \in 0 .. TransitionFrames
  /\ dx \in -Threshold .. Threshold /\ dy \in -Threshold .. Threshold
  /\ natural_scrolling \in BOOLEAN
  /\ open \subseteq Windows /\ homeless \subseteq open

\* A window that was registered is on exactly one desktop until it is closed,
\* through every drag whose target exists, and a closed one on none.  One that
\* was sent to a desktop there is not is on none from then on
\* (move_window_to_desktop, on_window_closed).
EachWindowInOnePlace ==
  \A w \in Windows :
    Cardinality({d \in Id : w \in desktops[d]}) = IF w \in open \ homeless THEN 1 ELSE 0

\* The overlay never hangs half-way: what enters gets there or is sent back,
\* and what leaves is gone, however the user swipes meanwhile (tick).
OverlaySettles ==
  /\ (state = "Entering") ~> (state \in {"Active", "Exiting"})
  /\ (state = "Exiting") ~> (state = "Hidden")
=============================================================================
