-------------------------------- MODULE Dock --------------------------------
(***************************************************************************)
(* The smart dock of Process 2 (amgos-desktop/src/smart_dock/mod.rs): the  *)
(* icons of pinned and running applications, and the hide and show         *)
(* animation driven by windows over the dock and by the cursor at its      *)
(* edge.  A launch, a close, a window or the cursor may come between any   *)
(* two frames, so an animation may turn round half way.                    *)
(***************************************************************************)
EXTENDS Integers

CONSTANTS
  Apps,         \* application ids
  Pinned,       \* those of SmartDock::new
  MaxWindows,   \* windows of one application (bound)
  DockFrames    \* frames of an animation, 220 ms

ASSUME DockAssumption ==
  /\ Pinned \subseteq Apps
  /\ MaxWindows \in Nat \ {0} /\ DockFrames \in Nat \ {0}

VARIABLES
  dock_entries,        \* window_count of each application with an icon
  visibility,     \* DockVisibility
  progress,       \* animation_progress, in frames
  overlapping,    \* window_overlapping
  near,           \* cursor_near_edge
  open_windows    \* how many windows each application has (history)

iconVars == <<dock_entries, open_windows>>
slideVars == <<visibility, progress, overlapping, near>>
dockVars == <<iconVars, slideVars>>

-----------------------------------------------------------------------------
(* The icons.  An icon is marked running when its window_count is not 0.   *)

on_app_launched(a) ==
  /\ open_windows[a] < MaxWindows
  /\ open_windows' = [open_windows EXCEPT ![a] = @ + 1]
  /\ dock_entries' = [b \in DOMAIN dock_entries \cup {a} |->
                   IF b # a THEN dock_entries[b]
                   ELSE IF a \in DOMAIN dock_entries THEN dock_entries[a] + 1 ELSE 1]
  /\ UNCHANGED slideVars

Less(n) == IF n > 0 THEN n - 1 ELSE 0

\* Mutant: an application that is not pinned leaves with its first window.
RetiresAtOnce(a) == a \in DOMAIN dock_entries \ Pinned

\* Its last window closed: an icon that is not pinned leaves the dock.
Retires(a) == a \in DOMAIN dock_entries \ Pinned /\ Less(dock_entries[a]) = 0

\* Also called for an application without a window: the count stays at 0.
on_app_closed(a) ==
  /\ open_windows' = [open_windows EXCEPT ![a] = Less(@)]
  /\ dock_entries' = [b \in DOMAIN dock_entries \ (IF Retires(a) THEN {a} ELSE {}) |->
                   IF b = a THEN Less(dock_entries[a]) ELSE dock_entries[b]]
  /\ UNCHANGED slideVars

-----------------------------------------------------------------------------
(* Hiding and showing.                                                     *)

ShouldShow == near \/ ~overlapping

\* Mutant: an animation under way is not turned round.
EvaluateSettled ==
  \/ ShouldShow' /\ visibility = "Hidden" /\ visibility' = "AnimatingIn" /\ progress' = 0
  \/ ~ShouldShow' /\ visibility = "Shown" /\ visibility' = "AnimatingOut" /\ progress' = DockFrames
  \/ /\ visibility # IF ShouldShow' THEN "Hidden" ELSE "Shown"
     /\ UNCHANGED <<visibility, progress>>

ToShow == ShouldShow' /\ visibility \in {"Hidden", "AnimatingOut"}
ToHide == ~ShouldShow' /\ visibility \in {"Shown", "AnimatingIn"}

evaluate_visibility ==
  \/ ToShow /\ visibility' = "AnimatingIn" /\ progress' = 0
  \/ ToHide /\ visibility' = "AnimatingOut" /\ progress' = DockFrames
  \/ ~ToShow /\ ~ToHide /\ UNCHANGED <<visibility, progress>>

on_window_overlapping ==
  /\ overlapping' = ~overlapping /\ UNCHANGED near
  /\ evaluate_visibility
  /\ UNCHANGED iconVars

on_cursor_near_edge ==
  /\ near' = ~near /\ UNCHANGED overlapping
  /\ evaluate_visibility
  /\ UNCHANGED iconVars

AnimatingIn ==
  /\ visibility = "AnimatingIn"
  /\ progress' = IF progress < DockFrames THEN progress + 1 ELSE DockFrames
  /\ visibility' = IF progress' = DockFrames THEN "Shown" ELSE "AnimatingIn"

AnimatingOut ==
  /\ visibility = "AnimatingOut"
  /\ progress' = Less(progress)
  /\ visibility' = IF progress' = 0 THEN "Hidden" ELSE "AnimatingOut"

\* One frame of the desktop.
dock_tick ==
  /\ AnimatingIn \/ AnimatingOut
  /\ UNCHANGED <<overlapping, near, iconVars>>

-----------------------------------------------------------------------------
DockInit ==
  /\ dock_entries = [a \in Pinned |-> 0]
  /\ open_windows = [a \in Apps |-> 0]
  /\ visibility = "Shown" /\ progress = DockFrames
  /\ overlapping = FALSE /\ near = FALSE

DockNext ==
  \/ \E a \in Apps : on_app_launched(a) \/ on_app_closed(a)
  \/ on_window_overlapping \/ on_cursor_near_edge
  \/ dock_tick

DockSpec == DockInit /\ [][DockNext]_dockVars /\ WF_dockVars(dock_tick)

-----------------------------------------------------------------------------
(* Properties.                                                             *)

\* The variables of the dock have their types.
DockTypeOK ==
  /\ DOMAIN dock_entries \subseteq Apps /\ Pinned \subseteq DOMAIN dock_entries
  /\ dock_entries \in [DOMAIN dock_entries -> Nat]
  /\ open_windows \in [Apps -> Nat]
  /\ visibility \in {"Shown", "Hidden", "AnimatingIn", "AnimatingOut"}
  /\ progress \in 0 .. DockFrames
  /\ overlapping \in BOOLEAN /\ near \in BOOLEAN

\* After any order of launches and closes (on_app_launched, on_app_closed),
\* the icons are those of the pinned applications and of the applications
\* with a window, and each counts the windows its application has.
IconsMatchWindows ==
  /\ DOMAIN dock_entries = Pinned \cup {a \in Apps : open_windows[a] > 0}
  /\ \A a \in DOMAIN dock_entries : dock_entries[a] = open_windows[a]

\* The dock is always shown or on its way in exactly when it should be, and
\* a settled dock's animation is over, however often evaluate_visibility
\* turned it round.
DockHeading ==
  /\ visibility \in {"Shown", "AnimatingIn"} <=> ShouldShow
  /\ visibility = "Shown" => progress = DockFrames
  /\ visibility = "Hidden" => progress = 0

\* A dock that should be shown comes to be shown, and one that should be
\* hidden comes to be hidden, unless a window or the cursor changes that
\* first: no order of evaluate_visibility and tick leaves it half way or on
\* the wrong side.
DockSettles ==
  /\ ShouldShow ~> (visibility = "Shown" \/ ~ShouldShow)
  /\ ~ShouldShow ~> (visibility = "Hidden" \/ ShouldShow)
=============================================================================
