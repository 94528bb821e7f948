----------------------------- MODULE DeskProofs -----------------------------
(***************************************************************************)
(* Proofs about Tiling and PilotControl for any windows, desktops and      *)
(* lengths of the animations.                                              *)
(*                                                                         *)
(* Where a tiled window rests follows from where its animation leads, so   *)
(* the invariant of the tiling manager speaks of animations under way: an  *)
(* animation leads where the tile state of its window says, and, unless    *)
(* the window was hurried, an animation to floating leads home.            *)
(***************************************************************************)
EXTENDS PilotControl, Tiling, FiniteSetTheorems, TLAPS

USE PilotAssumption, TilingAssumption

-----------------------------------------------------------------------------
(* The tiling manager.                                                     *)

(* What a command does to the records.                                     *)
LEMMA CommandGiven ==
  ASSUME TilingTypeOK, NEW w \in Tiles, NEW command \in Commands, apply_tile_command(w, command)
  PROVE  /\ Registered' = Registered /\ Animated' = Animated \cup {w} /\ w \in Registered
         /\ \A v \in Registered \ {w} : windows'[v] = windows[v]
         /\ \A v \in Animated \ {w} : animations'[v] = animations[v]
         /\ windows'[w] \in [tile : States, floating : Places, current : Places]
         /\ windows'[w].tile = NewState(command) /\ windows'[w].floating = Saved(w)
         /\ animations'[w] \in [from : Places, to : Places, progress : 0 .. TileFrames - 1,
                                target : States]
         /\ animations'[w].to = Target(w, command) /\ animations'[w].target = windows'[w].tile
<1> USE DEF TilingTypeOK, Registered, Animated
<1>1. /\ w \in Registered /\ windows[w] \in [tile : States, floating : Places, current : Places]
      /\ NewState(command) \in States /\ Target(w, command) \in Places /\ Saved(w) \in Places
  BY DEF apply_tile_command, NewState, Target, Saved, Commands, States, Places
<1>2. /\ Registered' = Registered
      /\ windows'[w] = [windows[w] EXCEPT !.tile = NewState(command), !.floating = Saved(w)]
      /\ \A v \in Registered \ {w} : windows'[v] = windows[v]
  BY <1>1 DEF apply_tile_command
<1>3. /\ Animated' = Animated \cup {w}
      /\ animations'[w] = [from |-> windows[w].current, to |-> Target(w, command),
                           progress |-> 0, target |-> NewState(command)]
      /\ \A v \in Animated \ {w} : animations'[v] = animations[v]
  BY DEF apply_tile_command, With
<1>4. /\ windows'[w] \in [tile : States, floating : Places, current : Places]
      /\ windows'[w].tile = NewState(command) /\ windows'[w].floating = Saved(w)
  <2>1. windows'[w] = [tile |-> NewState(command), floating |-> Saved(w),
                       current |-> windows[w].current]
    BY <1>1, <1>2
  <2>2. windows[w].current \in Places
    BY <1>1
  <2>3. QED
    BY <1>1, <2>1, <2>2
<1>5. /\ animations'[w] \in [from : Places, to : Places, progress : 0 .. TileFrames - 1,
                             target : States]
      /\ animations'[w].to = Target(w, command) /\ animations'[w].target = NewState(command)
  BY <1>1, <1>3
<1>6. QED
  BY <1>1, <1>2, <1>3, <1>4, <1>5

(* Every reachable value of every variable is one the code can hold, for   *)
(* any windows.                                                            *)
THEOREM TilingTypeCorrect == TilingSpec => []TilingTypeOK
<1>1. TilingInit => TilingTypeOK
  BY DEF TilingInit, TilingTypeOK, Registered, Animated
<1>2. TilingTypeOK /\ [TilingNext]_tilingVars => TilingTypeOK'
  <2> SUFFICES ASSUME TilingTypeOK, [TilingNext]_tilingVars PROVE TilingTypeOK'
    OBVIOUS
  <2> USE DEF TilingTypeOK, Registered, Animated
  <2>1. ASSUME NEW w \in Tiles, register_window(w) PROVE TilingTypeOK'
    BY <2>1 DEF register_window, With, States, Places
  <2>2. ASSUME NEW w \in Registered, unregister_window(w) PROVE TilingTypeOK'
    BY <2>2 DEF unregister_window, Without
  <2>3. ASSUME NEW w \in Tiles, NEW command \in Commands, apply_tile_command(w, command)
        PROVE  TilingTypeOK'
    <3>1. /\ Registered' = Registered /\ Animated' = Animated \cup {w} /\ w \in Registered
          /\ \A v \in Registered \ {w} : windows'[v] = windows[v]
          /\ \A v \in Animated \ {w} : animations'[v] = animations[v]
      BY <2>3, CommandGiven
    <3>2. /\ windows'[w] \in [tile : States, floating : Places, current : Places]
          /\ animations'[w] \in [from : Places, to : Places, progress : 0 .. TileFrames - 1,
                                 target : States]
          /\ animations'[w].target = windows'[w].tile
      BY <2>3, CommandGiven
    <3>3. hurried' \subseteq Registered'
      BY <2>3, <3>1 DEF apply_tile_command
    <3>4. ASSUME NEW v \in Registered'
          PROVE  windows'[v] \in [tile : States, floating : Places, current : Places]
      BY <3>1, <3>2
    <3>5. ASSUME NEW v \in Animated'
          PROVE  /\ animations'[v] \in [from : Places, to : Places, progress : 0 .. TileFrames - 1,
                                        target : States]
                 /\ animations'[v].target = windows'[v].tile
      BY <3>1, <3>2
    <3>6. QED
      BY <3>1, <3>3, <3>4, <3>5
  <2>4. CASE tile_tick
    <3>1. ASSUME NEW v \in Animated
          PROVE  /\ Interpolated(animations[v]) \in Places
                 /\ ~is_complete(animations[v]) =>
                      /\ Advanced(animations[v]) \in
                           [from : Places, to : Places, progress : 0 .. TileFrames - 1,
                            target : States]
                      /\ Advanced(animations[v]).target = animations[v].target
      BY <3>1 DEF Interpolated, Advanced, is_complete, Places
    <3>2. /\ Registered' = Registered
          /\ \A v \in Registered :
               /\ windows'[v].tile = windows[v].tile
               /\ windows'[v] \in [tile : States, floating : Places, current : Places]
      BY <2>4, <3>1 DEF tile_tick
    <3>3. /\ Animated' = {v \in Animated : ~is_complete(animations[v])}
          /\ \A v \in Animated' : animations'[v] = Advanced(animations[v])
      BY <2>4 DEF tile_tick
    <3>4. QED
      BY <2>4, <3>1, <3>2, <3>3 DEF tile_tick
  <2>5. CASE UNCHANGED tilingVars
    BY <2>5 DEF tilingVars
  <2>6. QED
    BY <2>1, <2>2, <2>3, <2>4, <2>5 DEF TilingNext, Command
<1>3. QED
  BY <1>1, <1>2, PTL DEF TilingSpec

(* Where a window is, or is led by its animation.                          *)
Bound(w) == IF w \in Animated THEN animations[w].to ELSE windows[w].current

Led ==
  \A w \in Registered :
    /\ \A command \in Commands \ {"Restore"} :
         windows[w].tile = NewState(command) => Bound(w) = Target(w, command)
    /\ w \notin hurried => /\ windows[w].floating = "home"
                           /\ windows[w].tile = "Floating" => Bound(w) = "home"

(* Every animation leads where the tile state says, or home.               *)
LEMMA AnimationsLead == TilingSpec => []Led
<1>1. TilingInit => Led
  BY DEF TilingInit, Led, Registered
<1>2. TilingTypeOK /\ Led /\ [TilingNext]_tilingVars => Led'
  <2> SUFFICES ASSUME TilingTypeOK, Led, [TilingNext]_tilingVars PROVE Led'
    OBVIOUS
  <2> USE DEF Registered, Animated, Bound
  <2>1. ASSUME NEW w \in Tiles, register_window(w) PROVE Led'
    BY <2>1 DEF register_window, With, Led, TilingTypeOK, NewState, Target, Commands
  <2>2. ASSUME NEW w \in Registered, unregister_window(w) PROVE Led'
    BY <2>2 DEF unregister_window, Without, Led, Target, Commands
  <2>3. ASSUME NEW w \in Tiles, NEW command \in Commands, apply_tile_command(w, command)
        PROVE  Led'
    <3>1. /\ Registered' = Registered /\ Animated' = Animated \cup {w} /\ w \in Registered
          /\ \A v \in Registered \ {w} : windows'[v] = windows[v]
          /\ \A v \in Animated \ {w} : animations'[v] = animations[v]
          /\ windows'[w].tile = NewState(command) /\ windows'[w].floating = Saved(w)
          /\ animations'[w].to = Target(w, command)
      BY <2>3, CommandGiven
    <3>2. ASSUME NEW v \in Registered \ {w}
          PROVE  /\ Bound(v)' = Bound(v) /\ windows'[v] = windows[v]
                 /\ v \notin hurried' => v \notin hurried
      BY <2>3, <3>1 DEF apply_tile_command
    <3>3. Bound(w)' = Target(w, command)
      BY <3>1
    <3>4. \A c \in Commands \ {"Restore"} :
            windows'[w].tile = NewState(c) => c = command /\ Target(w, command) = Target(w, c)'
      BY <3>1 DEF NewState, Target, Commands
    <3>5. w \notin hurried' => /\ windows[w].floating = "home" /\ windows'[w].floating = "home"
                               /\ windows'[w].tile = "Floating" => Target(w, command) = "home"
      <4> SUFFICES ASSUME w \notin hurried'
                   PROVE  /\ windows[w].floating = "home" /\ windows'[w].floating = "home"
                          /\ windows'[w].tile = "Floating" => Target(w, command) = "home"
        OBVIOUS
      <4>1. w \notin hurried /\ (w \in Animated => animations[w].target # "Floating")
        BY <2>3 DEF apply_tile_command
      <4>2. windows[w].floating = "home" /\ (windows[w].tile = "Floating" => Bound(w) = "home")
        BY <3>1, <4>1 DEF Led
      <4>3. Saved(w) = "home"
        BY <4>1, <4>2 DEF Saved, TilingTypeOK
      <4>4. QED
        BY <3>1, <4>2, <4>3 DEF NewState, Target, Commands
    <3>6. ASSUME NEW v \in Registered'
          PROVE  /\ \A c \in Commands \ {"Restore"} :
                      windows'[v].tile = NewState(c) => Bound(v)' = Target(v, c)'
                 /\ v \notin hurried' => /\ windows'[v].floating = "home"
                                         /\ windows'[v].tile = "Floating" => Bound(v)' = "home"
      <4>1. CASE v = w
        BY <3>3, <3>4, <3>5, <4>1 DEF Target
      <4>2. CASE v # w
        BY <3>1, <3>2, <4>2 DEF Led, Target, Commands
      <4>3. QED
        BY <4>1, <4>2
    <3>7. QED
      BY <3>6 DEF Led
  <2>4. CASE tile_tick
    BY <2>4 DEF tile_tick, Led, TilingTypeOK, Target, Commands, Interpolated, is_complete, Advanced
  <2>5. CASE UNCHANGED tilingVars
    BY <2>5 DEF tilingVars, Led, Target, Commands
  <2>6. QED
    BY <2>1, <2>2, <2>3, <2>4, <2>5 DEF TilingNext, Command
<1>3. QED
  BY <1>1, <1>2, TilingTypeCorrect, PTL DEF TilingSpec

(* A tiled window at rest is where it was told, whatever commands cut its  *)
(* earlier animations short.                                               *)
THEOREM RestsWhereTold == TilingSpec => []SettledWhereTold
<1>1. Led => SettledWhereTold
  BY DEF Led, Bound, SettledWhereTold
<1>2. QED
  BY <1>1, AnimationsLead, PTL

(* A window that was not hurried on its way back finds its way home.       *)
THEOREM HomeIsKept == TilingSpec => []FloatingKept
<1>1. Led => FloatingKept
  BY DEF Led, Bound, FloatingKept
<1>2. QED
  BY <1>1, AnimationsLead, PTL

-----------------------------------------------------------------------------
(* Pilot Control.                                                          *)

(* A frame moves the overlay's animation within its bounds.                *)
LEMMA TickType ==
  ASSUME PilotTypeOK, tick
  PROVE  /\ state' \in {"Hidden", "Entering", "Active", "Exiting"}
         /\ overlay_animation' \in 0 .. OverlayFrames /\ transition' \in 0 .. TransitionFrames
BY DEF PilotTypeOK, tick, Entering, Exiting, overlayVars

(* A move leaves as many desktops as there were.                           *)
LEMMA MovedType ==
  ASSUME PilotTypeOK, NEW w \in Windows, NEW from, NEW to
  PROVE  /\ Moved(w, from, to) \in Seq(SUBSET Windows)
         /\ Len(Moved(w, from, to)) = Len(desktops)
<1>1. Id = 1 .. Len(desktops) /\ Len(desktops) \in Nat /\ \A d \in Id : desktops[d] \in SUBSET Windows
  BY DEF PilotTypeOK, Id
<1>2. Moved(w, from, to) \in [1 .. Len(desktops) -> SUBSET Windows]
  BY <1>1 DEF Moved
<1>3. QED
  BY <1>1, <1>2

(* Every reachable value of every variable is one the code can hold, for   *)
(* any windows, desktops and threshold.                                    *)
THEOREM PilotTypeCorrect == PilotSpec => []PilotTypeOK
<1>1. PilotInit => PilotTypeOK
  <2> SUFFICES ASSUME PilotInit PROVE PilotTypeOK
    OBVIOUS
  <2>1. desktops \in Seq(SUBSET Windows) /\ Len(desktops) = 1
    BY DEF PilotInit
  <2>2. natural_scrolling \in BOOLEAN
    BY DEF PilotInit
  <2>3. QED
    BY <2>1, <2>2 DEF PilotInit, PilotTypeOK
<1>2. PilotTypeOK /\ [PilotNext]_pilotVars => PilotTypeOK'
  <2> SUFFICES ASSUME PilotTypeOK, [PilotNext]_pilotVars PROVE PilotTypeOK'
    OBVIOUS
  <2> USE DEF PilotTypeOK, desktopVars, engineVars, windowVars, overlayVars
  <2>1. CASE tick
    BY <2>1, TickType DEF tick
  <2>2. CASE show \/ hide
    BY <2>2 DEF show, hide
  <2>3. CASE create_desktop
    BY <2>3 DEF create_desktop
  <2>4. ASSUME NEW id \in Id, ClickDesktop(id) PROVE PilotTypeOK'
    BY <2>4 DEF ClickDesktop, switch_to, Id
  <2>5. ASSUME NEW w \in Windows, on_window_opened(w) PROVE PilotTypeOK'
    BY <2>5 DEF on_window_opened, Id
  <2>6. ASSUME NEW w \in Windows, on_window_closed(w) PROVE PilotTypeOK'
    <3>1. desktops' \in Seq(SUBSET Windows) /\ Len(desktops') = Len(desktops)
      BY <2>6 DEF on_window_closed, Id
    <3>2. QED
      BY <2>6, <3>1 DEF on_window_closed
  <2>7. ASSUME NEW w \in open, NEW from \in AnyId, move_window_to_new_desktop(w, from)
        PROVE  PilotTypeOK'
    <3>1. Moved(w, from, 0) \in Seq(SUBSET Windows) /\ Len(Moved(w, from, 0)) = Len(desktops)
      BY MovedType
    <3>2. {w} \in SUBSET Windows /\ {} \in SUBSET Windows
      OBVIOUS
    <3>3. \/ desktops' = Append(Moved(w, from, 0), {w})
          \/ desktops' = Append(Moved(w, from, 0), {})
      BY <2>7 DEF move_window_to_new_desktop
    <3>4. desktops' \in Seq(SUBSET Windows) /\ Len(desktops') = Len(desktops) + 1
      BY <3>1, <3>2, <3>3
    <3>5. QED
      BY <2>7, <3>4 DEF move_window_to_new_desktop, switch_to
  <2>8. ASSUME NEW w \in open, NEW from \in AnyId, NEW to \in AnyId,
               move_window_to_desktop(w, from, to)
        PROVE  PilotTypeOK'
    <3>1. desktops' \in Seq(SUBSET Windows) /\ Len(desktops') = Len(desktops)
      BY <2>8, MovedType DEF move_window_to_desktop
    <3>2. QED
      BY <2>8, <3>1 DEF move_window_to_desktop
  <2>9. ASSUME NEW sx \in {-1, 0, 1}, NEW sy \in {-1, 0, 1}, process_touchpad_motion(sx, sy)
        PROVE  PilotTypeOK'
    BY <2>9 DEF process_touchpad_motion, Fresh, Beyond, SwipeVertically, SwipeHorizontally,
       toggle, switch_to
  <2>10. CASE end_gesture
    BY <2>10 DEF end_gesture, Fresh
  <2>11. CASE update_touchpad_config
    <3>1. natural_scrolling' \in BOOLEAN
      BY <2>11 DEF update_touchpad_config
    <3>2. QED
      BY <2>11, <3>1 DEF update_touchpad_config
  <2>12. CASE UNCHANGED pilotVars
    BY <2>12 DEF pilotVars
  <2>13. QED
    BY <2>1, <2>2, <2>3, <2>4, <2>5, <2>6, <2>7, <2>8, <2>9, <2>10, <2>11, <2>12
       DEF PilotNext, Overlay, Desktops, MotionWave
<1>3. QED
  BY <1>1, <1>2, PTL DEF PilotSpec

(* EachWindowInOnePlace without counting: a registered window is on one    *)
(* desktop and on no other, any other window on none.                      *)
OnOneDesktop ==
  \A w \in Windows :
    /\ w \in open \ homeless => \E d \in Id : w \in desktops[d]
    /\ \A d, e \in Id : w \in desktops[d] /\ w \in desktops[e] => d = e
    /\ w \notin open \ homeless => \A d \in Id : w \notin desktops[d]

(* On one desktop is on a number of desktops that is 1.                    *)
LEMMA OneDesktopCounts == OnOneDesktop => EachWindowInOnePlace
<1> SUFFICES ASSUME OnOneDesktop, NEW w \in Windows
             PROVE  Cardinality({d \in Id : w \in desktops[d]}) =
                      IF w \in open \ homeless THEN 1 ELSE 0
  BY DEF EachWindowInOnePlace
<1>1. CASE w \in open \ homeless
  <2>1. PICK d \in Id : w \in desktops[d]
    BY <1>1 DEF OnOneDesktop
  <2>2. {e \in Id : w \in desktops[e]} = {d}
    BY <2>1 DEF OnOneDesktop
  <2>3. QED
    BY <1>1, <2>2, FS_Singleton
<1>2. CASE w \notin open \ homeless
  <2>1. {d \in Id : w \in desktops[d]} = {}
    BY <1>2 DEF OnOneDesktop
  <2>2. QED
    BY <1>2, <2>1, FS_EmptySet
<1>3. QED
  BY <1>1, <1>2

(* A window that was registered is on exactly one desktop until it is      *)
(* closed or sent to a desktop there is not, through every other drag, and *)
(* then on none, for any number of windows and desktops.                   *)
THEOREM EachWindowOnOneDesktop == PilotSpec => []EachWindowInOnePlace
<1>1. PilotInit => OnOneDesktop
  BY DEF PilotInit, OnOneDesktop, Id
<1>2. PilotTypeOK /\ OnOneDesktop /\ [PilotNext]_pilotVars => OnOneDesktop'
  <2> SUFFICES ASSUME PilotTypeOK, OnOneDesktop, [PilotNext]_pilotVars PROVE OnOneDesktop'
    OBVIOUS
  <2>1. desktops \in Seq(SUBSET Windows) /\ Id = 1 .. Len(desktops) /\ homeless \subseteq open
    BY DEF PilotTypeOK, Id
  <2>2. CASE UNCHANGED <<desktops, windowVars>>
    BY <2>2 DEF OnOneDesktop, Id, windowVars
  <2>3. CASE create_desktop
    BY <2>1, <2>3 DEF create_desktop, OnOneDesktop, Id, windowVars
  <2>4. ASSUME NEW w \in Windows, on_window_opened(w) PROVE OnOneDesktop'
    BY <2>1, <2>4 DEF on_window_opened, OnOneDesktop, Id
  <2>5. ASSUME NEW w \in Windows, on_window_closed(w) PROVE OnOneDesktop'
    BY <2>1, <2>5 DEF on_window_closed, OnOneDesktop, Id
  <2>6. ASSUME NEW w \in open, NEW from \in AnyId, move_window_to_new_desktop(w, from)
        PROVE  OnOneDesktop'
    <3>1. Moved(w, from, 0) \in Seq(SUBSET Windows) /\ Len(Moved(w, from, 0)) = Len(desktops)
      BY MovedType DEF PilotTypeOK
    <3>2. PICK n \in SUBSET Windows : n = (IF Found(w, from) THEN {w} ELSE {})
      BY DEF PilotTypeOK
    <3>3. desktops' = Append(Moved(w, from, 0), n)
      BY <2>6, <3>2, Zenon DEF move_window_to_new_desktop
    <3>4. /\ Id' = 1 .. Len(desktops) + 1 /\ desktops'[Len(desktops) + 1] = n
          /\ \A d \in Id : desktops'[d] = Moved(w, from, 0)[d]
      BY <2>1, <3>1, <3>3 DEF Id
    <3>5. \A d \in Id : desktops'[d] = IF d = from THEN desktops[d] \ {w} ELSE desktops[d]
      <4>1. ASSUME NEW d \in Id PROVE d # 0
        BY <2>1
      <4>2. QED
        BY <3>4, <4>1 DEF Moved
    <3>6. UNCHANGED <<open, homeless>> /\ Len(desktops) \in Nat /\ w \in Windows
      BY <2>6 DEF move_window_to_new_desktop, windowVars, PilotTypeOK
    <3>7. PICK k : k = Len(desktops) + 1 /\ k \notin Id /\ Id' = Id \cup {k} /\ desktops'[k] = n
      BY <2>1, <3>4, <3>6
    <3>8. ASSUME NEW v \in Windows \ {w}
          PROVE  \A d \in Id' : v \in desktops'[d] <=> d \in Id /\ v \in desktops[d]
      BY <3>2, <3>5, <3>7
    <3>9. CASE Found(w, from)
      <4>1. \A d \in Id' : w \in desktops'[d] <=> d = k
        BY <2>1, <3>2, <3>5, <3>7, <3>9 DEF Found, OnOneDesktop
      <4>2. w \in open \ homeless
        BY <3>6, <3>9 DEF Found, OnOneDesktop
      <4>3. QED
        BY <3>6, <3>7, <3>8, <4>1, <4>2 DEF OnOneDesktop
    <3>10. CASE ~Found(w, from)
      <4>1. \A d \in Id' : w \in desktops'[d] <=> d \in Id /\ w \in desktops[d]
        BY <3>2, <3>5, <3>7, <3>10 DEF Found
      <4>2. QED
        BY <3>6, <3>7, <3>8, <4>1 DEF OnOneDesktop
    <3>11. QED
      BY <3>9, <3>10
  <2>7. ASSUME NEW w \in open, NEW from \in AnyId, NEW to \in AnyId,
               move_window_to_desktop(w, from, to)
        PROVE  OnOneDesktop'
    BY <2>1, <2>7 DEF move_window_to_desktop, Moved, Found, OnOneDesktop, Id
  <2>8. QED
    BY <2>2, <2>3, <2>4, <2>5, <2>6, <2>7
       DEF PilotNext, Overlay, Desktops, MotionWave, tick, show, hide, ClickDesktop,
           process_touchpad_motion, SwipeVertically, SwipeHorizontally, end_gesture,
           update_touchpad_config, desktopVars, windowVars, pilotVars
<1>3. QED
  BY <1>1, <1>2, OneDesktopCounts, PilotTypeCorrect, PTL DEF PilotSpec
=============================================================================
