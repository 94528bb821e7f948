------------------------------- MODULE Tiling -------------------------------
(***************************************************************************)
(* The tiling window manager of Process 2 (amgos-desktop/src/tiling) with  *)
(* the keyboard commands MotionWave routes to it.  A rectangle is one of   *)
(* the places a window can be told to take, or somewhere in between on the *)
(* way; a command may come at any frame of an animation.                   *)
(***************************************************************************)
EXTENDS Naturals

CONSTANTS
  Tiles,      \* window ids
  TileFrames  \* frames of a tile animation

ASSUME TilingAssumption == TileFrames \in Nat \ {0}

VARIABLES
  windows,     \* the record of every registered window
  animations,  \* at most one per window
  hurried      \* windows told something new on their way back to floating,
               \* since they were registered (history)

tilingVars == <<windows, animations, hurried>>

\* "home" is where the window was opened.
Places == {"home", "left", "right", "full", "between"}
States == {"Floating", "LeftHalf", "RightHalf", "Maximized"}
Commands == {"TileLeft", "TileRight", "Maximize", "Restore"}

Registered == DOMAIN windows
Animated == DOMAIN animations

Without(f, w) == [v \in DOMAIN f \ {w} |-> f[v]]
With(f, w, r) == [v \in DOMAIN f \cup {w} |-> IF v = w THEN r ELSE f[v]]

-----------------------------------------------------------------------------
register_window(w) ==
  /\ w \notin Registered
  /\ windows' = With(windows, w, [tile |-> "Floating", floating |-> "home", current |-> "home"])
  /\ UNCHANGED <<animations, hurried>>

unregister_window(w) ==
  /\ windows' = Without(windows, w)
  /\ animations' = Without(animations, w)
  /\ hurried' = hurried \ {w}

NewState(command) ==
  CASE command = "TileLeft" -> "LeftHalf" [] command = "TileRight" -> "RightHalf"
    [] command = "Maximize" -> "Maximized" [] command = "Restore" -> "Floating"

\* target_rect
Target(w, command) ==
  CASE command = "TileLeft" -> "left" [] command = "TileRight" -> "right"
    [] command = "Maximize" -> "full" [] command = "Restore" -> windows[w].floating

\* Mutant: the geometry is saved before every command.
SavedAlways(w) == windows[w].current

\* "Save floating geometry before any tile operation".
Saved(w) ==
  IF windows[w].tile = "Floating" THEN windows[w].current ELSE windows[w].floating

apply_tile_command(w, command) ==
  /\ w \in Registered
  /\ windows' = [windows EXCEPT ![w].tile = NewState(command), ![w].floating = Saved(w)]
  /\ animations' = With(animations, w,
       [from |-> windows[w].current, to |-> Target(w, command),
        progress |-> 0, target |-> NewState(command)])
  /\ hurried' = IF w \in Animated /\ animations[w].target = "Floating"
                  THEN hurried \cup {w} ELSE hurried

\* The interpolated rectangle after one more frame.
Interpolated(a) ==
  IF a.progress + 1 >= TileFrames THEN a.to ELSE IF a.from = a.to THEN a.to ELSE "between"

\* Mutant: complete a frame too early.
is_complete_early(a) == a.progress + 2 >= TileFrames

is_complete(a) == a.progress + 1 >= TileFrames

\* Mutant: the next frame starts from the old progress.
AdvancedNowhere(a) == a

Advanced(a) == [a EXCEPT !.progress = @ + 1]

\* One frame moves every animated window and forgets what is complete.
tile_tick ==
  /\ windows' = [w \in Registered |->
       IF w \in Animated THEN [windows[w] EXCEPT !.current = Interpolated(animations[w])]
                         ELSE windows[w]]
  /\ animations' = [w \in {v \in Animated : ~is_complete(animations[v])} |->
                      Advanced(animations[w])]
  /\ UNCHANGED hurried

-----------------------------------------------------------------------------
TilingInit == windows = <<>> /\ animations = <<>> /\ hurried = {}

Command(w) == \E command \in Commands : apply_tile_command(w, command)

TilingNext ==
  \/ \E w \in Tiles : register_window(w) \/ Command(w)
  \/ \E w \in Registered : unregister_window(w)
  \/ tile_tick

TilingSpec == TilingInit /\ [][TilingNext]_tilingVars

-----------------------------------------------------------------------------
(* Properties.                                                             *)

\* The type of every variable; every animation has its window and heads for
\* the state of its record.
TilingTypeOK ==
  /\ Registered \subseteq Tiles /\ Animated \subseteq Registered /\ hurried \subseteq Registered
  /\ \A w \in Registered :
       windows[w] \in [tile : States, floating : Places, current : Places]
  /\ \A w \in Animated :
       /\ animations[w] \in [from : Places, to : Places, progress : 0 .. TileFrames - 1,
                             target : States]
       /\ animations[w].target = windows[w].tile

\* A tiled window that has come to rest is where its tile state says, whatever
\* commands cut its earlier animations short (apply_tile_command, tick).
SettledWhereTold ==
  \A w \in Registered \ Animated : \A command \in Commands \ {"Restore"} :
    windows[w].tile = NewState(command) => windows[w].current = Target(w, command)

\* A window finds its way back to the floating geometry it was opened with,
\* through any sequence of tilings; unless it got a new command while it was
\* on the way back (then some place on that way is what was saved).
FloatingKept ==
  \A w \in Registered \ hurried :
    /\ windows[w].floating = "home"
    /\ windows[w].tile = "Floating" /\ w \notin Animated => windows[w].current = "home"

\* An animation ends, unless its window is told something new again and again.
TilesSettle ==
  \A w \in Tiles : []<>(w \notin Animated) \/ []<><<Command(w)>>_tilingVars
=============================================================================
