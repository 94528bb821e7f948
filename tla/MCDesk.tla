------------------------------- MODULE MCDesk -------------------------------
(* The surfaces of the desktop for TLC.  Pilot Control and the tiling      *)
(* manager share no state, so a behaviour of this module exercises one of  *)
(* them and leaves the other as it was.                                    *)
EXTENDS PilotControl, Tiling

CONSTANTS w1, w2

VARIABLE part

MCWindows == {w1, w2}

deskVars == <<pilotVars, tilingVars, part>>

Init == part \in {"pilot", "tiling"} /\ PilotInit /\ TilingInit

Pilot == part = "pilot" /\ PilotNext /\ UNCHANGED <<tilingVars, part>>
Tile == part = "tiling" /\ TilingNext /\ UNCHANGED <<pilotVars, part>>

\* The frame loop ticks every surface.
Frame ==
  \/ part = "pilot" /\ tick /\ UNCHANGED <<tilingVars, part>>
  \/ part = "tiling" /\ tile_tick /\ UNCHANGED <<pilotVars, part>>

Spec == Init /\ [][Pilot \/ Tile]_deskVars /\ WF_deskVars(Frame)
=============================================================================
