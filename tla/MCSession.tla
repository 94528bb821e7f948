----------------------------- MODULE MCSession -----------------------------
(* The services and the log of Process 1, the notifications, the tray and  *)
(* the dock of Process 2, and the screen of the terminal, for TLC.  They   *)
(* share no state, so a behaviour of this module exercises one of them and *)
(* leaves the others as they were.                                         *)
EXTENDS Services, Astrophage, Notifications, Tray, Dock, Grid

CONSTANTS a1, a2, a3

VARIABLE part

MCApps == {a1, a2, a3}
MCPinned == {a1}

processOneVars == <<servicesVars, astrophageVars>>
widgetVars == <<notificationVars, trayVars, dockVars>>
sessionVars == <<processOneVars, widgetVars, gridVars, part>>

Init ==
  /\ part \in {"services", "log", "notifications", "tray", "dock", "terminal"}
  /\ ServicesInit /\ AstrophageInit
  /\ NotificationInit /\ TrayInit /\ DockInit /\ GridInit
  /\ part # "services" => active_connection = None /\ ~powered
  /\ part # "log" => kernel = 0

\* The part on stage takes a step; the others stand still.
Serve == part = "services" /\ ServicesNext /\ UNCHANGED <<astrophageVars, widgetVars, gridVars, part>>
Log == part = "log" /\ AstrophageNext /\ UNCHANGED <<servicesVars, widgetVars, gridVars, part>>
Notify == part = "notifications" /\ NotificationNext
          /\ UNCHANGED <<processOneVars, trayVars, dockVars, gridVars, part>>
Badge == part = "tray" /\ TrayNext
         /\ UNCHANGED <<processOneVars, notificationVars, dockVars, gridVars, part>>
Icons == part = "dock" /\ DockNext
         /\ UNCHANGED <<processOneVars, notificationVars, trayVars, gridVars, part>>
Terminal == part = "terminal" /\ GridNext /\ UNCHANGED <<processOneVars, widgetVars, part>>

\* The frame loop ticks every widget.
Frame ==
  \/ part = "notifications" /\ banner_tick
     /\ UNCHANGED <<processOneVars, trayVars, dockVars, gridVars, part>>
  \/ part = "dock" /\ dock_tick
     /\ UNCHANGED <<processOneVars, notificationVars, trayVars, gridVars, part>>

Spec ==
  /\ Init /\ [][Serve \/ Log \/ Notify \/ Badge \/ Icons \/ Terminal]_sessionVars
  /\ WF_sessionVars(Frame)
=============================================================================
