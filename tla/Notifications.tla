--------------------------- MODULE Notifications ---------------------------
(***************************************************************************)
(* A notification from its D-Bus caller to the screen: the outsider bus of *)
(* Process 1 (amgos-system/src/eobus/mod.rs) numbers it and makes an event *)
(* of it; Process 2 shows a banner for the event (notifications/mod.rs).   *)
(* Callers are threads, and one may be overtaken between taking its number *)
(* and the publication of its event, so events are heard in any order.     *)
(* New banners, dismissals, timeouts and the frames of banners on their    *)
(* way in or out meet in every order.  Banners are pushed in every boot    *)
(* phase of the desktop and move only in the last one, which may never     *)
(* come (module Boot).                                                     *)
(***************************************************************************)
EXTENDS Integers, Sequences, FiniteSets, Subsequences

CONSTANTS
  Urgencies,         \* urgencies of events: 0 low, 1 normal, 2 critical
  MaxNotifications,  \* notifications sent (bound)
  MaxVisible,        \* max_visible
  EnterFrames,       \* frames of the animation in
  TimeoutFrames,     \* frames a banner is left on screen
  ExitFrames         \* frames of the animation out

ASSUME NotificationsAssumption ==
  /\ MaxNotifications \in Nat \ {0} /\ MaxVisible \in Nat \ {0}
  /\ EnterFrames \in Nat \ {0} /\ TimeoutFrames \in Nat \ {0} /\ ExitFrames \in Nat \ {0}
  /\ Urgencies \subseteq 0 .. 2

VARIABLES
  notification_id_seq, \* the next id
  dispatched,          \* NotificationDispatched events not yet heard
  ready,               \* the desktop is in BootPhase::DesktopReady
  banners              \* on screen, newest first

notificationVars == <<notification_id_seq, dispatched, ready, banners>>

-----------------------------------------------------------------------------
(* The outsider bus.  The publisher gives the urgency.                     *)

handle_external_notification ==
  /\ notification_id_seq <= MaxNotifications
  /\ notification_id_seq' = notification_id_seq + 1
  /\ \E u \in Urgencies :
       dispatched' = dispatched \cup {[id |-> notification_id_seq, urgency |-> u]}
  /\ UNCHANGED <<ready, banners>>

-----------------------------------------------------------------------------
(* The banners.  `frames` counts those spent in the present state: the     *)
(* animation's progress, or the time since visible_since.                  *)

Banner == [id : 1 .. MaxNotifications, urgency : Urgencies,
           state : {"Entering", "Visible", "Exiting"}, frames : Nat]

Critical(b) == b.urgency = 2
Staying(b) == b.state # "Exiting"
In(b, s) == [b EXCEPT !.state = s, !.frames = 0]

\* Mutant: the oldest banner that is not critical, also one on its way out.
CutAny(bs) == {i \in DOMAIN bs : ~Critical(bs[i])}

Cuttable(bs) == {i \in DOMAIN bs : ~Critical(bs[i]) /\ Staying(bs[i])}

\* Over max_visible the oldest that may go starts to leave: one per push.
MakeWay(bs) ==
  IF Len(bs) <= MaxVisible \/ Cuttable(bs) = {} THEN bs
  ELSE LET last == CHOOSE i \in Cuttable(bs) : \A j \in Cuttable(bs) : j <= i
       IN  [bs EXCEPT ![last] = In(@, "Exiting")]

push(e) ==
  banners' = MakeWay(<<[id |-> e.id, urgency |-> e.urgency, state |-> "Entering", frames |-> 0]>>
                     \o Retain(banners, {b \in Banner : b.id # e.id}))

dismiss ==
  /\ \E i \in DOMAIN banners :
       Staying(banners[i]) /\ banners' = [banners EXCEPT ![i] = In(@, "Exiting")]
  /\ UNCHANGED <<notification_id_seq, dispatched, ready>>

\* Mutant: visible_since is not set, so no banner is ever due.
NeverDue(b) == FALSE

TimedOut(b) == ~Critical(b) /\ b.frames >= TimeoutFrames

Tick(b) ==
  CASE b.state = "Entering" -> IF b.frames + 1 < EnterFrames THEN [b EXCEPT !.frames = @ + 1]
                                                             ELSE In(b, "Visible")
    [] b.state = "Visible"  -> IF TimedOut(b) THEN In(b, "Exiting")
                               ELSE IF b.frames < TimeoutFrames THEN [b EXCEPT !.frames = @ + 1]
                               ELSE b
    [] b.state = "Exiting"  -> [b EXCEPT !.frames = @ + 1]

\* One frame of the desktop that is ready; banners that are all the way out are dropped.
banner_tick ==
  /\ ready /\ banners # <<>>
  /\ banners' = Retain([i \in DOMAIN banners |-> Tick(banners[i])],
                       {b \in Banner : Staying(b) \/ b.frames < ExitFrames})
  /\ UNCHANGED <<notification_id_seq, dispatched, ready>>

\* The frame loop hears an event, in whatever phase.
hear_notification ==
  /\ \E e \in dispatched : dispatched' = dispatched \ {e} /\ push(e)
  /\ UNCHANGED <<notification_id_seq, ready>>

\* The desktop is through its boot phases.
DesktopReady ==
  /\ ~ready /\ ready' = TRUE
  /\ UNCHANGED <<notification_id_seq, dispatched, banners>>

-----------------------------------------------------------------------------
NotificationInit ==
  /\ notification_id_seq = 1 /\ dispatched = {}
  /\ ready = FALSE /\ banners = <<>>

NotificationNext ==
  \/ handle_external_notification \/ DesktopReady
  \/ hear_notification \/ dismiss \/ banner_tick

NotificationSpec ==
  NotificationInit /\ [][NotificationNext]_notificationVars /\ WF_notificationVars(banner_tick)

-----------------------------------------------------------------------------
(* Properties.                                                             *)

\* However pushes, dismissals and frames meet, although a push sends at most
\* one banner away and may find that one already leaving: no more than
\* max_visible banners stay, unless all that stay are critical.
BannersMakeWay ==
  LET staying == {i \in DOMAIN banners : Staying(banners[i])}
  IN  Cardinality(staying) <= MaxVisible \/ \A i \in staying : Critical(banners[i])

\* Once the desktop is ready, a banner that is not critical leaves the
\* screen, also one pushed before, whatever is pushed above it or dismissed
\* meanwhile.
BannersLeave ==
  \A id \in 1 .. MaxNotifications :
    ready /\ (\E i \in DOMAIN banners : banners[i].id = id /\ ~Critical(banners[i]))
      ~> ~\E i \in DOMAIN banners : banners[i].id = id
=============================================================================
