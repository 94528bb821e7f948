-------------------------------- MODULE Tray --------------------------------
(***************************************************************************)
(* The notification widget of the top bar                                  *)
(* (amgos-desktop/src/topbar/tray/notifications.rs): the drawer of         *)
(* notifications received, the badge that counts the unread ones, and      *)
(* do-not-disturb, which leaves new ones out of the badge.  The drawer's   *)
(* items and the badge are two records of the same thing, kept in step     *)
(* call by call.                                                           *)
(***************************************************************************)
EXTENDS Integers, Sequences, FiniteSets, SequencesExt

CONSTANT MaxItems   \* notifications received (bound)

ASSUME TrayAssumption == MaxItems \in Nat \ {0}

VARIABLES
  received,        \* notifications received so far
  items,           \* those in the drawer, newest first
  unread_count,
  is_dnd_enabled,
  drawer_open

switches == <<is_dnd_enabled, drawer_open>>
trayVars == <<received, items, unread_count, switches>>

-----------------------------------------------------------------------------
handle_event ==
  /\ received < MaxItems /\ received' = received + 1
  /\ items' = <<[id |-> received', is_read |-> FALSE]>> \o items
  /\ unread_count' = IF is_dnd_enabled THEN unread_count ELSE unread_count + 1
  /\ UNCHANGED switches

mark_all_read ==
  /\ unread_count' = 0
  /\ items' = [i \in DOMAIN items |-> [id |-> items[i].id, is_read |-> TRUE]]

\* Mutant: the badge is taken down for what was read, not for what was not.
FewerUnread(i) == IF items[i].is_read /\ unread_count > 0 THEN unread_count - 1 ELSE unread_count

AfterDismiss(i) ==
  IF ~items[i].is_read /\ unread_count > 0 THEN unread_count - 1 ELSE unread_count

tray_dismiss ==
  /\ \E i \in DOMAIN items : items' = RemoveAt(items, i) /\ unread_count' = AfterDismiss(i)
  /\ UNCHANGED <<received, switches>>

clear_all == items' = <<>> /\ unread_count' = 0 /\ UNCHANGED <<received, switches>>

toggle_dnd ==
  /\ is_dnd_enabled' = ~is_dnd_enabled
  /\ UNCHANGED <<received, items, unread_count, drawer_open>>

toggle_drawer ==
  /\ drawer_open' = ~drawer_open
  /\ IF drawer_open' THEN mark_all_read ELSE UNCHANGED <<items, unread_count>>
  /\ UNCHANGED <<received, is_dnd_enabled>>

TrayInit ==
  /\ received = 0 /\ items = <<>> /\ unread_count = 0
  /\ is_dnd_enabled = FALSE /\ drawer_open = FALSE

TrayNext == handle_event \/ tray_dismiss \/ clear_all \/ toggle_dnd \/ toggle_drawer

TraySpec == TrayInit /\ [][TrayNext]_trayVars

-----------------------------------------------------------------------------
\* The variables of the tray have their types.
TrayTypeOK ==
  /\ received \in 0 .. MaxItems
  /\ items \in Seq([id : 1 .. MaxItems, is_read : BOOLEAN])
  /\ unread_count \in Nat
  /\ is_dnd_enabled \in BOOLEAN /\ drawer_open \in BOOLEAN

\* The badge never counts a notification that is gone or read: whatever was
\* dismissed, cleared, read or received under do-not-disturb, in any order,
\* the drawer holds at least unread_count items that are not read.
UnreadIsThere ==
  unread_count <= Cardinality({i \in DOMAIN items : ~items[i].is_read})
=============================================================================
