---------------------------- MODULE AtomicUpdate ----------------------------
(***************************************************************************)
(* What an A/B updater promises its user: the machine runs one whole image *)
(* and the next power-on offers one whole image.  Staging replaces the     *)
(* offer in one step, booting takes it, and nothing else moves either.     *)
(*                                                                         *)
(* The promise is made while the updater is "sound".  Once it stops being  *)
(* sound anything may be run or offered, the value Torn included.          *)
(***************************************************************************)
CONSTANTS
  Images,   \* whole, bootable images
  Torn      \* anything that is not a whole image

VARIABLES
  runs,     \* what the machine runs, or last tried to run
  offered,  \* what the next power-on will run
  sound     \* the promise still stands

vars == <<runs, offered, sound>>

Init ==
  /\ runs \in Images
  /\ offered = runs
  /\ sound = TRUE

\* A new image (or the old one again, on a rollback) becomes the offer.
Offer ==
  /\ sound /\ sound'
  /\ offered' \in Images
  /\ runs' = runs

\* The machine restarts into what was on offer.
Boot ==
  /\ sound /\ sound'
  /\ runs' = offered
  /\ offered' = offered

\* The conditions of the promise are broken for good.
Void ==
  /\ sound' = FALSE
  /\ runs' \in Images \cup {Torn}
  /\ offered' \in Images \cup {Torn}

Next == Offer \/ Boot \/ Void

Spec == Init /\ [][Next]_vars
=============================================================================
