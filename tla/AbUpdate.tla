------------------------------ MODULE AbUpdate ------------------------------
(***************************************************************************)
(* The A/B update subsystem of Process 1 (amgos-system/src/ab_system) with *)
(* the threads main.rs starts for every ApplyOtaUpdate request, the state  *)
(* file in /var/lib/amgos, the two base partitions, and the machine around *)
(* them: Process 1 dying and being restarted by systemd, power loss at any *)
(* step, and the boot loader.                                              *)
(*                                                                         *)
(* One action is one stretch of code between two points at which another   *)
(* thread, or a crash, can get in.  state.lock() is held from the change   *)
(* of the record to the end of fs::write, which truncates the file first.  *)
(***************************************************************************)
EXTENDS Naturals

CONSTANTS
  Workers,      \* OTA threads that may be alive at once
  Images,       \* contents of update images; the factory image is one
  Torn,         \* content of a slot that is not a whole image
  Missing,      \* there is no file at the image path
  Unchecked,    \* the empty expected_sha256
  Unreadable,   \* the state file is truncated or does not parse
  Main,         \* the main thread of Process 1
  Nobody        \* no thread holds the state lock for saving

Slots == {"A", "B"}

\* AbStateRecord.  max_boot_attempts is read by nothing and current_version
\* written by nothing; every caller stages version "0.0.2".
Record == [active : Slots, next : Slots, ok : BOOLEAN,
           attempts : {0, 1}, staged : BOOLEAN]

ASSUME ImagesAssumption ==
  /\ Torn \notin Images /\ Missing \notin Images /\ Unchecked \notin Images
ASSUME UnreadableAssumption == Unreadable \notin Record
ASSUME ThreadAssumption ==
  Main \notin Workers /\ Nobody \notin Workers /\ Main # Nobody

\* Ways in which the conditions of an atomic update get broken.
Hazards == {"overlap", "rewrite", "failed", "changed", "readError", "restart"}

VARIABLES
  running,     \* slot the kernel was booted from
  content,     \* what each slot holds
  disk,        \* the state file
  file,        \* the image file named by the requests
  p1,          \* Process 1: "off" (no power), "down", "loaded" or "up"
  rec,         \* AbUpdateManager.state
  saver,       \* thread inside save_state, Nobody if none
  inProgress,  \* AbUpdateManager.update_in_progress
  pc,          \* where each OTA thread is in stage_update
  want,        \* expected_sha256 of the request each thread serves
  target,      \* slot each thread writes
  dirty,       \* something disturbed the copy of this thread
  claimed,     \* digest demanded for the image last activated in each slot
  hazards      \* which Hazards have happened (history)

machine == <<running, content, file>>
manager == <<rec, disk, saver>>
threads == <<pc, want, target, dirty>>
vars == <<running, content, disk, file, p1, rec, saver, inProgress,
          pc, want, target, dirty, claimed, hazards>>

-----------------------------------------------------------------------------
opposite(s) == IF s = "A" THEN "B" ELSE "A"

\* The record load_or_detect_state falls back on: the slot of /proc/cmdline.
Detected(s) ==
  [active |-> s, next |-> s, ok |-> TRUE, attempts |-> 0, staged |-> FALSE]

\* The boot loader, assumed to obey next_boot_slot and to keep to the slot
\* it booted last when the record cannot be read.
BootSlot == IF disk = Unreadable THEN running ELSE disk.next

Copying(w) == pc[w] = "writing"

\* The thread returns.
Ends(w) ==
  /\ pc' = [pc EXCEPT ![w] = "idle"]
  /\ want' = [want EXCEPT ![w] = Unchecked]
  /\ target' = [target EXCEPT ![w] = "A"]
  /\ dirty' = [dirty EXCEPT ![w] = FALSE]

\* One lock-protected update of the record.  fs::write fails to open the
\* file (the error is dropped) or truncates it and goes on in EndSave.
Update(t, r) ==
  /\ saver = Nobody
  /\ rec' = r
  /\ \/ disk' = Unreadable /\ saver' = t
     \/ UNCHANGED <<disk, saver>>

\* fs::write ends, or fails half-way with the error dropped.
EndSave(t) ==
  /\ saver = t
  /\ saver' = Nobody
  /\ disk' \in {rec, disk}
  /\ UNCHANGED rec

-----------------------------------------------------------------------------
(* Process 1 starts: AbUpdateManager::new, then mark_boot_successful.      *)

Load ==
  /\ p1 = "down"
  /\ p1' = "loaded"
  /\ rec' = IF disk = Unreadable THEN Detected(running) ELSE disk
  /\ disk' \in IF disk = Unreadable THEN {rec', Unreadable} ELSE {disk}
  /\ inProgress' = FALSE
  /\ UNCHANGED <<machine, saver, threads, claimed, hazards>>

\* Mutant: the active slot is left alone.
MarkKeepsActive ==
  /\ p1 = "loaded"
  /\ p1' = "up"
  /\ Update(Main, [rec EXCEPT !.ok = TRUE, !.attempts = 0])
  /\ UNCHANGED <<machine, inProgress, threads, claimed, hazards>>

mark_boot_successful ==
  /\ p1 = "loaded"
  /\ p1' = "up"
  /\ Update(Main, [rec EXCEPT !.ok = TRUE, !.attempts = 0, !.active = rec.next])
  /\ UNCHANGED <<machine, inProgress, threads, claimed, hazards>>

trigger_rollback ==
  /\ p1 = "up"
  /\ Update(Main, [rec EXCEPT !.next = rec.active, !.ok = TRUE,
                              !.attempts = 0, !.staged = FALSE])
  /\ UNCHANGED <<machine, p1, inProgress, threads, claimed, hazards>>

MainSaved ==
  /\ EndSave(Main)
  /\ UNCHANGED <<machine, p1, inProgress, threads, claimed, hazards>>

-----------------------------------------------------------------------------
(* stage_update, one thread per ApplyOtaUpdate request.                    *)

\* The main loop receives the request and starts a thread for it.
Request(w, d) ==
  /\ p1 = "up" /\ saver # Main
  /\ pc[w] = "idle"
  /\ pc' = [pc EXCEPT ![w] = "check"]
  /\ want' = [want EXCEPT ![w] = d]
  /\ UNCHANGED <<machine, manager, p1, inProgress, target, dirty, claimed, hazards>>

\* image_path.exists()
NotFound(w) ==
  /\ pc[w] = "check" /\ file = Missing
  /\ Ends(w)
  /\ UNCHANGED <<machine, manager, p1, inProgress, claimed, hazards>>

Found(w) ==
  /\ pc[w] = "check" /\ file # Missing
  /\ pc' = [pc EXCEPT ![w] = "hash"]
  /\ inProgress' = TRUE
  /\ hazards' = hazards \cup
       (IF \E v \in Workers \ {w} : pc[v] \notin {"idle", "check"} THEN {"overlap"} ELSE {})
  /\ UNCHANGED <<machine, manager, p1, want, target, dirty, claimed>>

\* compute_sha256 fails: the error leaves update_in_progress set.
HashError(w) ==
  /\ pc[w] = "hash"
  /\ Ends(w)
  /\ hazards' = hazards \cup {"readError"}
  /\ UNCHANGED <<machine, manager, p1, inProgress, claimed>>

\* Mutant: the failure is returned without set_progress(false, ...).
MismatchLeavesFlag(w) ==
  /\ pc[w] = "hash" /\ file # Missing
  /\ want[w] # Unchecked /\ want[w] # file
  /\ Ends(w)
  /\ UNCHANGED <<machine, manager, p1, inProgress, claimed, hazards>>

Mismatch(w) ==
  /\ pc[w] = "hash" /\ file # Missing
  /\ want[w] # Unchecked /\ want[w] # file
  /\ Ends(w)
  /\ inProgress' = FALSE
  /\ UNCHANGED <<machine, manager, p1, claimed, hazards>>

\* Mutant: the digests are not compared.
VerifiedAnyway(w) ==
  /\ pc[w] = "hash" /\ file # Missing
  /\ pc' = [pc EXCEPT ![w] = "write"]
  /\ inProgress' = TRUE
  /\ UNCHANGED <<machine, manager, p1, want, target, dirty, claimed, hazards>>

\* Mutant: the slot is activated without the copy.
VerifiedNotCopied(w) ==
  /\ pc[w] = "hash" /\ file # Missing
  /\ want[w] = Unchecked \/ want[w] = file
  /\ pc' = [pc EXCEPT ![w] = "configure"]
  /\ target' = [target EXCEPT ![w] = opposite(rec.active)]
  /\ inProgress' = TRUE
  /\ UNCHANGED <<machine, manager, p1, want, dirty, claimed, hazards>>

Verified(w) ==
  /\ pc[w] = "hash" /\ file # Missing
  /\ want[w] = Unchecked \/ want[w] = file
  /\ pc' = [pc EXCEPT ![w] = "write"]
  /\ inProgress' = TRUE
  /\ UNCHANGED <<machine, manager, p1, want, target, dirty, claimed, hazards>>

\* write_to_standby_slot opens slot s and starts copying over it.
write_to_standby_slot(w, s) ==
  LET rivals == {v \in Workers \ {w} : Copying(v) /\ target[v] = s}
  IN  /\ target' = [target EXCEPT ![w] = s]
      /\ content' = [content EXCEPT ![s] = Torn]
      /\ dirty' = [v \in Workers |->
                     IF v = w THEN rivals # {} ELSE dirty[v] \/ v \in rivals]
      /\ hazards' = hazards \cup (IF s = BootSlot THEN {"rewrite"} ELSE {})
      /\ pc' = [pc EXCEPT ![w] = "writing"]
      /\ UNCHANGED <<running, file, manager, p1, inProgress, want, claimed>>

\* Mutant: the slot opposite to the next one to boot is taken for standby.
BeginWriteOppositeNext(w) ==
  /\ pc[w] = "write" /\ saver = Nobody /\ file # Missing
  /\ write_to_standby_slot(w, opposite(rec.next))

BeginWrite(w) ==
  /\ pc[w] = "write" /\ saver = Nobody /\ file # Missing
  /\ write_to_standby_slot(w, opposite(rec.active))

\* The source or the device cannot be opened; the result is dropped.
WriteNotOpened(w) ==
  /\ pc[w] = "write" /\ saver = Nobody
  /\ target' = [target EXCEPT ![w] = opposite(rec.active)]
  /\ pc' = [pc EXCEPT ![w] = "configure"]
  /\ inProgress' = TRUE
  /\ hazards' = hazards \cup {"failed"}
  /\ UNCHANGED <<machine, manager, p1, want, dirty, claimed>>

\* The copy reaches the end of the image.  A disturbed copy may be a mixture.
EndWrite(w) ==
  /\ pc[w] = "writing" /\ file # Missing
  /\ \/ content' = [content EXCEPT ![target[w]] = file]
     \/ dirty[w] /\ content' = [content EXCEPT ![target[w]] = Torn]
  /\ pc' = [pc EXCEPT ![w] = "configure"]
  /\ inProgress' = TRUE
  /\ UNCHANGED <<running, file, manager, p1, want, target, dirty, claimed, hazards>>

\* A read or write fails half-way; the result is dropped.
WriteFailed(w) ==
  /\ pc[w] = "writing"
  /\ pc' = [pc EXCEPT ![w] = "configure"]
  /\ inProgress' = TRUE
  /\ hazards' = hazards \cup {"failed"}
  /\ UNCHANGED <<machine, manager, p1, want, target, dirty, claimed>>

\* Mutant: boot_attempts counts stagings.
ConfigureCounting(w) ==
  /\ pc[w] = "configure"
  /\ Update(w, [rec EXCEPT !.next = target[w], !.ok = FALSE,
                           !.attempts = @ + 1, !.staged = TRUE])
  /\ claimed' = [claimed EXCEPT ![target[w]] = want[w]]
  /\ pc' = [pc EXCEPT ![w] = "saving"]
  /\ UNCHANGED <<machine, p1, inProgress, want, target, dirty, hazards>>

\* "Update state record atomically".
Configure(w) ==
  /\ pc[w] = "configure"
  /\ Update(w, [rec EXCEPT !.next = target[w], !.ok = FALSE,
                           !.attempts = 1, !.staged = TRUE])
  /\ claimed' = [claimed EXCEPT ![target[w]] = want[w]]
  /\ pc' = [pc EXCEPT ![w] = "saving"]
  /\ UNCHANGED <<machine, p1, inProgress, want, target, dirty, hazards>>

\* The lock is released (save_state done or given up).
Release(w) ==
  /\ pc[w] = "saving"
  /\ EndSave(w) \/ (saver # w /\ UNCHANGED manager)
  /\ pc' = [pc EXCEPT ![w] = "staged"]
  /\ UNCHANGED <<machine, p1, inProgress, want, target, dirty, claimed, hazards>>

\* set_progress(false, "Staged for Next Boot"); the thread publishes and ends.
Done(w) ==
  /\ pc[w] = "staged"
  /\ Ends(w)
  /\ inProgress' = FALSE
  /\ UNCHANGED <<machine, manager, p1, claimed, hazards>>

stage_update(w) ==
  \/ NotFound(w) \/ Found(w) \/ HashError(w) \/ Mismatch(w) \/ Verified(w)
  \/ BeginWrite(w) \/ WriteNotOpened(w) \/ EndWrite(w) \/ WriteFailed(w)
  \/ Configure(w) \/ Release(w) \/ Done(w)

-----------------------------------------------------------------------------
(* The machine.                                                            *)

\* A download or the user replaces or removes the image file.
ReplaceFile(f) ==
  /\ file' = f /\ f # file
  /\ dirty' = [w \in Workers |-> dirty[w] \/ Copying(w)]
  /\ hazards' = hazards \cup
       (IF \E w \in Workers : pc[w] \in {"write", "writing"} THEN {"changed"} ELSE {})
  /\ UNCHANGED <<running, content, manager, p1, inProgress, pc, want, target, claimed>>

\* Every thread of Process 1 is gone, wherever it was, and its memory with it.
ProcessLost ==
  /\ pc' = [w \in Workers |-> "idle"]
  /\ want' = [w \in Workers |-> Unchecked]
  /\ target' = [w \in Workers |-> "A"]
  /\ dirty' = [w \in Workers |-> FALSE]
  /\ rec' = Detected("A")
  /\ saver' = Nobody
  /\ inProgress' = FALSE

\* Process 1 dies and systemd (Restart=always) will start it again, without a
\* reboot: a hazard when the state file names the other slot by then.
Die ==
  /\ p1 \in {"loaded", "up"}
  /\ p1' = "down"
  /\ ProcessLost
  /\ hazards' = hazards \cup (IF BootSlot # running THEN {"restart"} ELSE {})
  /\ UNCHANGED <<machine, disk, claimed>>

\* Power goes, by a reboot request or by accident.
PowerOff ==
  /\ p1 # "off"
  /\ p1' = "off"
  /\ ProcessLost
  /\ UNCHANGED <<machine, disk, claimed, hazards>>

\* The boot loader starts the chosen slot; a torn image does not come up.
PowerOn ==
  /\ p1 = "off"
  /\ running' = BootSlot
  /\ p1' = IF content[BootSlot] = Torn THEN "off" ELSE "down"
  /\ UNCHANGED <<content, file, manager, inProgress, threads, claimed, hazards>>

-----------------------------------------------------------------------------
Init ==
  /\ running \in Slots
  /\ content \in [Slots -> Images \cup {Torn}]
  /\ content[running] \in Images
  /\ disk = Unreadable
  /\ file \in Images \cup {Missing}
  /\ p1 = "down"
  /\ rec = Detected("A")
  /\ saver = Nobody
  /\ inProgress = FALSE
  /\ pc = [w \in Workers |-> "idle"]
  /\ want = [w \in Workers |-> Unchecked]
  /\ target = [w \in Workers |-> "A"]
  /\ dirty = [w \in Workers |-> FALSE]
  /\ claimed = [s \in Slots |-> Unchecked]
  /\ hazards = {}

Next ==
  \/ Load \/ mark_boot_successful \/ trigger_rollback \/ MainSaved
  \/ \E w \in Workers, d \in Images \cup {Unchecked} : Request(w, d)
  \/ \E w \in Workers : stage_update(w)
  \/ \E f \in Images \cup {Missing} : ReplaceFile(f)
  \/ Die \/ PowerOff \/ PowerOn

Spec == Init /\ [][Next]_vars

-----------------------------------------------------------------------------
(* Properties.                                                             *)

TypeOK ==
  /\ running \in Slots
  /\ content \in [Slots -> Images \cup {Torn}]
  /\ disk \in Record \cup {Unreadable}
  /\ file \in Images \cup {Missing}
  /\ p1 \in {"off", "down", "loaded", "up"}
  /\ rec \in Record
  /\ saver \in Workers \cup {Main, Nobody}
  /\ inProgress \in BOOLEAN
  /\ pc \in [Workers -> {"idle", "check", "hash", "write", "writing",
                         "configure", "saving", "staged"}]
  /\ want \in [Workers -> Images \cup {Unchecked}]
  /\ target \in [Workers -> Slots]
  /\ dirty \in [Workers -> BOOLEAN]
  /\ claimed \in [Slots -> Images \cup {Unchecked}]
  /\ hazards \subseteq Hazards

\* Nothing has happened that stage_update does not defend against.
Sound == hazards \subseteq {"readError"}

\* Process 1 was not restarted with an update pending.
Rebooted == "restart" \notin hazards

\* "Active slot runs the current session": while Process 1 serves requests,
\* the slot its manager calls active is the slot the kernel was booted from
\* (mark_boot_successful, standby_slot).  A restart of Process 1 in the middle
\* of anything keeps that true, unless an update is pending.
ActiveIsRunning == (Rebooted /\ p1 = "up") => rec.active = running

\* No step of any thread, in any interleaving with crashes and power losses,
\* changes the slot the kernel runs from (write_to_standby_slot), unless
\* Process 1 was restarted with an update pending.
RunningSlotUntouched == [][Rebooted => content'[running] = content[running]]_vars

\* "OTA updates write strictly to standby slot", with no way out.
\* mark_boot_successful breaks it: it believes every start to be a boot.
StrictlyToStandby == [][content'[running] = content[running]]_vars

\* "SHA-256 integrity verification required before boot slot activation":
\* as long as stage_update's copies were not disturbed, the slot the boot
\* loader will start holds exactly the image whose digest was demanded when
\* that slot was activated (stage_update).
VerifiedBeforeActivation ==
  (Sound /\ claimed[BootSlot] # Unchecked) => content[BootSlot] = claimed[BootSlot]

\* What get_status reports as update_in_progress is true exactly while some
\* thread is between its first and its last set_progress; only two updates
\* at once, or an unreadable image, make it lie.
StatusHonest ==
  hazards \cap {"overlap", "readError"} = {} =>
    (inProgress <=> \E w \in Workers : pc[w] \notin {"idle", "check"})

\* "User is never in a partial update state; update applies atomically on
\* reboot": the subsystem implements AtomicUpdate, whose promise is void
\* once copies overlap, fail, race with a new download, or go into a slot
\* that is already the next one to boot.
Atomic == INSTANCE AtomicUpdate WITH
  runs <- content[running], offered <- content[BootSlot], sound <- Sound

AtomicUntilHazard == Atomic!Spec

\* The same promise with no way out but staging a second update on top of
\* one that has not been booted yet ("rewrite").  stage_update breaks it.
NeverPartial == hazards \subseteq {"rewrite"} => content[BootSlot] # Torn
=============================================================================
