--------------------------- MODULE AbUpdateProofs ---------------------------
(***************************************************************************)
(* Proofs about AbUpdate for any number of OTA threads and any set of      *)
(* images.  Type correctness holds as it is.  That the active slot of the  *)
(* record is the running one, and that no step writes the running slot,    *)
(* holds as long as Process 1 is never restarted with an update pending;   *)
(* the inductive invariant adds what is known of the record between        *)
(* power-on and mark_boot_successful, and of the slots the threads write.  *)
(* That a slot to boot holds what was verified needs to know which image   *)
(* each thread has proved whole, and on which slot it may still be at      *)
(* work; that the status is honest, that no two threads are at work.       *)
(***************************************************************************)
EXTENDS AbUpdate, TLAPS

USE DEF Slots, Record, machine, manager, threads

(***************************************************************************)
(* The strengthening of ActiveIsRunning: what the record says of the       *)
(* running slot at each stage of start-up, that only a started Process 1   *)
(* has threads, and that they write the other slot.                        *)
(***************************************************************************)
SlotInv ==
  /\ p1 = "down" /\ disk # Unreadable => disk.next = running
  /\ p1 = "loaded" => rec.next = running
  /\ p1 = "up" => rec.active = running
  /\ p1 # "up" => saver = Nobody /\ \A w \in Workers : pc[w] = "idle"
  /\ \A w \in Workers :
       pc[w] \in {"writing", "configure", "saving", "staged"} => target[w] = opposite(running)

SlotWhileRebooted == Rebooted => SlotInv

(* What opposite returns.                                                  *)
LEMMA OppositeSlot ==
  ASSUME NEW s \in Slots
  PROVE  opposite(s) \in Slots /\ opposite(s) # s
BY DEF opposite

(* The fallback record is a record.                                        *)
LEMMA DetectedType ==
  ASSUME NEW s \in Slots
  PROVE  Detected(s) \in Record
BY DEF Detected

(* The boot loader picks a slot.                                           *)
LEMMA BootSlotType == TypeOK => BootSlot \in Slots
BY DEF TypeOK, BootSlot

(* Hazards are never forgotten.                                            *)
LEMMA HazardsStay == [Next]_vars => (Sound' => Sound) /\ (Rebooted' => Rebooted)
<1> SUFFICES ASSUME [Next]_vars PROVE (Sound' => Sound) /\ (Rebooted' => Rebooted)
  OBVIOUS
<1>1. hazards \subseteq hazards'
  BY DEF vars, Next, stage_update, Load, mark_boot_successful, trigger_rollback, MainSaved,
     Request, NotFound, Found, HashError, Mismatch, Verified, BeginWrite,
     write_to_standby_slot, WriteNotOpened, EndWrite, WriteFailed, Configure, Release, Done,
     ReplaceFile, Die, PowerOff, PowerOn
<1>2. QED
  BY <1>1 DEF Sound, Rebooted

(* Every reachable value of every variable is one the code can hold, for   *)
(* any number of threads and images.                                       *)
THEOREM TypeCorrect == Spec => []TypeOK
<1>1. Init => TypeOK
  <2> SUFFICES ASSUME Init PROVE TypeOK
    OBVIOUS
  <2>1. rec \in Record
    BY DetectedType DEF Init
  <2>2. inProgress \in BOOLEAN /\ dirty \in [Workers -> BOOLEAN]
    BY DEF Init
  <2>3. QED
    BY <2>1, <2>2 DEF Init, TypeOK
<1>2. TypeOK /\ [Next]_vars => TypeOK'
  <2> SUFFICES ASSUME TypeOK, [Next]_vars PROVE TypeOK'
    OBVIOUS
  <2> USE DEF TypeOK
  <2>1. CASE Load
    BY <2>1, DetectedType DEF Load
  <2>2. CASE mark_boot_successful
    BY <2>2 DEF mark_boot_successful, Update
  <2>3. CASE trigger_rollback
    BY <2>3 DEF trigger_rollback, Update
  <2>4. CASE MainSaved
    BY <2>4 DEF MainSaved, EndSave
  <2>5. ASSUME NEW w \in Workers, NEW d \in Images \cup {Unchecked}, Request(w, d)
        PROVE  TypeOK'
    BY <2>5 DEF Request
  <2>6. ASSUME NEW w \in Workers, stage_update(w)
        PROVE  TypeOK'
    <3>1. CASE NotFound(w)
      BY <3>1 DEF NotFound, Ends
    <3>2. CASE Found(w)
      BY <3>2 DEF Found, Hazards
    <3>3. CASE HashError(w)
      BY <3>3 DEF HashError, Ends, Hazards
    <3>4. CASE Mismatch(w)
      <4>1. inProgress' \in BOOLEAN
        BY <3>4 DEF Mismatch
      <4>2. UNCHANGED <<machine, manager, p1, claimed, hazards>> /\ Ends(w)
        BY <3>4 DEF Mismatch
      <4>3. QED
        BY <4>1, <4>2 DEF Ends
    <3>5. CASE Verified(w)
      BY <3>5 DEF Verified
    <3>6. CASE BeginWrite(w)
      <4>1. opposite(rec.active) \in Slots
        BY OppositeSlot
      <4>2. QED
        <5>1. dirty' \in [Workers -> BOOLEAN]
          BY <3>6 DEF BeginWrite, write_to_standby_slot
        <5>2. hazards' \subseteq Hazards
          BY <3>6 DEF BeginWrite, write_to_standby_slot, Hazards
        <5>3. target' \in [Workers -> Slots] /\ content' \in [Slots -> Images \cup {Torn}]
          BY <3>6, <4>1 DEF BeginWrite, write_to_standby_slot
        <5>4. QED
          BY <3>6, <5>1, <5>2, <5>3 DEF BeginWrite, write_to_standby_slot
    <3>7. CASE WriteNotOpened(w)
      BY <3>7, OppositeSlot DEF WriteNotOpened, Hazards
    <3>8. CASE EndWrite(w)
      BY <3>8 DEF EndWrite
    <3>9. CASE WriteFailed(w)
      BY <3>9 DEF WriteFailed, Hazards
    <3>10. CASE Configure(w)
      <4>1. [rec EXCEPT !.next = target[w], !.ok = FALSE,
                        !.attempts = 1, !.staged = TRUE] \in Record
        OBVIOUS
      <4>2. rec' \in Record /\ disk' \in Record \cup {Unreadable}
        BY <3>10, <4>1 DEF Configure, Update
      <4>3. QED
        BY <3>10, <4>2 DEF Configure, Update
    <3>11. CASE Release(w)
      BY <3>11 DEF Release, EndSave
    <3>12. CASE Done(w)
      <4>1. inProgress' \in BOOLEAN
        BY <3>12 DEF Done
      <4>2. UNCHANGED <<machine, manager, p1, claimed, hazards>> /\ Ends(w)
        BY <3>12 DEF Done
      <4>3. QED
        BY <4>1, <4>2 DEF Ends
    <3>13. QED
      BY <2>6, <3>1, <3>2, <3>3, <3>4, <3>5, <3>6, <3>7, <3>8, <3>9, <3>10, <3>11, <3>12
      DEF stage_update
  <2>7. ASSUME NEW f \in Images \cup {Missing}, ReplaceFile(f)
        PROVE  TypeOK'
    BY <2>7 DEF ReplaceFile, Hazards
  <2>8. CASE Die
    BY <2>8, DetectedType DEF Die, ProcessLost, Hazards
  <2>9. CASE PowerOff
    BY <2>9, DetectedType DEF PowerOff, ProcessLost
  <2>10. CASE PowerOn
    BY <2>10, BootSlotType DEF PowerOn
  <2>11. CASE UNCHANGED vars
    BY <2>11 DEF vars
  <2>12. QED
    BY <2>1, <2>2, <2>3, <2>4, <2>5, <2>6, <2>7, <2>8, <2>9, <2>10, <2>11 DEF Next
<1>3. QED
  BY <1>1, <1>2, PTL DEF Spec
-----------------------------------------------------------------------------
(* Process 1 always knows which slot runs, unless it was restarted without *)
(* a reboot.                                                               *)

(* The steps of start-up and of the main thread keep SlotInv.              *)
LEMMA MainKeepsSlotInv ==
  ASSUME TypeOK, SlotInv,
         Load \/ mark_boot_successful \/ trigger_rollback \/ MainSaved
  PROVE  SlotInv'
<1> USE DEF SlotInv
<1>1. CASE Load
  <2>1. rec'.next = running
    BY <1>1 DEF Load, Detected
  <2>2. QED
    BY <1>1, <2>1 DEF Load
<1>2. CASE mark_boot_successful
  <2>1. rec'.active = running
    BY <1>2 DEF mark_boot_successful, Update, TypeOK
  <2>2. QED
    BY <1>2, <2>1 DEF mark_boot_successful
<1>3. CASE trigger_rollback
  <2>1. rec'.active = rec.active
    BY <1>3 DEF trigger_rollback, Update, TypeOK
  <2>2. QED
    BY <1>3, <2>1 DEF trigger_rollback
<1>4. CASE MainSaved
  BY <1>4, ThreadAssumption DEF MainSaved, EndSave
<1>5. QED
  BY <1>1, <1>2, <1>3, <1>4

(* So do the steps of an OTA thread.                                       *)
LEMMA ThreadKeepsSlotInv ==
  ASSUME TypeOK, SlotInv, NEW w \in Workers, stage_update(w)
  PROVE  SlotInv'
<1> USE DEF SlotInv, TypeOK
<1>0. p1 = "up" /\ rec.active = running
  BY DEF stage_update, NotFound, Found, HashError, Mismatch, Verified, BeginWrite,
         WriteNotOpened, EndWrite, WriteFailed, Configure, Release, Done
<1>1. CASE NotFound(w) \/ HashError(w) \/ Mismatch(w) \/ Done(w)
  BY <1>0, <1>1 DEF NotFound, HashError, Mismatch, Done, Ends
<1>2. CASE Found(w) \/ Verified(w) \/ EndWrite(w) \/ WriteFailed(w)
  BY <1>0, <1>2 DEF Found, Verified, EndWrite, WriteFailed
<1>3. CASE BeginWrite(w) \/ WriteNotOpened(w)
  BY <1>0, <1>3 DEF BeginWrite, WriteNotOpened, write_to_standby_slot
<1>4. CASE Configure(w)
  <2>1. rec'.active = rec.active
    BY <1>4 DEF Configure, Update
  <2>2. QED
    BY <1>0, <1>4, <2>1 DEF Configure
<1>5. CASE Release(w)
  BY <1>0, <1>5 DEF Release, EndSave
<1>6. QED
  BY <1>1, <1>2, <1>3, <1>4, <1>5 DEF stage_update

(* So do the steps of the machine, a restart with nothing pending included. *)
LEMMA MachineKeepsSlotInv ==
  ASSUME TypeOK, SlotInv, Rebooted',
         (\E f \in Images \cup {Missing} : ReplaceFile(f)) \/ Die \/ PowerOff \/ PowerOn
  PROVE  SlotInv'
<1> USE DEF SlotInv
<1>1. ASSUME NEW f \in Images \cup {Missing}, ReplaceFile(f)
      PROVE  SlotInv'
  BY <1>1 DEF ReplaceFile
<1>2. CASE Die
  <2>1. disk # Unreadable => disk.next = running
    BY <1>2 DEF Die, Rebooted, BootSlot
  <2>2. QED
    BY <1>2, <2>1 DEF Die, ProcessLost
<1>3. CASE PowerOff
  BY <1>3 DEF PowerOff, ProcessLost
<1>4. CASE PowerOn
  <2>1. disk' = disk /\ (disk # Unreadable => disk'.next = running')
    BY <1>4 DEF PowerOn, BootSlot
  <2>2. saver = Nobody /\ \A w \in Workers : pc[w] = "idle"
    BY <1>4 DEF PowerOn
  <2>3. QED
    BY <1>4, <2>1, <2>2 DEF PowerOn
<1>5. QED
  BY <1>1, <1>2, <1>3, <1>4

(* SlotInv is inductive until a restart with an update pending.            *)
LEMMA SlotInvariant == Spec => []SlotWhileRebooted
<1>1. Init => SlotWhileRebooted
  BY DEF Init, SlotInv, SlotWhileRebooted
<1>2. TypeOK /\ SlotWhileRebooted /\ [Next]_vars => SlotWhileRebooted'
  <2> SUFFICES ASSUME TypeOK, SlotInv, [Next]_vars, Rebooted' PROVE SlotInv'
    BY HazardsStay DEF SlotWhileRebooted
  <2>1. ASSUME NEW w \in Workers, NEW d \in Images \cup {Unchecked}, Request(w, d)
        PROVE  SlotInv'
    BY <2>1 DEF Request, SlotInv, TypeOK
  <2>2. CASE UNCHANGED vars
    BY <2>2 DEF vars, SlotInv
  <2>3. QED
    BY <2>1, <2>2, MainKeepsSlotInv, ThreadKeepsSlotInv, MachineKeepsSlotInv DEF Next
<1>3. QED
  BY <1>1, <1>2, TypeCorrect, PTL DEF Spec

(* ActiveIsRunning: until Process 1 is restarted with an update pending,   *)
(* the slot the manager calls active is the one the kernel was booted from. *)
THEOREM ActiveSlotIsRunning == Spec => []ActiveIsRunning
<1>1. SlotWhileRebooted => ActiveIsRunning
  BY DEF SlotInv, SlotWhileRebooted, ActiveIsRunning
<1>2. QED
  BY <1>1, SlotInvariant, PTL

(* RunningSlotUntouched: until Process 1 is restarted with an update       *)
(* pending, no interleaving of threads, failures, restarts and power       *)
(* losses ever writes the slot the kernel runs from.                       *)
THEOREM RunningSlotNeverWritten == Spec => RunningSlotUntouched
<1>1. TypeOK /\ SlotWhileRebooted /\ [Next]_vars
      => [Rebooted => content'[running] = content[running]]_vars
  <2> SUFFICES ASSUME TypeOK, SlotInv, Next
               PROVE  content'[running] = content[running]
    BY DEF vars, SlotWhileRebooted
  <2>1. ASSUME NEW w \in Workers, stage_update(w)
        PROVE  content'[running] = content[running]
    <3>1. CASE BeginWrite(w)
      <4>1. p1 = "up" /\ rec.active = running
        BY <3>1 DEF SlotInv, BeginWrite
      <4>2. opposite(running) # running
        BY OppositeSlot DEF TypeOK
      <4>3. content' = [content EXCEPT ![opposite(running)] = Torn]
        BY <3>1, <4>1 DEF BeginWrite, write_to_standby_slot
      <4>4. QED
        BY <4>2, <4>3 DEF TypeOK
    <3>2. CASE EndWrite(w)
      <4>1. target[w] # running
        BY <3>2, OppositeSlot DEF EndWrite, SlotInv, TypeOK
      <4>2. QED
        BY <3>2, <4>1 DEF EndWrite, TypeOK
    <3>3. QED
      BY <2>1, <3>1, <3>2 DEF stage_update, NotFound, Found, HashError, Mismatch,
         Verified, WriteNotOpened, WriteFailed, Configure, Release, Done
  <2>2. QED
    BY <2>1 DEF Next, Load, mark_boot_successful, trigger_rollback, MainSaved,
       Request, ReplaceFile, Die, PowerOff, PowerOn
<1>2. QED
  BY <1>1, TypeCorrect, SlotInvariant, PTL DEF Spec, RunningSlotUntouched

-----------------------------------------------------------------------------
(* The updates are atomic until a hazard has happened.                     *)

\* Between its first and its last set_progress.
Updating(w) == pc[w] \notin {"idle", "check"}

(***************************************************************************)
(* While the subsystem is sound: the running and the offered slot are      *)
(* whole, what is being saved names a whole slot, a copy goes where the    *)
(* boot loader does not look and nobody disturbs it, a finished copy is    *)
(* whole, and one update runs at a time.                                   *)
(***************************************************************************)
AtomInv ==
  /\ content[running] \in Images
  /\ content[BootSlot] \in Images
  /\ saver = Main => rec.next = running
  /\ \A w \in Workers : saver = w => pc[w] = "saving" /\ rec.next = target[w]
  /\ \A w \in Workers : pc[w] = "writing" => target[w] # BootSlot /\ ~dirty[w]
  /\ \A w \in Workers :
       pc[w] \in {"configure", "saving", "staged"} => content[target[w]] \in Images
  /\ \A v, w \in Workers : Updating(v) /\ Updating(w) => v = w

SoundInv == Sound => AtomInv

(* The steps of start-up and of the main thread keep AtomInv.              *)
LEMMA MainKeepsAtomInv ==
  ASSUME TypeOK, SlotInv, AtomInv,
         Load \/ mark_boot_successful \/ trigger_rollback \/ MainSaved
  PROVE  AtomInv'
<1> USE ThreadAssumption, UnreadableAssumption DEF AtomInv, SlotInv, Updating
<1>1. CASE Load
  <2>1. rec'.next = running /\ (disk = Unreadable => BootSlot' = running)
    BY <1>1 DEF Load, Detected, BootSlot
  <2>2. BootSlot' = BootSlot
    BY <1>1, <2>1 DEF Load, BootSlot
  <2>3. QED
    BY <1>1, <2>1, <2>2 DEF Load
<1>2. CASE mark_boot_successful \/ trigger_rollback
  <2>1. rec'.next = running
    BY <1>2 DEF mark_boot_successful, trigger_rollback, Update, TypeOK
  <2>2. BootSlot' = BootSlot \/ BootSlot' = running
    BY <1>2 DEF mark_boot_successful, trigger_rollback, Update, BootSlot
  <2>3. saver = Nobody /\ saver' \in {Main, Nobody}
    BY <1>2 DEF mark_boot_successful, trigger_rollback, Update
  <2>4. \A w \in Workers : pc[w] = "writing" => target[w] # running
    BY OppositeSlot DEF TypeOK
  <2>5. UNCHANGED <<machine, threads>>
    BY <1>2 DEF mark_boot_successful, trigger_rollback
  <2>6. QED
    BY <2>1, <2>2, <2>3, <2>4, <2>5
<1>3. CASE MainSaved
  <2>1. rec' = rec /\ rec.next = running /\ saver' = Nobody
    BY <1>3 DEF MainSaved, EndSave
  <2>2. BootSlot' = BootSlot \/ BootSlot' = running
    BY <1>3, <2>1 DEF MainSaved, EndSave, BootSlot
  <2>3. \A w \in Workers : pc[w] = "writing" => target[w] # running
    BY OppositeSlot DEF TypeOK
  <2>4. UNCHANGED <<machine, threads>>
    BY <1>3 DEF MainSaved
  <2>5. QED
    BY <2>1, <2>2, <2>3, <2>4
<1>4. QED
  BY <1>1, <1>2, <1>3

(* So do the steps of an OTA thread that raise no hazard.                  *)
LEMMA ThreadKeepsAtomInv ==
  ASSUME TypeOK, SlotInv, AtomInv, Sound', NEW w \in Workers, stage_update(w)
  PROVE  AtomInv'
<1> USE ThreadAssumption, UnreadableAssumption
    DEF AtomInv, SlotInv, Updating, TypeOK
<1>0. /\ p1 = "up" /\ rec.active = running
      /\ pc[w] # "check" => \A v \in Workers \ {w} : pc[v] \in {"idle", "check"}
  BY DEF stage_update, NotFound, Found, HashError, Mismatch, Verified, BeginWrite,
         WriteNotOpened, EndWrite, WriteFailed, Configure, Release, Done
<1>1. CASE NotFound(w) \/ HashError(w) \/ Mismatch(w) \/ Done(w)
  <2>1. UNCHANGED <<machine, manager>> /\ Ends(w) /\ pc[w] # "saving"
    BY <1>1 DEF NotFound, HashError, Mismatch, Done
  <2>2. QED
    BY <2>1 DEF Ends, BootSlot
<1>2. CASE Found(w)
  <2>1. \A v \in Workers \ {w} : pc[v] \in {"idle", "check"}
    BY <1>2 DEF Found, Sound
  <2>2. QED
    BY <1>2, <2>1 DEF Found, BootSlot
<1>3. CASE Verified(w)
  BY <1>0, <1>3 DEF Verified, BootSlot
<1>4. CASE BeginWrite(w)
  <2> DEFINE s == opposite(running)
  <2>1. s \in Slots /\ s # running
    BY OppositeSlot
  <2>2. /\ pc[w] = "write" /\ saver = Nobody
        /\ write_to_standby_slot(w, s)
    BY <1>0, <1>4 DEF BeginWrite
  <2>3. s # BootSlot /\ BootSlot' = BootSlot
    BY <2>2 DEF write_to_standby_slot, Sound, BootSlot
  <2>4. BootSlot \in Slots
    BY BootSlotType
  <2>5. content'[running] = content[running] /\ content'[BootSlot] = content[BootSlot]
    BY <2>1, <2>2, <2>3, <2>4 DEF write_to_standby_slot
  <2>6. ~dirty'[w]
    BY <1>0, <2>2 DEF write_to_standby_slot, Copying
  <2>7. target' = [target EXCEPT ![w] = s] /\ pc' = [pc EXCEPT ![w] = "writing"]
    BY <2>2 DEF write_to_standby_slot
  <2>8. UNCHANGED <<running, rec, disk, saver>>
    BY <2>2 DEF write_to_standby_slot
  <2>9. \A v \in Workers \ {w} : pc'[v] \in {"idle", "check"}
    BY <1>0, <2>2, <2>7
  <2> HIDE DEF s
  <2>10. QED
    BY <2>2, <2>3, <2>5, <2>6, <2>7, <2>8, <2>9
<1>5. CASE WriteNotOpened(w) \/ WriteFailed(w)
  BY <1>5 DEF WriteNotOpened, WriteFailed, Sound
<1>6. CASE EndWrite(w)
  <2>1. content' = [content EXCEPT ![target[w]] = file] /\ file \in Images
    BY <1>6 DEF EndWrite
  <2>2. target[w] # running /\ target[w] # BootSlot /\ BootSlot' = BootSlot
    BY <1>6, OppositeSlot DEF EndWrite, BootSlot
  <2>3. BootSlot \in Slots
    BY BootSlotType
  <2>4. /\ content'[running] = content[running] /\ content'[BootSlot] = content[BootSlot]
        /\ content'[target[w]] \in Images
    BY <2>1, <2>2, <2>3
  <2>5. QED
    BY <1>0, <1>6, <2>2, <2>4 DEF EndWrite
<1>7. CASE Configure(w)
  <2>1. rec'.next = target[w] /\ saver = Nobody /\ saver' \in {w, Nobody}
    BY <1>7 DEF Configure, Update
  <2>2. BootSlot' = BootSlot \/ BootSlot' = running
    BY <1>7 DEF Configure, Update, BootSlot
  <2>3. UNCHANGED <<machine, target, dirty>> /\ pc' = [pc EXCEPT ![w] = "saving"]
    BY <1>7 DEF Configure
  <2>4. pc[w] = "configure"
    BY <1>7 DEF Configure
  <2>5. QED
    BY <1>0, <2>1, <2>2, <2>3, <2>4
<1>8. CASE Release(w)
  <2>1. pc[w] = "saving" /\ rec' = rec /\ pc' = [pc EXCEPT ![w] = "staged"]
    BY <1>8 DEF Release, EndSave
  <2>2. BootSlot' = BootSlot \/ (saver = w /\ BootSlot' = rec.next)
    BY <1>8 DEF Release, EndSave, BootSlot
  <2>3. saver' # w /\ (saver' = saver \/ saver' = Nobody)
    BY <1>8 DEF Release, EndSave
  <2>4. UNCHANGED <<machine, target, dirty>>
    BY <1>8 DEF Release
  <2>5. QED
    BY <1>0, <2>1, <2>2, <2>3, <2>4
<1>9. QED
  BY <1>1, <1>2, <1>3, <1>4, <1>5, <1>6, <1>7, <1>8 DEF stage_update

(* So do the steps of the machine.                                         *)
LEMMA MachineKeepsAtomInv ==
  ASSUME TypeOK, SlotInv, AtomInv, Sound',
         (\E f \in Images \cup {Missing} : ReplaceFile(f)) \/ Die \/ PowerOff \/ PowerOn
  PROVE  AtomInv'
<1> USE ThreadAssumption DEF AtomInv, SlotInv, Updating
<1>1. ASSUME NEW f \in Images \cup {Missing}, ReplaceFile(f)
      PROVE  AtomInv'
  <2>1. \A w \in Workers : ~Copying(w)
    BY <1>1 DEF ReplaceFile, Sound, Copying
  <2>2. QED
    BY <1>1, <2>1 DEF ReplaceFile, BootSlot, Copying
<1>2. CASE Die \/ PowerOff
  <2>1. UNCHANGED <<machine, disk>> /\ ProcessLost
    BY <1>2 DEF Die, PowerOff
  <2>2. QED
    BY <2>1 DEF ProcessLost, BootSlot
<1>3. CASE PowerOn
  <2>1. running' = BootSlot /\ BootSlot' = BootSlot
    BY <1>3 DEF PowerOn, BootSlot
  <2>2. p1 = "off" /\ UNCHANGED <<content, manager, threads>>
    BY <1>3 DEF PowerOn
  <2>3. QED
    BY <2>1, <2>2
<1>4. QED
  BY <1>1, <1>2, <1>3

(* SoundInv is inductive on top of SlotInv.                                *)
LEMMA SoundInvariant == Spec => []SoundInv
<1>1. Init => SoundInv
  BY ThreadAssumption DEF Init, SoundInv, AtomInv, BootSlot, Updating
<1>2. TypeOK /\ SlotWhileRebooted /\ SoundInv /\ [Next]_vars => SoundInv'
  <2> SUFFICES ASSUME TypeOK, SlotInv, AtomInv, [Next]_vars, Sound' PROVE AtomInv'
    BY HazardsStay DEF SoundInv, SlotWhileRebooted, Sound, Rebooted
  <2>1. ASSUME NEW w \in Workers, NEW d \in Images \cup {Unchecked}, Request(w, d)
        PROVE  AtomInv'
    BY <2>1 DEF Request, AtomInv, Updating, BootSlot, TypeOK
  <2>2. CASE UNCHANGED vars
    BY <2>2 DEF vars, AtomInv, Updating, BootSlot
  <2>3. QED
    BY <2>1, <2>2, MainKeepsAtomInv, ThreadKeepsAtomInv, MachineKeepsAtomInv DEF Next
<1>3. QED
  BY <1>1, <1>2, TypeCorrect, SlotInvariant, PTL DEF Spec

(* AtomicUntilHazard: the subsystem implements AtomicUpdate, for any       *)
(* number of OTA threads and images.                                       *)
THEOREM UpdatesAreAtomic == Spec => AtomicUntilHazard
<1>1. Init => Atomic!Init
  BY DEF Init, Atomic!Init, BootSlot, Sound
<1>2. /\ TypeOK /\ TypeOK' /\ SoundInv /\ SoundInv'
      /\ [Rebooted => content'[running] = content[running]]_vars /\ [Next]_vars
      => [Atomic!Next]_(Atomic!vars)
  <2> SUFFICES ASSUME TypeOK, TypeOK', SoundInv, SoundInv', Next,
                      [Rebooted => content'[running] = content[running]]_vars
               PROVE  Atomic!Next \/ UNCHANGED Atomic!vars
    BY DEF vars, Atomic!vars, BootSlot, Sound
  <2>0. Sound' => content'[running] = content[running]
    BY HazardsStay DEF vars, Sound, Rebooted
  <2>1. CASE ~Sound'
    <3>1. content'[running'] \in Images \cup {Torn}
      BY DEF TypeOK
    <3>2. (content[BootSlot])' \in Images \cup {Torn}
      BY BootSlotType DEF TypeOK, BootSlot
    <3>3. QED
      BY <2>1, <3>1, <3>2 DEF Atomic!Next, Atomic!Void
  <2>2. CASE Sound'
    <3>1. Sound /\ AtomInv'
      BY <2>2, HazardsStay DEF SoundInv
    <3>2. CASE PowerOn
      <4>1. running' = BootSlot /\ UNCHANGED <<content, disk>>
        BY <3>2 DEF PowerOn
      <4>2. BootSlot' = BootSlot
        BY <4>1 DEF BootSlot
      <4>3. QED
        BY <2>2, <3>1, <4>1, <4>2 DEF Atomic!Next, Atomic!Boot
    <3>3. CASE ~PowerOn
      <4>1. running' = running
        BY <3>3 DEF Next, stage_update, Load, mark_boot_successful, trigger_rollback,
           MainSaved, Request, NotFound, Found, HashError, Mismatch, Verified, BeginWrite,
           write_to_standby_slot, WriteNotOpened, EndWrite, WriteFailed, Configure, Release,
           Done, ReplaceFile, Die, PowerOff
      <4>2. (content[BootSlot])' \in Images
        BY <3>1 DEF AtomInv
      <4>3. QED
        BY <2>0, <2>2, <3>1, <4>1, <4>2 DEF Atomic!Next, Atomic!Offer
    <3>4. QED
      BY <3>2, <3>3
  <2>3. QED
    BY <2>1, <2>2
<1>3. QED
  BY <1>1, <1>2, TypeCorrect, SoundInvariant, RunningSlotNeverWritten, PTL
  DEF Spec, AtomicUntilHazard, Atomic!Spec, RunningSlotUntouched
-----------------------------------------------------------------------------
(* What is activated was verified.                                         *)

(***************************************************************************)
(* While the subsystem is sound: the running and the offered slot hold     *)
(* what was demanded of them; the image file is the one that was verified  *)
(* until its copy is finished, and the copy is what was demanded until it  *)
(* is activated and saved.                                                 *)
(***************************************************************************)
VerInv ==
  /\ claimed[running] \in {Unchecked, content[running]}
  /\ claimed[BootSlot] \in {Unchecked, content[BootSlot]}
  /\ \A w \in Workers :
       /\ pc[w] \in {"write", "writing"} => want[w] \in {Unchecked, file}
       /\ pc[w] \in {"configure", "saving"} => want[w] \in {Unchecked, content[target[w]]}
       /\ pc[w] = "saving" => claimed[target[w]] = want[w]

SoundVer == Sound => VerInv

(* The steps of start-up and of the main thread keep VerInv.               *)
LEMMA MainKeepsVerInv ==
  ASSUME TypeOK, SlotInv, AtomInv, VerInv,
         Load \/ mark_boot_successful \/ trigger_rollback \/ MainSaved
  PROVE  VerInv'
<1>1. BootSlot' = BootSlot \/ BootSlot' = running
  BY DEF SlotInv, AtomInv, Load, Detected, mark_boot_successful, trigger_rollback, MainSaved,
     Update, EndSave, BootSlot
<1>2. UNCHANGED <<machine, threads, claimed>>
  BY DEF Load, mark_boot_successful, trigger_rollback, MainSaved
<1>3. QED
  BY <1>1, <1>2 DEF VerInv

(* So do the steps of an OTA thread that raise no hazard.                  *)
LEMMA ThreadKeepsVerInv ==
  ASSUME TypeOK, SlotInv, AtomInv, VerInv, Sound', NEW w \in Workers, stage_update(w)
  PROVE  VerInv'
<1> USE DEF VerInv, TypeOK
<1>0. /\ p1 = "up" /\ rec.active = running
      /\ pc[w] # "check" => \A v \in Workers \ {w} : pc[v] \in {"idle", "check"}
  BY DEF SlotInv, AtomInv, Updating, stage_update, NotFound, Found, HashError, Mismatch,
     Verified, BeginWrite, WriteNotOpened, EndWrite, WriteFailed, Configure, Release, Done
<1>1. CASE NotFound(w) \/ HashError(w) \/ Mismatch(w) \/ Done(w)
  <2>1. UNCHANGED <<machine, manager, claimed>> /\ Ends(w)
    BY <1>1 DEF NotFound, HashError, Mismatch, Done
  <2>2. QED
    BY <2>1 DEF Ends, BootSlot
<1>2. CASE Found(w) \/ Verified(w)
  BY <1>2 DEF Found, Verified, BootSlot
<1>3. CASE BeginWrite(w)
  <2> DEFINE s == opposite(running)
  <2>1. s \in Slots /\ s # running /\ BootSlot \in Slots
    BY OppositeSlot, BootSlotType
  <2>2. pc[w] = "write" /\ write_to_standby_slot(w, s)
    BY <1>0, <1>3 DEF BeginWrite
  <2>3. s # BootSlot /\ BootSlot' = BootSlot
    BY <2>2 DEF write_to_standby_slot, Sound, BootSlot
  <2>4. content'[running] = content[running] /\ content'[BootSlot] = content[BootSlot]
    BY <2>1, <2>2, <2>3 DEF write_to_standby_slot
  <2>5. /\ pc' = [pc EXCEPT ![w] = "writing"]
        /\ UNCHANGED <<running, file, want, claimed>>
    BY <2>2 DEF write_to_standby_slot
  <2> HIDE DEF s
  <2>6. QED
    BY <1>0, <2>2, <2>3, <2>4, <2>5
<1>4. CASE WriteNotOpened(w) \/ WriteFailed(w)
  BY <1>4 DEF WriteNotOpened, WriteFailed, Sound
<1>5. CASE EndWrite(w)
  <2>1. content' = [content EXCEPT ![target[w]] = file] /\ pc[w] = "writing"
    BY <1>5 DEF EndWrite, AtomInv
  <2>2. target[w] # running /\ target[w] # BootSlot /\ BootSlot' = BootSlot
    BY <2>1, <1>5, OppositeSlot DEF EndWrite, BootSlot, SlotInv, AtomInv
  <2>3. BootSlot \in Slots
    BY BootSlotType
  <2>4. /\ content'[running] = content[running] /\ content'[BootSlot] = content[BootSlot]
        /\ content'[target[w]] = file
    BY <2>1, <2>2, <2>3
  <2>5. /\ pc' = [pc EXCEPT ![w] = "configure"]
        /\ UNCHANGED <<running, file, want, target, claimed>>
    BY <1>5 DEF EndWrite
  <2>6. QED
    BY <1>0, <2>1, <2>2, <2>4, <2>5
<1>6. CASE Configure(w)
  <2>1. BootSlot' = BootSlot \/ BootSlot' = running
    BY <1>6 DEF Configure, Update, BootSlot, SlotInv
  <2>2. /\ pc[w] = "configure" /\ pc' = [pc EXCEPT ![w] = "saving"]
        /\ claimed' = [claimed EXCEPT ![target[w]] = want[w]]
        /\ UNCHANGED <<machine, target, want>>
    BY <1>6 DEF Configure
  <2>3. \A s \in Slots : claimed[s] \in {Unchecked, content[s]}
                         => claimed'[s] \in {Unchecked, content'[s]}
    BY <2>2
  <2>4. BootSlot \in Slots
    BY BootSlotType
  <2>5. QED
    BY <1>0, <2>1, <2>2, <2>3, <2>4
<1>7. CASE Release(w)
  <2>1. pc[w] = "saving" /\ pc' = [pc EXCEPT ![w] = "staged"]
    BY <1>7 DEF Release
  <2>2. BootSlot' = BootSlot \/ BootSlot' = target[w]
    BY <1>7, UnreadableAssumption DEF Release, EndSave, BootSlot, AtomInv
  <2>3. UNCHANGED <<machine, target, want, claimed>>
    BY <1>7 DEF Release
  <2>4. QED
    BY <1>0, <2>1, <2>2, <2>3
<1>8. QED
  BY <1>1, <1>2, <1>3, <1>4, <1>5, <1>6, <1>7 DEF stage_update

(* So do the steps of the machine.                                         *)
LEMMA MachineKeepsVerInv ==
  ASSUME TypeOK, VerInv, Sound',
         (\E f \in Images \cup {Missing} : ReplaceFile(f)) \/ Die \/ PowerOff \/ PowerOn
  PROVE  VerInv'
<1> USE DEF VerInv
<1>1. ASSUME NEW f \in Images \cup {Missing}, ReplaceFile(f)
      PROVE  VerInv'
  <2>1. \A w \in Workers : pc[w] \notin {"write", "writing"}
    BY <1>1 DEF ReplaceFile, Sound
  <2>2. QED
    BY <1>1, <2>1 DEF ReplaceFile, BootSlot
<1>2. CASE Die \/ PowerOff
  <2>1. UNCHANGED <<machine, disk, claimed>> /\ ProcessLost
    BY <1>2 DEF Die, PowerOff
  <2>2. QED
    BY <2>1 DEF ProcessLost, BootSlot
<1>3. CASE PowerOn
  <2>1. running' = BootSlot /\ BootSlot' = BootSlot
    BY <1>3 DEF PowerOn, BootSlot
  <2>2. UNCHANGED <<content, file, threads, claimed>>
    BY <1>3 DEF PowerOn
  <2>3. QED
    BY <2>1, <2>2
<1>4. QED
  BY <1>1, <1>2, <1>3

(* SoundVer is inductive on top of SlotInv and AtomInv.                    *)
LEMMA VerInvariant == Spec => []SoundVer
<1>1. Init => SoundVer
  BY DEF Init, SoundVer, VerInv, BootSlot
<1>2. TypeOK /\ SlotWhileRebooted /\ SoundInv /\ SoundVer /\ [Next]_vars => SoundVer'
  <2> SUFFICES ASSUME TypeOK, SlotInv, AtomInv, VerInv, [Next]_vars, Sound' PROVE VerInv'
    BY HazardsStay DEF SoundVer, SoundInv, SlotWhileRebooted, Sound, Rebooted
  <2>1. ASSUME NEW w \in Workers, NEW d \in Images \cup {Unchecked}, Request(w, d)
        PROVE  VerInv'
    BY <2>1 DEF Request, VerInv, BootSlot, TypeOK
  <2>2. CASE UNCHANGED vars
    BY <2>2 DEF vars, VerInv, BootSlot
  <2>3. QED
    BY <2>1, <2>2, MainKeepsVerInv, ThreadKeepsVerInv, MachineKeepsVerInv DEF Next
<1>3. QED
  BY <1>1, <1>2, TypeCorrect, SlotInvariant, SoundInvariant, PTL DEF Spec

(* VerifiedBeforeActivation: until a hazard has happened, the slot the     *)
(* boot loader will start holds the image whose digest was demanded.       *)
THEOREM ActivatedIsVerified == Spec => []VerifiedBeforeActivation
<1>1. SoundVer => VerifiedBeforeActivation
  BY DEF SoundVer, VerInv, VerifiedBeforeActivation
<1>2. QED
  BY <1>1, VerInvariant, PTL

-----------------------------------------------------------------------------
(* What get_status reports.                                                *)

NoOverlap == hazards \cap {"overlap", "readError"} = {}

(***************************************************************************)
(* Threads live in a started Process 1 only; without overlap and unread    *)
(* images one updates at a time, and the flag says whether one does.       *)
(***************************************************************************)
FlagInv ==
  /\ p1 # "up" => \A w \in Workers : pc[w] = "idle"
  /\ NoOverlap => /\ \A v, w \in Workers : Updating(v) /\ Updating(w) => v = w
                  /\ inProgress <=> \E w \in Workers : Updating(w)

(* StatusHonest: the flag is set exactly while an update is under way,     *)
(* across any crashes and restarts, until two overlap or an image cannot   *)
(* be read.                                                                *)
THEOREM StatusIsHonest == Spec => []StatusHonest
<1>1. Init => FlagInv
  BY DEF Init, FlagInv, Updating
<1>2. TypeOK /\ FlagInv /\ [Next]_vars => FlagInv'
  <2> SUFFICES ASSUME TypeOK, FlagInv, [Next]_vars PROVE FlagInv'
    OBVIOUS
  <2> USE DEF FlagInv, Updating, NoOverlap, TypeOK
  <2>1. CASE Load
    <3>1. ~inProgress' /\ \A w \in Workers : pc'[w] = "idle"
      BY <2>1 DEF Load
    <3>2. QED
      BY <3>1
  <2>2. CASE mark_boot_successful \/ trigger_rollback \/ MainSaved
    BY <2>2 DEF mark_boot_successful, trigger_rollback, MainSaved
  <2>3. ASSUME NEW w \in Workers, NEW d \in Images \cup {Unchecked}, Request(w, d)
        PROVE  FlagInv'
    BY <2>3 DEF Request
  <2>4. ASSUME NEW w \in Workers, stage_update(w)
        PROVE  FlagInv'
    <3>1. p1 = "up" /\ p1' = "up" /\ pc[w] # "idle"
      BY <2>4 DEF stage_update, NotFound, Found, HashError, Mismatch, Verified, BeginWrite,
         write_to_standby_slot, WriteNotOpened, EndWrite, WriteFailed, Configure, Release, Done
    <3>2. CASE NotFound(w)
      BY <3>1, <3>2 DEF NotFound, Ends
    <3>3. CASE Found(w)
      BY <3>1, <3>3 DEF Found
    <3>4. CASE HashError(w)
      BY <3>1, <3>4 DEF HashError
    <3>5. CASE Mismatch(w) \/ Done(w)
      BY <3>1, <3>5 DEF Mismatch, Done, Ends
    <3>6. CASE Verified(w) \/ EndWrite(w)
      BY <3>1, <3>6 DEF Verified, EndWrite
    <3>7. CASE WriteNotOpened(w) \/ WriteFailed(w)
      BY <3>1, <3>7 DEF WriteNotOpened, WriteFailed
    <3>8. CASE BeginWrite(w)
      BY <3>1, <3>8 DEF BeginWrite, write_to_standby_slot
    <3>9. CASE Configure(w) \/ Release(w)
      BY <3>1, <3>9 DEF Configure, Release
    <3>10. QED
      BY <2>4, <3>2, <3>3, <3>4, <3>5, <3>6, <3>7, <3>8, <3>9 DEF stage_update
  <2>5. ASSUME NEW f \in Images \cup {Missing}, ReplaceFile(f)
        PROVE  FlagInv'
    BY <2>5 DEF ReplaceFile
  <2>6. CASE Die \/ PowerOff
    BY <2>6 DEF Die, PowerOff, ProcessLost
  <2>7. CASE PowerOn
    BY <2>7 DEF PowerOn
  <2>8. CASE UNCHANGED vars
    BY <2>8 DEF vars
  <2>9. QED
    BY <2>1, <2>2, <2>3, <2>4, <2>5, <2>6, <2>7, <2>8 DEF Next
<1>3. FlagInv => StatusHonest
  BY DEF FlagInv, NoOverlap, StatusHonest, Updating
<1>4. QED
  BY <1>1, <1>2, <1>3, TypeCorrect, PTL DEF Spec
=============================================================================
