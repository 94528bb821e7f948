--------------------------- MODULE AppLayerProofs ---------------------------
(***************************************************************************)
(* Proofs about AppLayer for any sets of apps and any number of failing    *)
(* file operations and crashes.  The inductive invariant has three parts:  *)
(* what an operation has read of the manifest and what a manifest.tmp that *)
(* is about to be renamed holds (Written), what each operation has made of *)
(* its app's directory and desktop file when it is at a given step         *)
(* (InStep), and what zero and one mishap can have left behind             *)
(* (AfterMishaps).                                                         *)
(***************************************************************************)
EXTENDS AppLayer, TLAPS

USE AppLayerAssumption

-----------------------------------------------------------------------------
(* Types.                                                                  *)

(* What an operation under way looks like.                                 *)
LEMMA OperationFields ==
  ASSUME op \in Operation
  PROVE  /\ op.kind \in {"none", "install", "uninstall"}
         /\ op.kind = "none" <=> op = Idle
         /\ op.kind # "none" => op.app \in Apps /\ op.clean \in BOOLEAN
         /\ op.seen \in SUBSET Apps
         /\ op.kind = "install" => op.at \in InstallSteps
         /\ op.kind = "uninstall" => op.at \in UninstallSteps
BY DEF Operation, Idle

(* The next step of an operation keeps the operation.                      *)
LEMMA GotoKeeps ==
  ASSUME op \in Operation, NEW step, Goto(step),
         \/ op.kind = "install" /\ step \in InstallSteps
         \/ op.kind = "uninstall" /\ step \in UninstallSteps
  PROVE  /\ op' \in Operation /\ last' = last
         /\ op'.kind = op.kind /\ op'.app = op.app /\ op'.at = step
         /\ op'.clean = op.clean /\ op'.seen = op.seen
BY DEF Goto, Operation, Idle

(* An operation that returns leaves an outcome.                            *)
LEMMA FinishKeeps ==
  ASSUME op \in Operation, op.kind # "none", NEW result \in {"ok", "error"}, Finish(result)
  PROVE  /\ op' \in Operation /\ last' \in Outcome
         /\ op' = Idle /\ last'.kind = op.kind /\ last'.app = op.app
         /\ last'.result = result /\ last'.clean = op.clean /\ last'.exact
BY OperationFields DEF Finish, Operation, Outcome

(* So does removing the desktop file, which the operation may only fail    *)
(* to do silently: then it is not clean.                                   *)
LEMMA RemoveKeeps ==
  ASSUME op \in Operation, op.kind = "uninstall",
         NEW step \in UninstallSteps, RemoveDesktopFile(step)
  PROVE  /\ op' \in Operation
         /\ op'.kind = op.kind /\ op'.app = op.app /\ op'.at = step /\ op'.seen = op.seen
<1> DEFINE Uninstalling == [kind : {"uninstall"}, app : Apps, at : UninstallSteps,
                            seen : SUBSET Apps, clean : BOOLEAN]
<1>1. op \in Uninstalling
  BY DEF Operation, Idle
<1>2. \/ op' = [op EXCEPT !.at = step]
      \/ op' = [op EXCEPT !.at = step, !.clean = FALSE]
  BY DEF RemoveDesktopFile
<1>3. op' \in Uninstalling
  BY <1>1, <1>2
<1>4. QED
  BY <1>1, <1>2, <1>3 DEF Operation

(* An installation reads the manifest when its desktop file is written, an *)
(* uninstallation when it begins.                                          *)
LEMMA ReadKeeps ==
  ASSUME op \in Operation, op.kind = "install", NEW seen \in SUBSET Apps, NEW c \in BOOLEAN,
         op' = [op EXCEPT !.at = "save", !.seen = seen, !.clean = c]
  PROVE  /\ op' \in Operation /\ op'.clean = c
         /\ op'.kind = op.kind /\ op'.app = op.app /\ op'.at = "save" /\ op'.seen = seen
<1> DEFINE Installing == [kind : {"install"}, app : Apps, at : InstallSteps,
                          seen : SUBSET Apps, clean : BOOLEAN]
<1>1. op \in Installing
  BY DEF Operation, Idle
<1>2. op' \in Installing
  BY <1>1 DEF InstallSteps
<1>3. QED
  BY <1>1, <1>2 DEF Operation

(* What a manifest holds, and what an operation makes of it.               *)
LEMMA ManifestType ==
  ASSUME TypeOK
  PROVE  /\ load_manifest \in SUBSET Apps /\ Readings \subseteq SUBSET Apps
         /\ op.kind # "none" => Updated \in SUBSET Apps
BY OperationFields DEF TypeOK, load_manifest, Readings, Updated

(* What comes of writing the desktop file.                                 *)
LEMMA DesktopStep ==
  ASSUME TypeOK, write_desktop
  PROVE  /\ op.kind = "install" /\ op.at = "desktop"
         /\ UNCHANGED <<files, desktop_dir, manifest, tmp, index, overlooked>>
         /\ \/ /\ op' \in Operation /\ op'.kind = "install" /\ op'.app = op.app /\ op'.at = "save"
               /\ op'.seen \in Readings /\ Reading(op'.seen) /\ last' = last
               /\ desktop_file' = [desktop_file EXCEPT ![op.app] = TRUE]
            \/ /\ op' = Idle /\ last' \in Outcome /\ last'.result = "error"
               /\ Fault \/ (Calm /\ desktop_file' = desktop_file)
               /\ desktop_file' \in {desktop_file, [desktop_file EXCEPT ![op.app] = TRUE]}
<1> USE DEF At
<1>1. /\ op \in Operation /\ op.kind = "install" /\ op.at = "desktop"
      /\ UNCHANGED <<files, desktop_dir, manifest, tmp, index, overlooked>>
  BY Zenon DEF write_desktop, TypeOK, Abort
<1>2. ASSUME NEW seen \in Readings, DesktopFilePut, Reading(seen), UNCHANGED last,
             op' = [op EXCEPT !.at = "save", !.seen = seen, !.clean = Whole(seen)]
      PROVE  /\ op' \in Operation /\ op'.kind = "install" /\ op'.app = op.app /\ op'.at = "save"
             /\ op'.seen \in Readings /\ Reading(op'.seen) /\ last' = last
             /\ desktop_file' = [desktop_file EXCEPT ![op.app] = TRUE]
  <2>1. seen \in SUBSET Apps
    BY ManifestType
  <2>2. PICK c \in BOOLEAN : c = Whole(seen)
    BY Zenon DEF Whole
  <2>3. op' = [op EXCEPT !.at = "save", !.seen = seen, !.clean = c]
    BY <1>2, <2>2, Zenon
  <2>4. /\ op' \in Operation /\ op'.kind = op.kind /\ op'.app = op.app
        /\ op'.at = "save" /\ op'.seen = seen
    BY <1>1, <2>1, <2>2, <2>3, ReadKeeps
  <2>5. QED
    BY <1>1, <1>2, <2>4 DEF DesktopFilePut
<1>3. ASSUME Finish("error"), Fault \/ (Calm /\ desktop_file' = desktop_file),
             DesktopFilePut \/ UNCHANGED desktop_file
      PROVE  /\ op' = Idle /\ last' \in Outcome /\ last'.result = "error"
             /\ Fault \/ (Calm /\ desktop_file' = desktop_file)
             /\ desktop_file' \in {desktop_file, [desktop_file EXCEPT ![op.app] = TRUE]}
  BY <1>1, <1>3, FinishKeeps DEF DesktopFilePut
<1>4. QED
  <2>1. ASSUME DesktopFilePut, Abort PROVE Finish("error") /\ Fault
    BY <2>1 DEF Abort
  <2>2. QED
    BY <1>1, <1>2, <1>3, <2>1, Zenon DEF write_desktop, Abort

(* Every reachable value of every variable is one the code can hold.       *)
THEOREM AppLayerTypeCorrect == Spec => []TypeOK
<1> USE DEF TypeOK, disk, Calm, At
<1>1. Init => TypeOK
  BY DEF Init, Scanned, Outcome, Operation, Contents
<1>2. TypeOK /\ [Next]_vars => TypeOK'
  <2> SUFFICES ASSUME TypeOK, [Next]_vars PROVE TypeOK'
    OBVIOUS
  <2> USE OperationFields DEF Contents, InstallSteps, UninstallSteps
  <2>1. ASSUME NEW a \in Apps, install_begin(a) PROVE TypeOK'
    <3>1. op' \in Operation
      BY <2>1 DEF install_begin, Operation
    <3>2. QED
      BY <2>1, <3>1 DEF install_begin
  <2>2. CASE create_dir
    <3>1. op' \in Operation /\ last' \in Outcome
      BY <2>2, GotoKeeps, FinishKeeps DEF create_dir, Abort
    <3>2. QED
      BY <2>2, <3>1 DEF create_dir, MakeDirs, Abort, Fault
  <2>3. CASE unpack
    <3>1. op' \in Operation /\ last' \in Outcome
      BY <2>3, GotoKeeps DEF unpack
    <3>2. QED
      BY <2>3, <3>1 DEF unpack
  <2>4. CASE unpacking
    <3>1. op' \in Operation /\ last' \in Outcome
      BY <2>4, GotoKeeps DEF unpacking
    <3>2. QED
      BY <2>4, <3>1 DEF unpacking, Put, Fault
  <2>5. CASE copy
    <3>1. op' \in Operation /\ last' \in Outcome
      BY <2>5, GotoKeeps, FinishKeeps DEF copy, Abort
    <3>2. QED
      BY <2>5, <3>1 DEF copy, Put, Abort, Fault
  <2>6. CASE write_desktop
    <3>1. op' \in Operation /\ last' \in Outcome
      BY <2>6, DesktopStep DEF Operation
    <3>2. desktop_file' \in [Apps -> BOOLEAN]
      BY <2>6, DesktopStep
    <3>3. faults' \in 0 .. MaxFaults /\ crashes' = crashes
      BY <2>6, DesktopStep DEF Reading, Fault
    <3>4. QED
      BY <2>6, <3>1, <3>2, <3>3, DesktopStep
  <2>7. CASE install_rename \/ uninstall_rename
    <3>1. op' \in Operation /\ last' \in Outcome
      BY <2>7, GotoKeeps, FinishKeeps DEF install_rename, uninstall_rename, Abort
    <3>2. QED
      BY <2>7, <3>1 DEF install_rename, uninstall_rename, Renamed, Abort, Fault
  <2>8. ASSUME NEW a \in Apps, uninstall_begin(a) PROVE TypeOK'
    <3>1. PICK seen \in Readings :
            /\ op' = [kind |-> "uninstall", app |-> a, seen |-> seen,
                      clean |-> Whole(seen),
                      at |-> IF a \in seen THEN "record" ELSE "remove_dir"]
            /\ Reading(seen)
      BY <2>8 DEF uninstall_begin
    <3>2. seen \in SUBSET Apps
      BY ManifestType
    <3>3. op' \in Operation
      <4>1. PICK step \in UninstallSteps, c \in BOOLEAN :
              step = (IF a \in seen THEN "record" ELSE "remove_dir") /\ c = Whole(seen)
        BY Zenon DEF Whole
      <4>2. op' = [kind |-> "uninstall", app |-> a, seen |-> seen, clean |-> c, at |-> step]
        BY <3>1, <4>1, Zenon
      <4>3. QED
        BY <3>2, <4>1, <4>2 DEF Operation
    <3>4. overlooked' \subseteq Apps
      BY <2>8 DEF uninstall_begin, Within
    <3>5. faults' \in 0 .. MaxFaults /\ crashes' = crashes
      BY <3>1 DEF Reading, Fault
    <3>6. QED
      BY <2>8, <3>3, <3>4, <3>5 DEF uninstall_begin
  <2>9. CASE remove_record
    <3>1. op' \in Operation
      BY <2>9, RemoveKeeps DEF remove_record
    <3>2. desktop_file' \in [Apps -> BOOLEAN]
      BY <2>9 DEF remove_record, RemoveDesktopFile
    <3>3. QED
      BY <2>9, <3>1, <3>2 DEF remove_record, RemoveDesktopFile, Fault
  <2>10. CASE remove_dir
    <3>1. op' \in Operation /\ last' \in Outcome
      BY <2>10, GotoKeeps, FinishKeeps DEF remove_dir, Abort
    <3>2. files' \in [Apps -> SUBSET Contents]
      BY <2>10 DEF remove_dir, Emptied
    <3>3. desktop_dir' \in BOOLEAN /\ desktop_file' \in [Apps -> BOOLEAN]
      BY <2>10 DEF remove_dir, RootRemoved, RootEmptied
    <3>4. manifest' \in (SUBSET Apps) \cup {Torn} /\ tmp' \in (SUBSET Apps) \cup {Torn}
      BY <2>10 DEF remove_dir, RootRemoved, RootEmptied
    <3>5. index' = index /\ overlooked' = overlooked
      BY <2>10 DEF remove_dir, Abort
    <3>6. faults' \in 0 .. MaxFaults /\ crashes' = crashes
      BY <2>10 DEF remove_dir, Abort, Fault
    <3>7. QED
      BY <3>1, <3>2, <3>3, <3>4, <3>5, <3>6
  <2>11. CASE uninstall_end
    <3>1. PICK exact \in BOOLEAN, removed \in BOOLEAN :
            /\ IF removed THEN desktop_file' = [desktop_file EXCEPT ![op.app] = FALSE] /\ Calm
                          ELSE desktop_file[op.app] /\ UNCHANGED desktop_file /\ Fault
            /\ last' = [kind |-> "uninstall", app |-> op.app, result |-> "ok",
                        clean |-> op.clean /\ removed, exact |-> exact]
            /\ index' = IF exact THEN index \ {op.app} ELSE index
      BY <2>11 DEF uninstall_end
    <3>2. op' = Idle /\ op.app \in Apps /\ op.clean \in BOOLEAN
      BY <2>11 DEF uninstall_end
    <3>3. (op.clean /\ removed) \in BOOLEAN
      OBVIOUS
    <3>4. PICK c \in BOOLEAN : c = (op.clean /\ removed)
      BY <3>3
    <3>5. last' = [kind |-> "uninstall", app |-> op.app, result |-> "ok",
                   clean |-> c, exact |-> exact]
      BY <3>1, <3>4, Zenon
    <3>6. op' \in Operation /\ last' \in Outcome
      BY <3>2, <3>5 DEF Operation, Outcome
    <3>7. desktop_file' \in [Apps -> BOOLEAN]
      BY <3>1
    <3>8. faults' \in 0 .. MaxFaults /\ crashes' = crashes
      BY <3>1 DEF Fault
    <3>9. QED
      BY <2>11, <3>1, <3>6, <3>7, <3>8 DEF uninstall_end
  <2>12. CASE save_tmp
    <3>1. op.kind # "none"
      BY <2>12 DEF save_tmp, Idle
    <3>2. op' \in Operation /\ last' \in Outcome
      BY <2>12, <3>1, GotoKeeps, FinishKeeps DEF save_tmp, Abort
    <3>3. QED
      BY <2>12, <3>1, <3>2, ManifestType DEF save_tmp, Abort, Fault
  <2>13. CASE Crash
    BY <2>13 DEF Crash, MakeDirs, Scanned, Operation, Outcome
  <2>14. CASE UNCHANGED vars
    BY <2>14 DEF vars
  <2>15. QED
    BY <2>1, <2>2, <2>3, <2>4, <2>5, <2>6, <2>7, <2>8, <2>9, <2>10, <2>11, <2>12, <2>13,
       <2>14 DEF Next, Install, Uninstall
<1>3. QED
  BY <1>1, <1>2, PTL DEF Spec
-----------------------------------------------------------------------------
(* The steps of an uninstallation that do several things at once.          *)

(* How it begins.                                                          *)
LEMMA BeginStep ==
  ASSUME TypeOK, NEW a \in Apps, uninstall_begin(a)
  PROVE  /\ op = Idle /\ UNCHANGED <<disk, index, last>>
         /\ op'.kind = "uninstall" /\ op'.app = a
         /\ op'.seen \in Readings /\ Reading(op'.seen)
         /\ op'.clean <=> op'.seen = load_manifest
         /\ op'.at = IF a \in op'.seen THEN "record" ELSE "remove_dir"
         /\ overlooked' = overlooked \cup (Within(a) \ {a})
              \cup (IF a \in Wide \/ op'.seen # load_manifest THEN {a} ELSE {})
<1>1. PICK seen \in Readings :
        /\ op' = [kind |-> "uninstall", app |-> a, seen |-> seen, clean |-> Whole(seen),
                  at |-> IF a \in seen THEN "record" ELSE "remove_dir"]
        /\ overlooked' = overlooked \cup (Within(a) \ {a})
             \cup (IF a \in Wide \/ seen # load_manifest THEN {a} ELSE {})
        /\ Reading(seen)
  BY Zenon DEF uninstall_begin
<1>2. op'.seen = seen /\ op'.clean = Whole(seen) /\ op'.kind = "uninstall" /\ op'.app = a
  BY <1>1
<1>3. op'.at = IF a \in seen THEN "record" ELSE "remove_dir"
  BY <1>1
<1>4. op'.clean <=> seen = load_manifest
  BY <1>2 DEF Whole
<1>5. QED
  BY <1>1, <1>2, <1>3, <1>4, Zenon DEF uninstall_begin

(* How the directories go.                                                 *)
LEMMA RemoveDirStep ==
  ASSUME TypeOK, remove_dir
  PROVE  /\ op.kind = "uninstall" /\ op.at \in {"remove_dir", "removing"} /\ op.app \in Apps
         /\ overlooked' = overlooked
         /\ manifest' = manifest \/ (op.app \in Wide /\ manifest' = {})
         /\ \A a \in Apps : desktop_file'[a] => desktop_file[a]
         /\ op.app \notin Wide => desktop_file' = desktop_file
         /\ \A a \in Apps \ Within(op.app) : files'[a] = files[a]
         /\ \/ /\ op'.kind = "uninstall" /\ op'.app = op.app /\ op'.at = "desktop"
               /\ op'.clean = op.clean /\ Calm
               /\ \A a \in Within(op.app) : files'[a] = {}
               /\ op.app \in Wide => \A a \in Apps : ~desktop_file'[a]
            \/ /\ op'.kind = "uninstall" /\ op'.app = op.app /\ op'.at = "removing"
               /\ op'.clean = op.clean /\ Calm
               /\ \A a \in Apps : files[a] = files'[a] \/ Emptied(a)
            \/ op' = Idle /\ UNCHANGED disk /\ Fault /\ last'.result = "error"
<1> USE OperationFields DEF At, TypeOK
<1>1. /\ op.kind = "uninstall" /\ op.at \in {"remove_dir", "removing"} /\ op.app \in Apps
      /\ overlooked' = overlooked /\ op \in Operation
  BY DEF remove_dir
<1>2. Within(op.app) \subseteq Apps
  BY <1>1 DEF Within
<1>3. CASE /\ files' = [a \in Apps |-> IF a \in Within(op.app) THEN {} ELSE files[a]]
           /\ IF op.app \in Wide THEN RootRemoved
                                 ELSE UNCHANGED <<desktop_dir, desktop_file, manifest, tmp>>
           /\ Goto("desktop") /\ Calm /\ UNCHANGED index
  <2>1. op'.kind = "uninstall" /\ op'.app = op.app /\ op'.at = "desktop" /\ op'.clean = op.clean
    BY <1>1, <1>3, GotoKeeps DEF UninstallSteps
  <2>2. QED
    BY <1>1, <1>2, <1>3, <2>1 DEF RootRemoved
<1>4. CASE /\ \/ /\ \E a \in Within(op.app) : Emptied(a)
                 /\ UNCHANGED <<desktop_dir, desktop_file, manifest, tmp>>
              \/ op.app \in Wide /\ RootEmptied /\ UNCHANGED files
           /\ Goto("removing") /\ Calm /\ UNCHANGED index
  <2>1. op'.kind = "uninstall" /\ op'.app = op.app /\ op'.at = "removing" /\ op'.clean = op.clean
    BY <1>1, <1>4, GotoKeeps DEF UninstallSteps
  <2>2. CASE UNCHANGED files
    BY <1>1, <1>2, <1>4, <2>1, <2>2 DEF RootEmptied
  <2>3. ASSUME NEW a \in Within(op.app), Emptied(a)
        PROVE  \A b \in Apps : files[b] = files'[b] \/ (b = a /\ Emptied(b))
    BY <1>2, <2>3 DEF Emptied
  <2>4. CASE /\ \E a \in Within(op.app) : Emptied(a)
             /\ UNCHANGED <<desktop_dir, desktop_file, manifest, tmp>>
    BY <1>1, <1>2, <1>4, <2>1, <2>3, <2>4
  <2>5. QED
    BY <1>4, <2>2, <2>4
<1>5. CASE files[op.app] # {} /\ Abort /\ UNCHANGED disk
  BY <1>1, <1>5, FinishKeeps DEF Abort, disk
<1>6. QED
  BY <1>3, <1>4, <1>5 DEF remove_dir

-----------------------------------------------------------------------------
(* The manifest.                                                           *)

(***************************************************************************)
(* manifest.json is whole; an operation that is about to save has read it, *)
(* or nothing, an uninstallation only the former; and a manifest.tmp that  *)
(* is about to be renamed is what the operation makes of what it read.     *)
(***************************************************************************)
Written ==
  /\ manifest \subseteq Apps
  /\ op.at \in {"record", "save", "rename"} =>
       op.seen \in Readings /\ (op.kind = "uninstall" => op.seen = load_manifest)
  /\ op.at = "rename" => tmp = Updated

(* A whole manifest is read as it is.                                      *)
LEMMA WholeManifest == manifest \subseteq Apps => load_manifest = manifest
BY DEF load_manifest, Torn

(* Written is inductive.                                                   *)
LEMMA WrittenInvariant == Spec => []Written
<1>1. Init => Written
  BY DEF Init, Written, Idle
<1>2. TypeOK /\ Written /\ [Next]_vars => Written'
  <2> SUFFICES ASSUME TypeOK, Written, [Next]_vars PROVE Written'
    OBVIOUS
  <2> USE OperationFields DEF At, Written, InstallSteps, UninstallSteps
  <2>0. op \in Operation
    BY DEF TypeOK
  <2>1. ASSUME manifest' \subseteq Apps, op'.at \notin {"record", "save", "rename"} PROVE Written'
    BY <2>1
  <2>2. ASSUME NEW a \in Apps, install_begin(a) PROVE Written'
    BY <2>1, <2>2 DEF install_begin, disk
  <2>3. ASSUME NEW a \in Apps, uninstall_begin(a) PROVE Written'
    <3>1. op'.seen \in Readings /\ manifest' = manifest
      BY <2>3, BeginStep DEF disk
    <3>2. op'.at = IF a \in op'.seen THEN "record" ELSE "remove_dir"
      BY <2>3, BeginStep, Zenon
    <3>3. op'.at = "record" => op'.seen = load_manifest
      BY <3>1, <3>2 DEF Readings
    <3>4. Readings' = Readings /\ load_manifest' = load_manifest
      BY <3>1 DEF Readings, load_manifest
    <3>5. op'.at \notin {"save", "rename"}
      BY <3>2
    <3>6. QED
      BY <3>1, <3>3, <3>4, <3>5
  <2>4. CASE create_dir \/ unpack \/ unpacking
    BY <2>0, <2>1, <2>4, GotoKeeps, FinishKeeps
    DEF create_dir, unpack, unpacking, Abort, disk, Idle
  <2>5. CASE copy
    BY <2>0, <2>1, <2>5, GotoKeeps, FinishKeeps DEF copy, Abort, Idle
  <2>6. CASE write_desktop
    BY <2>1, <2>6, DesktopStep DEF Readings, load_manifest, Idle
  <2>7. CASE remove_record
    BY <2>0, <2>7, RemoveKeeps DEF remove_record, Readings, load_manifest
  <2>8. CASE remove_dir
    BY <2>1, <2>8, RemoveDirStep DEF disk, Idle
  <2>9. CASE uninstall_end \/ Crash
    BY <2>1, <2>9 DEF uninstall_end, Crash, Idle
  <2>10. CASE install_rename \/ uninstall_rename
    <3>1. op'.at \notin {"record", "save", "rename"}
      BY <2>0, <2>10, GotoKeeps, FinishKeeps DEF install_rename, uninstall_rename, Abort, Idle
    <3>2. manifest' \in {manifest, Updated}
      BY <2>10 DEF install_rename, uninstall_rename, Renamed
    <3>3. Updated \in SUBSET Apps
      BY <2>10, ManifestType DEF install_rename, uninstall_rename
    <3>4. QED
      BY <2>1, <3>1, <3>2, <3>3
  <2>11. CASE save_tmp
    <3>1. op.kind # "none" /\ manifest' = manifest /\ op.at = "save"
      BY <2>0, <2>11 DEF save_tmp, Idle
    <3>2. CASE op'.at \in {"save", "rename"}
      <4>1. /\ Goto("save") \/ (tmp' = Updated /\ Goto("rename"))
            /\ Goto("save") => op'.at = "save"
        BY <2>0, <2>11, <3>1, <3>2, GotoKeeps, FinishKeeps DEF save_tmp, Abort, Idle
      <4>2. op'.kind = op.kind /\ op'.app = op.app /\ op'.seen = op.seen
        BY <2>0, <3>1, <4>1, GotoKeeps
      <4>3. Updated' = Updated /\ Readings' = Readings /\ load_manifest' = load_manifest
        BY <3>1, <4>2 DEF Updated, Readings, load_manifest
      <4>4. QED
        BY <3>1, <4>1, <4>2, <4>3
    <3>3. op'.at # "record"
      BY <2>0, <2>11, <3>1, GotoKeeps, FinishKeeps DEF save_tmp, Abort, Idle
    <3>4. QED
      BY <2>1, <3>1, <3>2, <3>3
  <2>12. CASE UNCHANGED vars
    BY <2>12 DEF vars, disk, Updated, Readings, load_manifest
  <2>13. QED
    BY <2>2, <2>3, <2>4, <2>5, <2>6, <2>7, <2>8, <2>9, <2>10, <2>11, <2>12
    DEF Next, Install, Uninstall
<1>3. QED
  BY <1>1, <1>2, AppLayerTypeCorrect, PTL DEF Spec

(* The only steps that change the manifest are the renames and the removal *)
(* of the root.                                                            *)
LEMMA ManifestSteps ==
  ASSUME TypeOK, Written, [Next]_vars
  PROVE  \/ UNCHANGED manifest
         \/ op.at = "rename" /\ op.kind # "none" /\ manifest' = Updated
         \/ op.kind = "uninstall" /\ op.app \in Wide
<1> USE DEF disk
<1>1. CASE install_rename \/ uninstall_rename
  BY <1>1 DEF install_rename, uninstall_rename, Renamed, At, Written
<1>2. CASE remove_dir
  BY <1>2, RemoveDirStep
<1>3. QED
  BY <1>1, <1>2 DEF Next, Install, Uninstall, vars, install_begin, uninstall_begin, create_dir,
     unpack, unpacking, copy, write_desktop, remove_record, uninstall_end, save_tmp, Crash

(* ManifestForgetsNothing: no crash, no failing write, no operation on     *)
(* another app and no read that fails for an uninstallation makes the      *)
(* manifest forget an app; an installation that cannot read it does, and   *)
(* the removal of the root.                                                *)
THEOREM OnlyUninstallForgets == Spec => ManifestForgetsNothing
<1>1. TypeOK /\ Written /\ Written' /\ [Next]_vars
      => [\A a \in load_manifest \ load_manifest' :
            \/ op.kind = "uninstall" /\ a \in Within(op.app)
            \/ op.kind = "install" /\ op.seen # load_manifest]_vars
  <2> SUFFICES ASSUME TypeOK, Written, Written', [Next]_vars,
                      NEW a \in load_manifest \ load_manifest'
               PROVE  \/ op.kind = "uninstall" /\ a \in Within(op.app)
                      \/ op.kind = "install" /\ op.seen # load_manifest
    OBVIOUS
  <2>1. load_manifest = manifest /\ load_manifest' = manifest' /\ a \in Apps
    BY WholeManifest DEF Written, load_manifest, Torn
  <2>2. CASE op.at = "rename" /\ op.kind # "none" /\ manifest' = Updated
    <3>1. op.kind \in {"install", "uninstall"}
      BY <2>2, OperationFields DEF TypeOK
    <3>2. op.kind = "uninstall" => op.seen = load_manifest
      BY <2>2 DEF Written
    <3>3. QED
      BY <2>1, <2>2, <3>1, <3>2 DEF Updated, Within
  <2>3. QED
    BY <2>1, <2>2, ManifestSteps DEF Within
<1>2. QED
  BY <1>1, AppLayerTypeCorrect, WrittenInvariant, PTL DEF Spec, ManifestForgetsNothing
-----------------------------------------------------------------------------
(* What is on disk, step by step.                                          *)

(***************************************************************************)
(* The directory is the first thing an installation makes of an app and    *)
(* the last thing an uninstallation takes away; before that the record     *)
(* goes, or there was none, or the app is one of those overlooked.         *)
(***************************************************************************)
InStep ==
  /\ RecordedHasDir
  /\ \A a \in Apps : files[a] # {} => "dir" \in files[a]
  /\ op.kind = "install" /\ op.at # "create_dir" => "dir" \in files[op.app] /\ op.app \notin overlooked
  /\ op.kind = "install" /\ op.at \in {"save", "rename"} => desktop_file[op.app]
  /\ op.kind = "uninstall" /\ op.at \in {"remove_dir", "removing", "desktop"} =>
       op.app \notin load_manifest \/ (~op.clean /\ op.app \in overlooked)
  /\ op.kind = "uninstall" /\ op.app \in Wide => Apps \subseteq overlooked
  /\ At("uninstall", "desktop") =>
       /\ files[op.app] = {}
       /\ op.app \in Wide => \A a \in Apps : ~desktop_file[a]

(* The steps of an installation keep it.                                   *)
LEMMA InstallKeepsInStep ==
  ASSUME TypeOK, Written, InStep, Install
  PROVE  InStep'
<1> USE OperationFields DEF At, InStep, RecordedHasDir, TypeOK, load_manifest
<1>1. ASSUME NEW a \in Apps, install_begin(a) PROVE InStep'
  BY <1>1 DEF install_begin, disk
<1>2. CASE create_dir
  <2>1. /\ op'.kind = "install" => op'.app = op.app /\ op'.at = "unpack" /\ "dir" \in files'[op.app]
                                   /\ op.app \notin overlooked'
        /\ op'.kind \in {"install", "none"}
    BY <1>2, GotoKeeps, FinishKeeps DEF create_dir, MakeDirs, Abort, InstallSteps, Idle
  <2>2. /\ UNCHANGED <<manifest, desktop_file>>
        /\ UNCHANGED <<files, overlooked>>
           \/ (MakeDirs({op.app}) /\ overlooked' = overlooked \ {op.app})
    BY <1>2 DEF create_dir
  <2>3. QED
    BY <2>1, <2>2 DEF MakeDirs
<1>3. CASE unpack
  BY <1>3, GotoKeeps DEF unpack, disk, InstallSteps
<1>4. CASE unpacking \/ copy
  <2>1. /\ op'.kind = "install" => op'.app = op.app /\ op'.at \in {"unpacking", "copy", "desktop"}
        /\ op'.kind \in {"install", "none"}
    BY <1>4, GotoKeeps, FinishKeeps DEF unpacking, copy, Abort, InstallSteps, Idle
  <2>2. /\ UNCHANGED <<manifest, desktop_file, overlooked>>
        /\ files' = files \/ \E item \in Contents : Put(op.app, item)
    BY <1>4 DEF unpacking, copy, Contents
  <2>3. "dir" \in files[op.app] /\ op.app \in Apps /\ op.app \notin overlooked
    BY <1>4 DEF unpacking, copy
  <2>4. QED
    BY <2>1, <2>2, <2>3 DEF Put
<1>5. CASE write_desktop
  <2>1. /\ op'.kind = "install" => op'.app = op.app /\ op'.at = "save" /\ desktop_file'[op.app]
        /\ op'.kind \in {"install", "none"}
    BY <1>5, DesktopStep DEF Idle
  <2>2. UNCHANGED <<manifest, files, overlooked>> /\ "dir" \in files[op.app] /\ op.app \notin overlooked
    BY <1>5, DesktopStep
  <2>3. QED
    BY <2>1, <2>2
<1>6. CASE install_rename
  <2>1. op'.kind = "none" /\ UNCHANGED <<files, desktop_file, overlooked>>
    BY <1>6, FinishKeeps DEF install_rename, Abort, Idle
  <2>2. op.kind = "install" /\ "dir" \in files[op.app] /\ manifest \subseteq Apps
    BY <1>6 DEF install_rename, Written
  <2>3. manifest' \subseteq manifest \cup {op.app}
    BY <1>6, WholeManifest DEF install_rename, Renamed, Written, Readings, Updated
  <2>4. QED
    BY <2>1, <2>2, <2>3 DEF Torn
<1>7. QED
  BY <1>1, <1>2, <1>3, <1>4, <1>5, <1>6 DEF Install

(* So do those of an uninstallation.                                       *)
LEMMA UninstallKeepsInStep ==
  ASSUME TypeOK, Written, InStep, Uninstall
  PROVE  InStep'
<1> USE OperationFields DEF At, InStep, RecordedHasDir, TypeOK
<1>1. ASSUME NEW a \in Apps, uninstall_begin(a) PROVE InStep'
  <2>1. /\ UNCHANGED <<files, desktop_file, manifest>> /\ op'.kind = "uninstall" /\ op'.app = a
        /\ op'.clean <=> op'.seen = load_manifest
        /\ load_manifest' = load_manifest
    BY <1>1, BeginStep DEF disk, load_manifest
  <2>2. op'.at = IF a \in op'.seen THEN "record" ELSE "remove_dir"
    BY <1>1, BeginStep, Zenon
  <2>3. overlooked' = overlooked \cup (Within(a) \ {a})
          \cup (IF a \in Wide \/ op'.seen # load_manifest THEN {a} ELSE {})
    BY <1>1, BeginStep, Zenon
  <2>4. overlooked \subseteq overlooked' /\ (a \in Wide => Apps \subseteq overlooked')
    BY <2>3 DEF Within
  <2>5. op'.at # "record" => a \notin load_manifest \/ (~op'.clean /\ a \in overlooked')
    BY <2>1, <2>2, <2>3
  <2>6. op'.at # "desktop"
    BY <2>2
  <2>7. QED
    BY <2>1, <2>4, <2>5, <2>6
<1>2. CASE remove_record
  BY <1>2, RemoveKeeps DEF remove_record, UninstallSteps, load_manifest
<1>3. CASE uninstall_rename
  <2>1. /\ op'.kind = "uninstall" =>
             op'.app = op.app /\ op'.at = "remove_dir" /\ manifest' = Updated
        /\ op'.kind \in {"uninstall", "none"}
    BY <1>3, GotoKeeps, FinishKeeps
    DEF uninstall_rename, Renamed, Written, Abort, UninstallSteps, Idle
  <2>2. UNCHANGED <<files, overlooked>> /\ manifest' \in {manifest, Updated} /\ op.kind = "uninstall"
    BY <1>3 DEF uninstall_rename, Renamed, Written
  <2>3. Updated = load_manifest \ {op.app} /\ manifest \subseteq Apps
    BY <1>3 DEF uninstall_rename, Written, Updated
  <2>4. QED
    BY <2>1, <2>2, <2>3 DEF load_manifest, Torn
<1>4. CASE remove_dir
  <2>1. /\ op.kind = "uninstall" /\ op.app \in Apps /\ overlooked' = overlooked
        /\ manifest' = manifest \/ (op.app \in Wide /\ manifest' = {})
        /\ op.app \notin load_manifest \/ (~op.clean /\ op.app \in overlooked)
        /\ op.app \in Wide => Apps \subseteq overlooked
    BY <1>4, RemoveDirStep
  <2>2. load_manifest' \subseteq load_manifest /\ load_manifest' \subseteq Apps
    BY <2>1, ManifestType DEF load_manifest, Torn
  <2>3. CASE op' = Idle /\ UNCHANGED disk
    BY <2>1, <2>3 DEF disk, Idle, load_manifest
  <2>4. CASE /\ op'.kind = "uninstall" /\ op'.app = op.app /\ op'.at = "desktop"
             /\ op'.clean = op.clean
             /\ \A a \in Within(op.app) : files'[a] = {}
             /\ op.app \in Wide => \A a \in Apps : ~desktop_file'[a]
    <3>1. \A a \in Apps : files'[a] = files[a] \/ files'[a] = {}
      BY <1>4, <2>4, RemoveDirStep
    <3>2. \A a \in Apps : a # op.app /\ op.app \notin Wide => files'[a] = files[a]
      BY <1>4, RemoveDirStep DEF Within
    <3>3. \A a \in load_manifest' \ overlooked : a # op.app /\ op.app \notin Wide
      BY <2>1, <2>2
    <3>4. files'[op.app] = {}
      BY <2>1, <2>4 DEF Within
    <3>5. \A a \in load_manifest' \ overlooked : "dir" \in files'[a]
      BY <2>2, <3>2, <3>3
    <3>6. QED
      BY <2>1, <2>2, <2>4, <3>1, <3>4, <3>5
  <2>5. CASE /\ op'.kind = "uninstall" /\ op'.app = op.app /\ op'.at = "removing"
             /\ op'.clean = op.clean
             /\ \A a \in Apps : files[a] = files'[a] \/ Emptied(a)
    <3>1. \A a \in Apps : files'[a] # {} => "dir" \in files'[a]
      BY <2>5 DEF Emptied
    <3>2. \A a \in Apps : a # op.app /\ op.app \notin Wide => files'[a] = files[a]
      BY <1>4, RemoveDirStep DEF Within
    <3>3. \A a \in load_manifest' \ overlooked : a # op.app /\ op.app \notin Wide
      BY <2>1, <2>2
    <3>4. \A a \in load_manifest' \ overlooked : "dir" \in files'[a]
      BY <2>2, <3>2, <3>3
    <3>5. QED
      BY <2>1, <2>2, <2>5, <3>1, <3>4
  <2>6. QED
    BY <1>4, <2>3, <2>4, <2>5, RemoveDirStep
<1>5. CASE uninstall_end
  BY <1>5 DEF uninstall_end, Idle, load_manifest
<1>6. QED
  BY <1>1, <1>2, <1>3, <1>4, <1>5 DEF Uninstall

(* InStep is inductive.                                                    *)
LEMMA InStepInvariant == Spec => []InStep
<1>1. Init => InStep
  BY DEF Init, InStep, RecordedHasDir, load_manifest, At, Idle
<1>2. TypeOK /\ Written /\ InStep /\ [Next]_vars => InStep'
  <2> SUFFICES ASSUME TypeOK, Written, InStep, [Next]_vars PROVE InStep'
    OBVIOUS
  <2> USE OperationFields DEF At, InStep, RecordedHasDir, TypeOK, load_manifest
  <2>1. CASE save_tmp
    <3>1. op.kind # "none" /\ UNCHANGED <<files, desktop_file, manifest, overlooked>>
      BY <2>1 DEF save_tmp, Idle
    <3>2. /\ op'.kind # "none" =>
               op'.kind = op.kind /\ op'.app = op.app /\ op'.at \in {"save", "rename"}
          /\ op.at = "save"
      BY <2>1, <3>1, GotoKeeps, FinishKeeps DEF save_tmp, Abort, InstallSteps, UninstallSteps, Idle
    <3>3. QED
      BY <3>1, <3>2
  <2>2. CASE Crash
    <3>1. /\ op'.kind = "none" /\ UNCHANGED <<manifest, overlooked>>
          /\ \A a \in Apps : files'[a] = files[a] \/ files'[a] = files[a] \cup {"dir"}
      BY <2>2 DEF Crash, MakeDirs, Idle
    <3>2. QED
      BY <3>1
  <2>3. CASE UNCHANGED vars
    BY <2>3 DEF vars, disk
  <2>4. QED
    BY <2>1, <2>2, <2>3, InstallKeepsInStep, UninstallKeepsInStep DEF Next
<1>3. QED
  BY <1>1, <1>2, AppLayerTypeCorrect, WrittenInvariant, PTL DEF Spec

(* RecordedHasDir: at every moment, after every failure and every crash,   *)
(* an app on record has its directory, unless an uninstallation that had   *)
(* not seen its record went for it.                                        *)
THEOREM RecordsHaveDirectories == Spec => []RecordedHasDir
<1>1. InStep => RecordedHasDir
  BY DEF InStep
<1>2. QED
  BY <1>1, InStepInvariant, PTL
-----------------------------------------------------------------------------
(* What is reported.                                                       *)

(* An operation that has returned stays as it was reported until the next. *)
LEMMA IdleSteps ==
  ASSUME TypeOK, [Next]_vars, op' = Idle
  PROVE  \/ UNCHANGED vars
         \/ last'.kind = "none"
         \/ last'.result = "error"
         \/ install_rename \/ uninstall_end
<1> USE OperationFields DEF TypeOK, At
<1>1. CASE write_desktop
  BY <1>1, DesktopStep DEF Idle
<1>2. CASE Install /\ ~write_desktop
  BY <1>2, GotoKeeps, FinishKeeps
  DEF Install, install_begin, create_dir, unpack, unpacking, copy, Abort, InstallSteps, Idle
<1>3. CASE remove_dir
  BY <1>3, RemoveDirStep DEF Idle
<1>4. CASE Uninstall /\ ~remove_dir
  <2>1. ASSUME NEW a \in Apps, uninstall_begin(a) PROVE FALSE
    BY <2>1, BeginStep DEF Idle
  <2>2. CASE remove_record \/ uninstall_rename
    BY <2>2, GotoKeeps, RemoveKeeps, FinishKeeps
    DEF remove_record, uninstall_rename, Abort, UninstallSteps, Idle
  <2>3. QED
    BY <1>4, <2>1, <2>2 DEF Uninstall
<1>5. CASE save_tmp
  <2>1. op.kind # "none"
    BY <1>5 DEF save_tmp, Idle
  <2>2. QED
    BY <1>5, <2>1, GotoKeeps, FinishKeeps DEF save_tmp, Abort, InstallSteps, UninstallSteps, Idle
<1>6. CASE Crash
  BY <1>6 DEF Crash, NothingYet
<1>7. QED
  BY <1>1, <1>2, <1>3, <1>4, <1>5, <1>6 DEF Next

(* ReportedIsRecorded: an installation reported finished is on record,     *)
(* with its directory and its desktop file, whatever it could read of the  *)
(* manifest before.                                                        *)
THEOREM InstalledIsRecorded == Spec => []ReportedIsRecorded
<1>1. Init => ReportedIsRecorded
  BY DEF Init, NothingYet, ReportedIsRecorded
<1>2. /\ TypeOK /\ Written /\ Written' /\ InStep /\ InStep' /\ ReportedIsRecorded /\ [Next]_vars
      => ReportedIsRecorded'
  <2> SUFFICES ASSUME TypeOK, Written, Written', InStep, InStep', ReportedIsRecorded, [Next]_vars,
                      op' = Idle, last'.kind = "install", last'.result = "ok"
               PROVE  /\ last'.app \in load_manifest' /\ desktop_file'[last'.app]
                      /\ "dir" \in files'[last'.app]
    BY DEF ReportedIsRecorded
  <2>1. CASE install_rename
    <3>1. op \in Operation /\ op.kind = "install" /\ op.at = "rename" /\ op.app \in Apps
      BY <2>1, OperationFields DEF install_rename, At, TypeOK
    <3>2. Renamed /\ last'.app = op.app
      BY <2>1, <3>1, FinishKeeps DEF install_rename, Abort
    <3>3. op.app \in load_manifest'
      BY <3>1, <3>2 DEF Renamed, Written, Updated, load_manifest, Torn
    <3>4. QED
      BY <2>1, <3>1, <3>2, <3>3 DEF install_rename, InStep
  <2>2. CASE uninstall_end
    BY <2>2 DEF uninstall_end
  <2>3. CASE UNCHANGED vars
    BY <2>3 DEF vars, disk, load_manifest, ReportedIsRecorded
  <2>4. QED
    BY <2>1, <2>2, <2>3, IdleSteps
<1>3. QED
  BY <1>1, <1>2, AppLayerTypeCorrect, WrittenInvariant, InStepInvariant, PTL DEF Spec

(* UninstallLeavesNothing: an uninstallation reported finished, with no    *)
(* failure passed over, has left no record, no file and no desktop file,   *)
(* whatever came before it, and no entry in the index when the id was      *)
(* spelled as there.                                                       *)
THEOREM UninstalledIsGone == Spec => []UninstallLeavesNothing
<1>1. Init => UninstallLeavesNothing
  BY DEF Init, NothingYet, UninstallLeavesNothing
<1>2. TypeOK /\ InStep /\ UninstallLeavesNothing /\ [Next]_vars => UninstallLeavesNothing'
  <2> SUFFICES ASSUME TypeOK, InStep, UninstallLeavesNothing, [Next]_vars,
                      op' = Idle, last'.kind = "uninstall", last'.result = "ok"
               PROVE  /\ last'.clean => ~is_installed(last.app)' /\ ~desktop_file'[last'.app]
                      /\ last'.exact => last'.app \notin index'
    BY DEF UninstallLeavesNothing
  <2>1. CASE install_rename
    BY <2>1, OperationFields, FinishKeeps DEF install_rename, Abort, At, TypeOK
  <2>2. CASE uninstall_end
    <3>1. PICK exact \in BOOLEAN, removed \in BOOLEAN :
            /\ IF removed THEN desktop_file' = [desktop_file EXCEPT ![op.app] = FALSE] /\ Calm
                          ELSE desktop_file[op.app] /\ UNCHANGED desktop_file /\ Fault
            /\ last' = [kind |-> "uninstall", app |-> op.app, result |-> "ok",
                        clean |-> op.clean /\ removed, exact |-> exact]
            /\ index' = IF exact THEN index \ {op.app} ELSE index
      BY <2>2 DEF uninstall_end
    <3>2. /\ op.kind = "uninstall" /\ op.app \in Apps
          /\ op.app \notin load_manifest \/ ~op.clean
          /\ files[op.app] = {}
      BY <2>2, OperationFields DEF uninstall_end, At, InStep, TypeOK
    <3>3. last'.app = op.app /\ last'.exact = exact /\ last'.clean = (op.clean /\ removed)
      BY <3>1
    <3>4. UNCHANGED <<files, manifest>>
      BY <2>2 DEF uninstall_end
    <3>5. ASSUME op.clean, removed PROVE ~is_installed(last.app)' /\ ~desktop_file'[last'.app]
      BY <3>1, <3>2, <3>3, <3>4, <3>5 DEF is_installed, load_manifest, TypeOK
    <3>6. ASSUME exact PROVE last'.app \notin index'
      BY <3>1, <3>3, <3>6
    <3>7. QED
      BY <3>3, <3>5, <3>6, Zenon
  <2>3. CASE UNCHANGED vars
    BY <2>3 DEF vars, disk, load_manifest, is_installed, UninstallLeavesNothing
  <2>4. QED
    BY <2>1, <2>2, <2>3, IdleSteps
<1>3. QED
  BY <1>1, <1>2, AppLayerTypeCorrect, InStepInvariant, PTL DEF Spec
-----------------------------------------------------------------------------
(* What mishaps leave behind.                                              *)

Mishaps == faults + crashes

\* An installation has written the desktop file and not yet the record.
Unrecorded(a) == op.kind = "install" /\ op.at \in {"save", "rename"} /\ op.app = a

Sweeping == op.kind = "uninstall" /\ op.app \in Wide

(***************************************************************************)
(* Without a mishap a desktop file means a record, except in the last      *)
(* steps of an installation, and an uninstallation removes it first; an    *)
(* operation has read the whole manifest; and an app whose directory went  *)
(* with the root has no desktop file, once that is done.  With one mishap  *)
(* a desktop file means that something of the app is left, except in the   *)
(* last step of an uninstallation.                                         *)
(***************************************************************************)
AfterMishaps ==
  /\ Mishaps = 0 =>
       /\ \A a \in Apps \ overlooked : desktop_file[a] => a \in load_manifest \/ Unrecorded(a)
       /\ ~Sweeping => \A a \in overlooked : ~desktop_file[a]
       /\ op.kind = "uninstall" /\ op.at # "record" => ~desktop_file[op.app]
       /\ op.at \in {"save", "rename"} => op.seen = load_manifest
  /\ Mishaps <= 1 =>
       \A a \in Apps \ overlooked :
         desktop_file[a] => is_installed(a) \/ (At("uninstall", "desktop") /\ op.app = a)

(* Mishaps are only counted up, and a step that counts none is calm.       *)
LEMMA MishapsGrow ==
  ASSUME TypeOK, [Next]_vars
  PROVE  /\ Mishaps \in Nat
         /\ IF Calm THEN Mishaps' = Mishaps ELSE Mishaps' = Mishaps + 1
<1>1. faults \in Nat /\ crashes \in Nat
  BY DEF TypeOK
<1>2. Calm \/ Fault \/ (crashes' = crashes + 1 /\ faults' = faults)
  <2>1. CASE write_desktop
    BY <2>1, DesktopStep, Zenon DEF Reading
  <2>2. CASE \E a \in Apps : uninstall_begin(a)
    BY <2>2, BeginStep, Zenon DEF Reading
  <2>3. CASE uninstall_end
    BY <2>3 DEF uninstall_end
  <2>4. QED
    BY <2>1, <2>2, <2>3
    DEF Next, Install, Uninstall, vars, install_begin, create_dir, unpack,
     unpacking, copy, install_rename, remove_record, RemoveDesktopFile,
     uninstall_rename, remove_dir, save_tmp, Abort, Crash, Calm
<1>3. QED
  BY <1>1, <1>2 DEF Mishaps, Calm, Fault

(* Without a mishap so far, a desktop file means that the app counts as    *)
(* installed.                                                              *)
LEMMA NoMishapYet ==
  ASSUME TypeOK, InStep, AfterMishaps, Mishaps = 0, NEW a \in Apps \ overlooked, desktop_file[a]
  PROVE  is_installed(a)
BY DEF InStep, AfterMishaps, is_installed, Unrecorded

(* A mishap takes nothing away but the operation.                          *)
LEMMA MishapStep ==
  ASSUME TypeOK, InStep, [Next]_vars, ~Calm
  PROVE  /\ manifest' = manifest /\ overlooked \subseteq overlooked'
         /\ \A a \in Apps : files[a] \subseteq files'[a]
         /\ \A a \in Apps : desktop_file'[a] =>
              desktop_file[a] \/ files[a] # {}
<1> USE OperationFields DEF TypeOK, At, disk
<1>1. CASE write_desktop
  BY <1>1, DesktopStep DEF InStep
<1>2. CASE Install /\ ~write_desktop
  <2>1. /\ UNCHANGED <<manifest, desktop_file, overlooked>>
        /\ UNCHANGED files \/ \E item \in Contents : Put(op.app, item)
    BY <1>2 DEF Install, install_begin, create_dir, unpack, unpacking, copy,
       install_rename, Contents
  <2>2. QED
    BY <2>1 DEF Put
<1>3. CASE \E a \in Apps : uninstall_begin(a)
  BY <1>3 DEF uninstall_begin
<1>4. CASE remove_dir
  BY <1>4, RemoveDirStep DEF Calm
<1>5. CASE remove_record \/ uninstall_rename \/ uninstall_end
  BY <1>5 DEF remove_record, RemoveDesktopFile, uninstall_rename, uninstall_end
<1>6. CASE save_tmp
  BY <1>6 DEF save_tmp
<1>7. CASE Crash
  BY <1>7 DEF Crash, MakeDirs
<1>8. QED
  BY <1>1, <1>2, <1>3, <1>4, <1>5, <1>6, <1>7 DEF Next, Uninstall, vars, Calm

(* The calm steps of an installation keep AfterMishaps.                    *)
LEMMA CalmInstall ==
  ASSUME TypeOK, Written, InStep, AfterMishaps, Install, Calm, ~Fault, Mishaps' = Mishaps,
         Mishaps \in Nat
  PROVE  AfterMishaps'
<1> USE OperationFields
    DEF AfterMishaps, Unrecorded, Sweeping, At, TypeOK, is_installed, load_manifest, InstallSteps
<1>1. ASSUME NEW a \in Apps, install_begin(a) PROVE AfterMishaps'
  BY <1>1 DEF install_begin, disk, Idle
<1>2. CASE create_dir
  <2>1. /\ op.kind = "install" /\ op.at = "create_dir" /\ op.app \in Apps
        /\ op'.kind = "install" /\ op'.at = "unpack" /\ UNCHANGED <<desktop_file, manifest>>
        /\ overlooked' = overlooked \ {op.app}
    BY <1>2, GotoKeeps DEF create_dir, Abort
  <2>2. /\ \A a \in Apps : files[a] # {} => files'[a] # {}
        /\ files'[op.app] # {}
    BY <1>2, <2>1 DEF create_dir, MakeDirs, Abort
  <2>3. QED
    BY <2>1, <2>2
<1>3. CASE unpack \/ unpacking \/ copy
  <2>1. /\ op.kind = "install" /\ op.at \notin {"save", "rename"} /\ op'.at \notin {"save", "rename"}
        /\ op'.kind = "install" /\ UNCHANGED <<desktop_file, manifest, overlooked>>
    BY <1>3, GotoKeeps DEF unpack, unpacking, copy, Abort, disk
  <2>2. UNCHANGED files \/ \E item \in Contents : Put(op.app, item)
    BY <1>3 DEF unpack, unpacking, copy, Contents, disk
  <2>3. \A a \in Apps : files[a] # {} => files'[a] # {}
    BY <2>2 DEF Put
  <2>4. QED
    BY <2>1, <2>3
<1>4. CASE write_desktop
  <2>1. /\ op.kind = "install" /\ op.app \in Apps /\ files[op.app] # {} /\ op.app \notin overlooked
        /\ op.at = "desktop" /\ UNCHANGED <<files, manifest, overlooked>>
    BY <1>4, DesktopStep DEF InStep
  <2>2. CASE op' = Idle /\ desktop_file' = desktop_file
    BY <2>1, <2>2 DEF Idle
  <2>3. CASE /\ op'.kind = "install" /\ op'.app = op.app /\ op'.at = "save"
             /\ op'.seen = load_manifest
             /\ desktop_file' = [desktop_file EXCEPT ![op.app] = TRUE]
    BY <2>1, <2>3
  <2>4. QED
    BY <1>4, <2>2, <2>3, DesktopStep DEF Reading, Whole
<1>5. CASE install_rename
  <2>1. /\ op.kind = "install" /\ op' = Idle /\ manifest' = Updated /\ op.at = "rename"
        /\ op.app \in Apps /\ UNCHANGED <<files, desktop_file, overlooked>>
    BY <1>5, FinishKeeps DEF install_rename, Renamed, Written, Abort
  <2>2. load_manifest' = op.seen \cup {op.app}
    BY <2>1 DEF Updated, Torn
  <2>3. Mishaps = 0 => op.seen = load_manifest
    BY <2>1
  <2>4. \A a \in load_manifest \ overlooked : files[a] # {}
    BY DEF InStep, RecordedHasDir
  <2>5. QED
    BY <2>1, <2>2, <2>3, <2>4 DEF Idle
<1>6. QED
  BY <1>1, <1>2, <1>3, <1>4, <1>5 DEF Install

(* So do those of an uninstallation.                                       *)
LEMMA CalmUninstall ==
  ASSUME TypeOK, Written, InStep, AfterMishaps, Uninstall, Calm, ~Fault, Mishaps' = Mishaps,
         Mishaps \in Nat
  PROVE  AfterMishaps'
<1> USE OperationFields
    DEF AfterMishaps, Unrecorded, Sweeping, At, TypeOK, is_installed, load_manifest, UninstallSteps
<1>1. ASSUME NEW a \in Apps, uninstall_begin(a) PROVE AfterMishaps'
  <2>1. /\ op = Idle /\ UNCHANGED disk /\ op'.kind = "uninstall" /\ op'.app = a
        /\ op'.seen = load_manifest
    BY <1>1, BeginStep DEF Reading, Whole
  <2>2. op'.at = IF a \in op'.seen THEN "record" ELSE "remove_dir"
    BY <1>1, BeginStep, Zenon
  <2>3. overlooked' = overlooked \cup (Within(a) \ {a})
          \cup (IF a \in Wide \/ op'.seen # load_manifest THEN {a} ELSE {})
    BY <1>1, BeginStep, Zenon
  <2>4. overlooked \subseteq overlooked' /\ (a \notin Wide => overlooked' = overlooked)
    BY <2>1, <2>3 DEF Within
  <2>5. Mishaps = 0 /\ op'.at # "record" => ~desktop_file[a]
    BY <2>1, <2>2 DEF Idle
  <2>6. QED
    BY <2>1, <2>2, <2>4, <2>5 DEF disk, Idle
<1>2. CASE remove_record
  <2>1. /\ op.kind = "uninstall" /\ op.app \in Apps
        /\ desktop_file' = [desktop_file EXCEPT ![op.app] = FALSE]
        /\ op'.kind = "uninstall" /\ op'.at = "save" /\ op'.app = op.app /\ op'.seen = op.seen
        /\ op.at = "record" /\ UNCHANGED <<files, manifest, overlooked>>
    BY <1>2, RemoveKeeps DEF remove_record, RemoveDesktopFile
  <2>2. op.seen = load_manifest
    BY <2>1 DEF Written
  <2>3. QED
    BY <2>1, <2>2
<1>3. CASE uninstall_rename
  <2>1. /\ op.kind = "uninstall" /\ op.at = "rename" /\ op.app \in Apps /\ manifest' = Updated
        /\ UNCHANGED <<files, desktop_file, overlooked>> /\ Goto("remove_dir")
    BY <1>3 DEF uninstall_rename, Renamed, Written, Abort
  <2>2. op'.kind = "uninstall" /\ op'.at = "remove_dir" /\ op'.app = op.app
    BY <2>1, GotoKeeps
  <2>3. load_manifest' = load_manifest \ {op.app}
    BY <2>1 DEF Updated, Written, Torn
  <2>4. op.app \in load_manifest \ overlooked => files[op.app] # {}
    BY <2>1 DEF InStep, RecordedHasDir
  <2>5. QED
    BY <2>1, <2>2, <2>3, <2>4
<1>4. CASE remove_dir
  <2>1. /\ op.kind = "uninstall" /\ op.app \in Apps /\ op.at \in {"remove_dir", "removing"}
        /\ overlooked' = overlooked /\ \A a \in Apps : desktop_file'[a] => desktop_file[a]
        /\ op'.kind = "uninstall" /\ op'.app = op.app /\ op'.at \in {"removing", "desktop"}
    BY <1>4, RemoveDirStep
  <2>2. CASE op.app \in Wide
    <3>1. Apps \subseteq overlooked
      BY <2>1, <2>2 DEF InStep
    <3>2. QED
      BY <2>1, <2>2, <3>1
  <2>3. CASE op.app \notin Wide
    <3>1. UNCHANGED <<desktop_file, manifest>>
      BY <1>4, <2>3, RemoveDirStep
    <3>2. \A a \in Apps : a # op.app => files'[a] = files[a]
      BY <1>4, <2>3, RemoveDirStep DEF Within
    <3>3. op'.at = "removing" => (files[op.app] # {} => files'[op.app] # {})
      BY <1>4, <2>1, RemoveDirStep DEF Emptied, InStep
    <3>4. \A a \in Apps : files[a] # {} => files'[a] # {} \/ (op'.at = "desktop" /\ a = op'.app)
      BY <2>1, <3>2, <3>3
    <3>5. QED
      BY <2>1, <2>3, <3>1, <3>4
  <2>4. QED
    BY <2>2, <2>3
<1>5. CASE uninstall_end
  <2>1. /\ op.kind = "uninstall" /\ op.app \in Apps /\ op' = Idle
        /\ UNCHANGED <<files, manifest, overlooked>> /\ At("uninstall", "desktop")
    BY <1>5 DEF uninstall_end
  <2>2. desktop_file' = [desktop_file EXCEPT ![op.app] = FALSE]
    BY <1>5 DEF uninstall_end
  <2>3. op.app \in Wide => \A a \in Apps : ~desktop_file[a]
    BY <2>1 DEF InStep
  <2>4. QED
    BY <2>1, <2>2, <2>3 DEF Idle
<1>6. QED
  BY <1>1, <1>2, <1>3, <1>4, <1>5 DEF Uninstall

(* AfterMishaps is inductive.                                              *)
LEMMA AfterMishapsInvariant == Spec => []AfterMishaps
<1>1. Init => AfterMishaps
  BY DEF Init, AfterMishaps, Idle
<1>2. TypeOK /\ Written /\ InStep /\ AfterMishaps /\ [Next]_vars => AfterMishaps'
  <2> SUFFICES ASSUME TypeOK, Written, InStep, AfterMishaps, [Next]_vars PROVE AfterMishaps'
    OBVIOUS
  <2>1. CASE Calm /\ Mishaps' = Mishaps
    <3>1. ~Fault
      BY <2>1 DEF Calm, Fault, TypeOK
    <3>2. CASE save_tmp
      <4>1. op.kind # "none" /\ op \in Operation
        BY <3>2 DEF save_tmp, Idle, Operation, TypeOK, InstallSteps, UninstallSteps
      <4>2. /\ op'.kind = op.kind /\ op'.app = op.app /\ op'.at \in {"save", "rename"}
            /\ op'.seen = op.seen
            /\ op.at = "save" /\ UNCHANGED <<files, desktop_file, manifest, overlooked>>
        BY <3>1, <3>2, <4>1, OperationFields, GotoKeeps
        DEF save_tmp, Abort, InstallSteps, UninstallSteps
      <4>3. QED
        BY <2>1, <4>2 DEF AfterMishaps, Unrecorded, Sweeping, At, is_installed, load_manifest
    <3>3. CASE Crash
      BY <2>1, <3>3 DEF Crash, Calm, TypeOK
    <3>4. CASE UNCHANGED vars
      BY <2>1, <3>4
      DEF vars, disk, AfterMishaps, Unrecorded, Sweeping, At, is_installed, load_manifest
    <3>5. QED
      BY <2>1, <3>1, <3>2, <3>3, <3>4, MishapsGrow, CalmInstall, CalmUninstall DEF Next
  <2>2. CASE ~Calm
    <3>1. Mishaps \in Nat /\ Mishaps' = Mishaps + 1
      BY <2>2, MishapsGrow
    <3>2. ASSUME Mishaps = 0, NEW a \in Apps \ overlooked', desktop_file'[a]
          PROVE  is_installed(a)'
      <4>1. is_installed(a)
        BY <2>2, <3>2, NoMishapYet, MishapStep DEF is_installed
      <4>2. QED
        BY <2>2, <4>1, MishapStep DEF is_installed, load_manifest
    <3>3. QED
      BY <3>1, <3>2 DEF AfterMishaps
  <2>3. QED
    BY <2>1, <2>2, MishapsGrow
<1>3. QED
  BY <1>1, <1>2, AppLayerTypeCorrect, WrittenInvariant, InStepInvariant, PTL DEF Spec

(* OneMishapHidesNothing: after one crash anywhere, or one failure, an app *)
(* whose desktop file is there still counts as installed, and so can be    *)
(* removed, unless its directory went with the root.                       *)
THEOREM OneMishapLeavesRemovable == Spec => []OneMishapHidesNothing
<1>1. AfterMishaps => OneMishapHidesNothing
  BY DEF AfterMishaps, OneMishapHidesNothing, Mishaps, At, Idle
<1>2. QED
  BY <1>1, AfterMishapsInvariant, PTL
=============================================================================
