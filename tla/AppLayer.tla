------------------------------ MODULE AppLayer ------------------------------
(***************************************************************************)
(* Installing and uninstalling (filer/core/src/packages/mod.rs, called     *)
(* from the dispatch loop of amgos-system/src/main.rs), with what lives on *)
(* disk: the directory and the desktop file of each app, and the manifest. *)
(*                                                                         *)
(* One operation runs at a time, and every file operation is a step: it    *)
(* may fail, and Process 1 may die before the next one.  A rename is       *)
(* atomic; a file being written, a directory being unpacked or removed is  *)
(* not.  Apps are named by their sanitized ids.  An id of which nothing or *)
(* only dots are left names no directory of its own: joined to the root of *)
(* the app layer it is the root, or a directory above it.                  *)
(***************************************************************************)
EXTENDS Naturals

CONSTANTS
  Apps,
  Wide,        \* ids whose directory is the root of the app layer, or above
  SystemApps,  \* apps for which the base image ships a desktop file, too
  Nobody,      \* no operation is running
  MaxFaults,   \* failing file operations (bound)
  MaxCrashes   \* crashes of Process 1 (bound)

ASSUME AppLayerAssumption ==
  /\ MaxFaults \in Nat /\ MaxCrashes \in Nat
  /\ Nobody \notin Apps /\ Wide \subseteq Apps /\ SystemApps \subseteq Apps

VARIABLES
  files,          \* of each app: "dir" itself, and what is in it
  desktop_dir,    \* whether desktop/ is there
  desktop_file,   \* whether desktop/<app>.desktop is there
  manifest,       \* manifest.json: a set of apps, or Torn
  tmp,            \* manifest.tmp
  index,          \* apps with an "app-desktop-<app>" entry in Pathfinder
  op,             \* the running operation
  last,           \* how the last operation ended
  overlooked,     \* (history) apps whose directory was given up to an
                  \* uninstallation that had not looked at their record
  faults, crashes

disk == <<files, desktop_dir, desktop_file, manifest, tmp>>
vars == <<disk, index, op, last, overlooked, faults, crashes>>

\* seen: what the operation has read of the manifest.
Idle == [kind |-> "none", app |-> Nobody, at |-> "idle", seen |-> {}, clean |-> TRUE]
\* The directory itself, some of the files of the app, all of them (unpacked,
\* or the package as it came).
Contents == {"dir", "part", "app"}
InstallSteps == {"create_dir", "unpack", "unpacking", "copy", "desktop", "save", "rename"}
UninstallSteps == {"record", "save", "rename", "remove_dir", "removing", "desktop"}

\* A file of which only a part was written.
Torn == {Nobody}

\* load_manifest: no file, or one that cannot be parsed, counts as empty.
load_manifest == IF manifest = Torn THEN {} ELSE manifest

\* The directories that are removed with that of an id.
Within(a) == IF a \in Wide THEN Apps ELSE {a}

\* is_installed
is_installed(a) == a \in load_manifest \/ files[a] # {}

-----------------------------------------------------------------------------
At(kind, step) == op.kind = kind /\ op.at = step
Goto(step) == op' = [op EXCEPT !.at = step] /\ UNCHANGED last

\* The operation returns; clean says that no failure was passed over.
Finish(result) ==
  /\ op' = Idle
  /\ last' = [kind |-> op.kind, app |-> op.app, result |-> result, clean |-> op.clean,
              exact |-> TRUE]

Calm == UNCHANGED <<faults, crashes>>

\* A file operation fails, and the operation with it.
Fault == faults < MaxFaults /\ faults' = faults + 1 /\ UNCHANGED crashes
Abort == Fault /\ Finish("error") /\ UNCHANGED index

\* What load_manifest gives an operation: the manifest, or nothing, when
\* manifest.json cannot be read, which is not told.
Readings == {load_manifest, {}}
Whole(seen) == seen = load_manifest
Reading(seen) == IF Whole(seen) THEN Calm ELSE Fault

Put(a, item) == files' = [files EXCEPT ![a] = @ \cup {item}]

\* create_dir_all, with the root when that is missing.
MakeDirs(S) ==
  files' = [a \in Apps |-> IF a \in S \cup Wide THEN files[a] \cup {"dir"} ELSE files[a]]

-----------------------------------------------------------------------------
(* install_package                                                         *)

\* Mutant: the desktop file is written before there is a directory.
install_begin_desktop(a) ==
  /\ op = Idle
  /\ op' = [kind |-> "install", app |-> a, at |-> "create_dir", seen |-> {}, clean |-> TRUE]
  /\ desktop_file' = [desktop_file EXCEPT ![a] = TRUE]
  /\ UNCHANGED <<files, desktop_dir, manifest, tmp, index, last, overlooked>> /\ Calm

\* inspect has named the app; a package that cannot be read is refused
\* here, before anything happened.
install_begin(a) ==
  /\ op = Idle
  /\ op' = [kind |-> "install", app |-> a, at |-> "create_dir", seen |-> {}, clean |-> TRUE]
  /\ UNCHANGED <<disk, index, last, overlooked>> /\ Calm

create_dir ==
  /\ At("install", "create_dir")
  /\ \/ /\ MakeDirs({op.app}) /\ overlooked' = overlooked \ {op.app}
        /\ Goto("unpack") /\ Calm /\ UNCHANGED index
     \/ Abort /\ UNCHANGED <<files, overlooked>>
  /\ UNCHANGED <<desktop_dir, desktop_file, manifest, tmp>>

\* extract_deb_data_archive, for a .deb; every other format is copied.
unpack ==
  /\ At("install", "unpack")
  /\ Goto("unpacking") \/ Goto("copy")
  /\ UNCHANGED <<disk, index, overlooked>> /\ Calm

\* It writes file after file, and ends well, ends on an error and falls back
\* to copying, or ends well with nothing written, for an archive whose
\* compression it does not know.
unpacking ==
  /\ At("install", "unpacking")
  /\ \/ Put(op.app, "part") /\ Goto("unpacking") /\ Calm
     \/ Put(op.app, "app") /\ Goto("desktop") /\ Calm
     \/ "part" \notin files[op.app] /\ UNCHANGED files /\ Goto("desktop") /\ Calm
     \/ UNCHANGED files /\ Goto("copy") /\ Fault
  /\ UNCHANGED <<desktop_dir, desktop_file, manifest, tmp, index, overlooked>>

copy ==
  /\ At("install", "copy")
  /\ \/ Put(op.app, "app") /\ Goto("desktop") /\ Calm /\ UNCHANGED index
     \/ Put(op.app, "part") /\ Goto("copy") /\ Calm /\ UNCHANGED index
     \/ Put(op.app, "part") /\ Abort
  /\ UNCHANGED <<desktop_dir, desktop_file, manifest, tmp, overlooked>>

DesktopFilePut == desktop_dir /\ desktop_file' = [desktop_file EXCEPT ![op.app] = TRUE]

\* Then the manifest is read.  When desktop/ went with the root, only the
\* next start of Process 1 makes it again.
write_desktop ==
  /\ At("install", "desktop")
  /\ \/ \E seen \in Readings :
          /\ DesktopFilePut /\ Reading(seen)
          /\ op' = [op EXCEPT !.at = "save", !.seen = seen, !.clean = Whole(seen)]
          /\ UNCHANGED <<index, last>>
     \/ DesktopFilePut /\ Abort
     \/ UNCHANGED desktop_file /\ Abort
     \/ ~desktop_dir /\ UNCHANGED <<desktop_file, index>> /\ Finish("error") /\ Calm
  /\ UNCHANGED <<files, desktop_dir, manifest, tmp, overlooked>>

\* What the operation makes of the manifest.
Updated == IF op.kind = "install" THEN op.seen \cup {op.app} ELSE op.seen \ {op.app}

\* Mutant: manifest.json is written in place.
save_in_place ==
  /\ op.at = "save"
  /\ \/ manifest' = Torn /\ Goto("save") /\ Calm /\ UNCHANGED <<tmp, index>>
     \/ tmp' = Updated /\ Goto("rename") /\ Calm /\ UNCHANGED <<manifest, index>>
  /\ UNCHANGED <<files, desktop_dir, desktop_file, overlooked>>

\* save_manifest writes manifest.tmp, piece by piece,
save_tmp ==
  /\ op.at = "save"
  /\ \/ tmp' = Torn /\ Goto("save") /\ Calm /\ UNCHANGED index
     \/ tmp' = Updated /\ Goto("rename") /\ Calm /\ UNCHANGED index
     \/ tmp' = Torn /\ Abort
  /\ UNCHANGED <<files, desktop_dir, desktop_file, manifest, overlooked>>

\* and renames it.
Renamed == manifest' = tmp /\ tmp' = {}

\* Mutant: the result of save_manifest is not looked at.
install_rename_unchecked ==
  /\ At("install", "rename")
  /\ \/ Renamed /\ Finish("ok") /\ Calm /\ UNCHANGED index
     \/ Fault /\ Finish("ok") /\ UNCHANGED <<manifest, tmp, index>>
  /\ UNCHANGED <<files, desktop_dir, desktop_file, overlooked>>

\* The last step of install_package.  No entry is made in Pathfinder.
install_rename ==
  /\ At("install", "rename")
  /\ \/ Renamed /\ Finish("ok") /\ Calm /\ UNCHANGED index
     \/ Abort /\ UNCHANGED <<manifest, tmp>>
  /\ UNCHANGED <<files, desktop_dir, desktop_file, overlooked>>

-----------------------------------------------------------------------------
(* uninstall_app                                                           *)

\* No record is seen of an app the manifest does not list, nor of any when
\* it cannot be read.
uninstall_begin(a) ==
  /\ op = Idle
  /\ \E seen \in Readings :
       /\ op' = [kind |-> "uninstall", app |-> a, seen |-> seen, clean |-> Whole(seen),
                 at |-> IF a \in seen THEN "record" ELSE "remove_dir"]
       /\ overlooked' = overlooked \cup (Within(a) \ {a})
                           \cup (IF a \in Wide \/ seen # load_manifest THEN {a} ELSE {})
       /\ Reading(seen)
  /\ UNCHANGED <<disk, index, last>>

\* remove_file whose failure nobody looks at.
RemoveDesktopFile(step) ==
  \/ /\ desktop_file' = [desktop_file EXCEPT ![op.app] = FALSE]
     /\ Calm
     /\ op' = [op EXCEPT !.at = step]
  \/ /\ desktop_file[op.app] /\ UNCHANGED desktop_file
     /\ Fault
     /\ op' = [op EXCEPT !.at = step, !.clean = FALSE]

\* Mutant: the app directory goes first, the manifest entry last.
remove_record_last ==
  /\ At("uninstall", "record")
  /\ RemoveDesktopFile("save")
  /\ files' = [files EXCEPT ![op.app] = {}]
  /\ UNCHANGED <<desktop_dir, manifest, tmp, index, last, overlooked>>

\* There is a record: its desktop file is removed, then the record.
remove_record ==
  /\ At("uninstall", "record")
  /\ RemoveDesktopFile("save")
  /\ UNCHANGED <<files, desktop_dir, manifest, tmp, index, last, overlooked>>

\* Mutant: an installation takes the same way on.
uninstall_rename_any ==
  /\ op.at = "rename"
  /\ \/ Renamed /\ Goto("remove_dir") /\ Calm /\ UNCHANGED index
     \/ Abort /\ UNCHANGED <<manifest, tmp>>
  /\ UNCHANGED <<files, desktop_dir, desktop_file, overlooked>>

\* The record is gone, with the rename; then the directory may go.
uninstall_rename ==
  /\ At("uninstall", "rename")
  /\ \/ Renamed /\ Goto("remove_dir") /\ Calm /\ UNCHANGED index
     \/ Abort /\ UNCHANGED <<manifest, tmp>>
  /\ UNCHANGED <<files, desktop_dir, desktop_file, overlooked>>

\* What is in a directory goes before it does.
Emptied(a) ==
  \E item \in files[a] :
    /\ item = "dir" => files[a] = {"dir"} /\ a # op.app /\ a \notin Wide
    /\ files' = [files EXCEPT ![a] = @ \ {item}]

\* With the root go the manifest and the desktop files.
RootRemoved ==
  /\ desktop_file' = [a \in Apps |-> FALSE] /\ desktop_dir' = FALSE
  /\ manifest' = {} /\ tmp' = {}

RootEmptied ==
  \/ /\ \E a \in Apps : desktop_file' = [desktop_file EXCEPT ![a] = FALSE]
     /\ UNCHANGED <<desktop_dir, manifest, tmp>>
  \/ manifest' = {} /\ UNCHANGED <<desktop_dir, desktop_file, tmp>>

\* remove_dir_all: file after file, the directory last.
remove_dir ==
  /\ op.kind = "uninstall" /\ op.at \in {"remove_dir", "removing"}
  /\ \/ /\ files' = [a \in Apps |-> IF a \in Within(op.app) THEN {} ELSE files[a]]
        /\ IF op.app \in Wide THEN RootRemoved
                              ELSE UNCHANGED <<desktop_dir, desktop_file, manifest, tmp>>
        /\ Goto("desktop") /\ Calm /\ UNCHANGED index
     \/ /\ \/ /\ \E a \in Within(op.app) : Emptied(a)
              /\ UNCHANGED <<desktop_dir, desktop_file, manifest, tmp>>
           \/ op.app \in Wide /\ RootEmptied /\ UNCHANGED files
        /\ Goto("removing") /\ Calm /\ UNCHANGED index
     \/ files[op.app] # {} /\ Abort /\ UNCHANGED disk
  /\ UNCHANGED overlooked

\* Mutant: only the desktop file a record names is removed.
uninstall_end_recorded ==
  /\ At("uninstall", "desktop")
  /\ index' = index \ {op.app}
  /\ Finish("ok")
  /\ Calm /\ UNCHANGED <<disk, overlooked>>

\* The desktop file, in case there was no record; then Process 1 takes the
\* app out of Pathfinder, by the id as the request spelled it: only when
\* that is exact, it is the sanitized one the entry is named after.
uninstall_end ==
  /\ At("uninstall", "desktop")
  /\ \E exact, removed \in BOOLEAN :
       /\ IF removed THEN desktop_file' = [desktop_file EXCEPT ![op.app] = FALSE] /\ Calm
                     ELSE desktop_file[op.app] /\ UNCHANGED desktop_file /\ Fault
       /\ last' = [kind |-> "uninstall", app |-> op.app, result |-> "ok",
                   clean |-> op.clean /\ removed, exact |-> exact]
       /\ index' = IF exact THEN index \ {op.app} ELSE index
  /\ op' = Idle
  /\ UNCHANGED <<files, desktop_dir, manifest, tmp, overlooked>>

-----------------------------------------------------------------------------
\* scan_system_applications finds the desktop files of the base image.  In
\* the app layer it looks into the root, where install_package puts none.
Scanned == SystemApps

NothingYet ==
  [kind |-> "none", app |-> Nobody, result |-> "none", clean |-> TRUE, exact |-> TRUE]

\* Process 1 dies and starts again; AppLayerManager::new makes the root and
\* desktop/ where they are missing.
Crash ==
  /\ crashes < MaxCrashes
  /\ crashes' = crashes + 1
  /\ op' = Idle /\ last' = NothingYet
  /\ index' = Scanned
  /\ MakeDirs({}) /\ desktop_dir' = TRUE
  /\ UNCHANGED <<desktop_file, manifest, tmp, overlooked, faults>>

Init ==
  /\ files = [a \in Apps |-> IF a \in Wide THEN {"dir"} ELSE {}]
  /\ desktop_dir = TRUE /\ desktop_file = [a \in Apps |-> FALSE]
  /\ manifest = {} /\ tmp = {}
  /\ index = Scanned
  /\ op = Idle /\ last = NothingYet
  /\ overlooked = {} /\ faults = 0 /\ crashes = 0

Install ==
  \/ \E a \in Apps : install_begin(a)
  \/ create_dir \/ unpack \/ unpacking \/ copy \/ write_desktop \/ install_rename

Uninstall ==
  \/ \E a \in Apps : uninstall_begin(a)
  \/ remove_record \/ uninstall_rename \/ remove_dir \/ uninstall_end

Next == Install \/ Uninstall \/ save_tmp \/ Crash

Spec == Init /\ [][Next]_vars

-----------------------------------------------------------------------------
(* Properties.                                                             *)

\* What op and last may be.
Operation ==
  {Idle} \cup [kind : {"install"}, app : Apps, at : InstallSteps,
               seen : SUBSET Apps, clean : BOOLEAN]
         \cup [kind : {"uninstall"}, app : Apps, at : UninstallSteps,
               seen : SUBSET Apps, clean : BOOLEAN]

Outcome ==
  {NothingYet} \cup [kind : {"install", "uninstall"}, app : Apps, result : {"ok", "error"},
                     clean : BOOLEAN, exact : BOOLEAN]

\* The type of every variable.
TypeOK ==
  /\ files \in [Apps -> SUBSET Contents]
  /\ desktop_dir \in BOOLEAN /\ desktop_file \in [Apps -> BOOLEAN]
  /\ manifest \in (SUBSET Apps) \cup {Torn} /\ tmp \in (SUBSET Apps) \cup {Torn}
  /\ index \subseteq Apps /\ overlooked \subseteq Apps
  /\ op \in Operation /\ last \in Outcome
  /\ faults \in 0 .. MaxFaults /\ crashes \in 0 .. MaxCrashes

\* The manifest forgets an app by its uninstallation, or by one that removes
\* the whole app layer, or by an installation that could not read it: no
\* crash, no failing write and no other operation does that, and no read
\* that fails for an uninstallation ("ACID manifest").
ManifestForgetsNothing ==
  [][\A a \in load_manifest \ load_manifest' :
       \/ op.kind = "uninstall" /\ a \in Within(op.app)
       \/ op.kind = "install" /\ op.seen # load_manifest]_vars

\* An app the manifest lists has its directory, at every moment and after
\* every crash: uninstall_app takes the record away first.  Unless it could
\* not see the record, or removed the root, and until the app is installed
\* again.
RecordedHasDir ==
  \A a \in load_manifest \ overlooked : "dir" \in files[a]

\* An installation reported finished is on record, with its desktop file.
ReportedIsRecorded ==
  op = Idle /\ last.kind = "install" /\ last.result = "ok" =>
    last.app \in load_manifest /\ desktop_file[last.app] /\ "dir" \in files[last.app]

\* An uninstallation reported finished has left nothing, whatever failed
\* installations and interrupted uninstallations came before it; unless the
\* manifest could not be read or the desktop file not be removed, which is
\* not reported.  In the index it has left nothing when the request spelled
\* the id as the index does.
UninstallLeavesNothing ==
  op = Idle /\ last.kind = "uninstall" /\ last.result = "ok" =>
    /\ last.clean => ~is_installed(last.app) /\ ~desktop_file[last.app]
    /\ last.exact => last.app \notin index

\* After one mishap, a crash anywhere or one failure, an app whose desktop
\* file is left still counts as installed, so that it can be removed; unless
\* the root was given up to a removal.
OneMishapHidesNothing ==
  op = Idle /\ faults + crashes <= 1 =>
    \A a \in Apps \ overlooked : desktop_file[a] => is_installed(a)
=============================================================================
