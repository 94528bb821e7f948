# AMG-OS in TLA+

A verification project for AMG-OS: the system session ("Process 1"), the desktop session ("Process 2"), the bus between
them, and the subsystems Process 1 carries. Models are checked with TLC on small instances; the theorems are proved with
TLAPS for every value of the constants. Paths below are relative to the repository.

## The system

Two native processes and a few clients talk over one Unix socket, the *e-bus* (`amgos-protocol/src/ebus`).

* **Process 1**, `amgos-system`: one dispatch loop (20 ms a turn: accept, poll one request of every subscriber, handle,
  publish the answers, poll downloads), two supervisor threads (`ebus-poller` accepts as well, `astrophage-telemetry`
  logs), and one thread for every `ApplyOtaUpdate`. systemd restarts it when it dies (`Restart=always`), and leaves its
  children alone (`KillMode=process`).
* **Process 2**, `amgos-desktop`: one thread that reads events, and a 144 Hz frame loop that takes them all, advances
  the boot phase and ticks the surfaces. systemd restarts it on failure.
* `filer-shell` and `astrophage-shell` are further clients; `terminow` and `settings` use no bus.

### Inventory

| component | state | operations | what is hard | what makes it correct |
|---|---|---|---|---|
| A/B updates (`ab_system`) | record of slots in memory and on disk, progress | mark boot, stage, rollback, status | a thread per request, power loss at any step, dropped I/O errors | never write the running slot; activate only what was verified; all or nothing at a boot |
| EventBus (`transport.rs`, `frame.rs`) | listener, subscribers, streams | accept, poll, publish, connect, send, read | two accepting threads, half-read and abandoned frames, full buffers, answers too large to send, hang-ups | requests in order and at most once; no gaps in events; nobody dropped because another is slow; what is written in one piece is handled |
| Boot (`main.rs` of both, `avm`, `supervisor`, continuity gate) | stage, chime, boot phase, gate | announcements, frames | two processes in any order, crash and restart of either, the wizard's answer in any phase | wordmark after chime; gate and phase disagree only in a desktop that came late; a desktop accepted in time gets ready |
| Downloads (`filer/core/downloads`) | jobs, staging files, curl children | start, poll, cancel, evict | a child process beside the loop, timeouts against late success, shared file names, orphans | complete means whole; over means still; cancel leaves nothing; all jobs end |
| App layer (`filer/core/packages`) | directories, desktop files, manifest | install, uninstall | a crash or failure between any two file operations, a manifest that cannot be read, ids of which nothing is left | which operations may forget an app or list what is gone; uninstall is complete |
| Pathfinder (`filer/core/pathfinder`) | documents, token map | scan, add, remove, query | staleness against the disk | what is gone is not found |
| File operations (`filer/core/fs`) | the disk | list, move, delete | partial failure | protected paths stay |
| Power, network, Bluetooth, permissions, MotionWave controller (`amgos-system`) | a few fields behind locks | one request each | errors of helpers dropped, an event published all the same, several clients, the desktop's own choices ahead of the events, requests that are not sent and streams that are discarded | the desktop shows what the services hold |
| Outsider bus (`eobus`) | numbering and queue of notifications | receive, dismiss | events may overtake each other | what it announces gets a banner |
| Astrophage (`astrophage/core`) | ring of 10,000 entries | record, kernel reader, snapshot | wrap-around, two writers, time stamp before the lock | newest entries in order |
| Pilot Control, MotionWave (`amgos-desktop`) | overlay, desktops, windows, swipe travel | toggle, switch, drag, open, close, swipe | calls at any frame of an animation | a window is in one place; the overlay settles |
| Tiling (`amgos-desktop/tiling`) | records, animations | register, command, tick | commands in the middle of an animation | rest where told; floating geometry survives |
| Notification centre | banners, newest first | push, dismiss, tick | pushes (in every boot phase), dismissals, timeouts and frames (only once ready) in any order | at most five stay; all but critical ones leave a ready desktop |
| Tray | drawer, badge, do-not-disturb | receive, dismiss, clear, open | two records of one thing | the badge counts what is there |
| Smart dock | icons, recents, animation | launch, close, overlap, cursor, tick | turned round at any frame | icons are those of windows; it settles |
| Lockscreen, wizard, shutdown screen | input fields, progress | | | drawing state, not modelled |
| Top bar, compositor rendering, error dialog | drawing | | | pure drawing, not modelled |
| Terminow | grid, pty | bytes of the shell | cursor past the end of a row, scrolling, half escape sequences | the screen is the end of an endless page |
| Settings, hardware probe | none worth modelling | | | not modelled |
| `FORKS`, assets, scripts | third-party | | | not modelled (two unit files are read for restarts) |

## Modules

| module | models | how it corresponds to the code |
|---|---|---|
| `AtomicUpdate` | the promise of an atomic update | abstract specification; no code of its own |
| `AbUpdate` | `ab_system/mod.rs`, its threads, the machine | an action per stretch of `stage_update` between two points where another thread or a power loss can get in; `saver` is the state lock held through `fs::write`, which truncates first |
| `AbUpdateProofs` | theorems about `AbUpdate` | |
| `EventBus` | `transport.rs`, `frame.rs` | `poll_requests` and `publish_event` are one step each, for they hold the subscriber lock throughout; a frame is whole, or a head and its rest: a tail, or a scrap if shorter than a header. `Remainders` is what a read leaves of a stream, `Retained` whether the stream is kept; `give_up` is the client's write timeout |
| `Boot` (extends `EventBus`) | start of both `main.rs`, supervisor, chime, gate | `stage` is the program counter of Process 1's `main`; `Frame` is one turn of the frame loop, all waiting events included; `chimes` counts calls of the player, whose failure the code drops |
| `Downloads` | `downloads/mod.rs` and curl | one action per method; curl is external and modelled by the arguments it gets (`--retry 3`, `--output`); files are inodes, so that an unlinked file can still be written |
| `AppLayer` | `packages/mod.rs`, Pathfinder's entries | one action per file operation; `Readings` is what `load_manifest` may return; `Wide` are ids whose directory is the root or above; `clean` remembers a failure the code passes over, `exact` whether the request spelled the id as the index does, `overlooked` the apps whose directory an uninstallation took without having seen their record |
| `PilotControl` | `pilot_control/mod.rs`, `motion_wave/mod.rs` | one action per method; a touch is recognised and dispatched in one step; callers pass any id (`AnyId`), and `homeless` remembers windows that were put on no desktop |
| `Tiling` | `tiling/mod.rs` | one action per method; a rectangle is a place, or "between" |
| `Services` | power, network, Bluetooth and input settings behind the dispatch loop, the desktop's copy of them | a handler is one step, for the main thread alone changes a service; requests wait in a queue of each client, events in one of the desktop; `select_profile` is the top bar's choice, shown before `send_choice` sends it or fails to; `publish` may discard the desktop's stream (`subscribed`) and `drop_requests` is a stream discarded, or frames swallowed, at the other end; `Restart` is the desktop ended and started again |
| `Astrophage` | the log, its two writing threads, `/dev/kmsg` | `Stamp` and `push_back` are two steps, for the time is taken before the lock |
| `Notifications` | `eobus/mod.rs`, `notifications/mod.rs` | `dispatched` is a set, for the events of two callers may overtake each other; `ready` is `BootPhase::DesktopReady`, outside of which nothing ticks; `frames` stands for an animation's progress and for the time since `visible_since` |
| `Tray`, `Dock` | `topbar/tray/notifications.rs`, `smart_dock/mod.rs` | one action per method |
| `Page` | the promise of a terminal's screen | abstract specification; no code of its own |
| `Grid` | `terminow/src/grid.rs` | a byte of `write_bytes` is a step; `scrolled` remembers the rows that left |
| `Subsequences` | `Vec::retain` | used by `EventBus` and `Notifications`; the library's `SelectSeq` is a recursion, of which nothing can be proved for every sequence, so it is said by counting places |
| `...Proofs` | theorems | `AppLayerProofs`, `DownloadsProofs`, `GridProofs`, `SubsequencesProofs` for the module of the name; `BootProofs` for `EventBus` and `Boot`; `DeskProofs` for `PilotControl` and `Tiling`; `SessionProofs` for `Services`, `Astrophage`, `Notifications`, `Tray` and `Dock` |
| `MC...` | values for TLC | `MCDesk` puts `PilotControl` and `Tiling` into one run, `MCSession` `Services`, `Astrophage`, `Notifications`, `Tray`, `Dock` and `Grid`; the parts share no state, so each behaviour exercises one of them |

Definitions named "Mutant" are small plausible bugs; each shows that the property it is paired with in `PROJECT.json`
notices it.

## Runs

| run | asks | bounds | result |
|---|---|---|---|
| `ab_update` | do two concurrent updates, rollbacks, failures, restarts and power losses keep the promises of `ab_system/mod.rs`? | 2 threads, 2 images, at most one hazard (`OneHazard`) | holds |
| `ab_restart` | is the running slot left alone with no way out? | as above | **violated**: see findings |
| `ab_partial` | is there ever half an image to boot? | as above | **violated** |
| `event_bus` | order, gaps, isolation, answers | a desktop with 2 requests, which may come in two pieces or be given up half-way, a shell with 1; 2 frames of buffer, 1 unasked event; requests answered, not answered, or with an answer too large | holds |
| `boot` | chime, gate, readiness, through crashes of both sides | 2 desktop processes, 1 crash of Process 1, 1 wizard's answer, 2 fade frames; buffers large enough never to fill and requests in one piece, which `event_bus` covers | holds |
| `boot_fault` | does a restarted desktop show anything? | no crash of Process 1, no wizard | **violated** |
| `downloads` | the four promises of a download | 2 downloads, 3 URLs of which two share a file name, 2 chunks, 1 crash | holds |
| `downloads_shared` | is a completed package kept? | as above | **violated** |
| `app_layer` | manifest and disk through failures and crashes | 2 apps, one of which the base image ships too, and an id that names the root; 2 mishaps, which are failing reads, writes or removals, or one of them a crash (`TwoMishaps`) | holds |
| `desk` | windows, overlay and tiles | 2 windows, 3 desktops and two ids that are none, threshold of one step, 2 or 3 frames an animation | holds |
| `session` | does the desktop show what the services hold, do log, notifications, badge, icons and dock agree with what happened, is the terminal's screen the end of a page? | 2 clients and 2 requests, any stream discarded at any publication; a ring of 2 with 3 kernel messages, 6 records; 4 notifications, at most 2 visible, of urgency normal and critical; 3 applications, 1 pinned; a grid of 3 columns and 2 rows, 10 bytes, 5 of them written | holds |
| `astrophage_kmsg` | is a problem kept as long as everything that happened has room? | a ring of 3, at most 3 kernel messages, 8 records | **violated** |

Why the bounds suffice: the hazards are between two actors (two OTA threads, two clients, two downloads, two apps, two
windows, two writers), and a third adds no new kind of interference to code that treats all alike; buffers, retries,
frames and desktops are counted to the first value at which the limit and its neighbours differ. `OneHazard` keeps the
state space of `AbUpdate` small and loses little: the properties are void, by their statement, after the first hazard
that matters, and the proof has no such bound. `TwoMishaps` leaves every pair of mishaps in any order but two crashes.
What is proved (below) holds for any values of the constants. The grid of `session` is small enough for a few bytes to
fill a row, wrap, scroll, and erase with the cursor past the end of the row.

`CHECK_DEADLOCK FALSE` is said where the system may stop: the bus and the boot after a shutdown or when nobody asks
anything more, downloads when no curl may be started any more, and the log and the terminal of `session` when the bounds
on records and bytes are reached.

### Fairness

`EventBus`: the main loop polls and handles as long as it runs, the poller accepts, a `write_all` goes on or is given
up, and a client that stays reads in a loop. Nothing obliges a client to connect, send or leave, a server to announce or
to answer, or anything to crash. `Boot`: `main` runs on to its loop, the threads and the frame loop go round.
`Downloads`: every active job is polled on every turn, and the clock passes the deadline; no curl and no server need do
anything. `MCDesk`, `MCSession`: the frame loop ticks, and nobody need push, dismiss, launch or move anything; banners
are ticked once the desktop is ready, which nothing makes it (`boot_fault` shows that it may never be), so
`BannersLeave` speaks of a ready desktop. All of it is weak fairness of loops that have no exit but the modelled ones.

## Findings

1. *A restart of Process 1 activates an update that was not booted* (`ab_restart`). `mark_boot_successful` runs at every
   start of Process 1 and copies `next_boot_slot` into `active_slot`; after a crash with an update staged, the
   "standby" slot of the next update is the one the machine runs from.
2. *A second update before the reboot is written over the slot that boots next* (`ab_partial`).
3. *A restarted desktop waits for a chime that is over* (`boot_fault`). The first desktop can miss the chime as well, if
   it is accepted late: `ChimeLeadsToDesktop` is stated for one accepted in time.
4. *Two URLs with the same last segment share a staging file* (`downloads_shared`).
5. *The log forgets in half a minute* (`astrophage_kmsg`). Every poll opens `/dev/kmsg` anew and reads its oldest 20
   messages: they are logged again every 50 ms, later ones never, and the 10,000 entries fill with them.

Seen while modelling, and noted as hazards or here only:

* Updates and packages: `boot_attempts` is never counted, so no rollback is ever automatic; the copy's result is
  dropped; an empty digest skips the verification; `data.tar.xz` installs "well" with no files. Nothing enters an
  installed app into Pathfinder, though a comment at `main.rs:262` announces it, and the scan at the next start looks in
  another directory than `install_package` writes to. A `manifest.json` that cannot be read counts as empty
  (`packages/mod.rs:394`): an installation then forgets all other apps, and an uninstallation removes the directory and
  leaves the record. An id that sanitizes to nothing or to dots names the root of the app layer or a directory above,
  and its uninstallation removes that. Pathfinder's entry is removed by the id as requested (`main.rs:289`), which is
  not the sanitized one it was made with. A cancelled unknown job is reported as cancelled; `evict_job` has no caller,
  so staged files pile up; a killed curl is not waited for.
* Bus: an event that encodes to more than 16 MiB is written to nobody, and `publish_event` discards every subscriber
  (its comment at `transport.rs:172` knows only closed connections and broken pipes); a client that gave a request up
  half-way has its next ones read into it; a listing that fails, a refused configuration and some other requests get no
  answer at all; the chime is announced though its player failed, and played again after a restart of Process 1; no
  client ever reconnects, and a desktop started again shows defaults until it is told; frames are checked by a sum
  modulo 255, which 0x00 and 0xFF share; ids of frames may be written out of order, and nobody reads them; `read_event`
  holds the stream's lock for up to five seconds, which only a concurrent sender on the same client, of which there is
  none, would feel.
* Boot: the wizard's answer makes a desktop ready from whatever phase, and one accepted after AudioReady and the chime
  then composes frames with its framebuffer gate locked.
* Services: a choice in the top bar whose request could not be sent stays on the screen; a desktop whose stream was
  discarded goes on showing what it last heard; the wizard's connection is not announced (`silent`, which
  `QuietMeansTold` leaves out); a refused shutdown leaves state and goodbye screen; switching Bluetooth off leaves
  devices connected in the list; Bluetooth events have no consumer; of all requests the desktop's `main.rs` sends only
  the wifi scan.
* Desktop: a swipe to the left on the first desktop leads to desktop 0, which does not exist, and the last desktop is
  out of its reach; a window moved to a desktop that does not exist is on none from then on (`homeless`); a tiling
  command during a restore loses the floating geometry (`FloatingKept` excludes it by `hurried`); `on_display_changed`,
  which nothing calls, leaves tiled windows as they were.
* Notifications: a banner pushed while the desktop is loading is there until it is ready; the sixth banner sends the
  oldest away, though the file's head says "they queue", and a normal one pushed onto five critical ones leaves at once;
  dismissing at the outsider bus leaves the banner, for nothing calls the notification centre's `dismiss`; what arrives
  under do-not-disturb is not counted but, dismissed, taken off the badge (`UnreadIsThere` says "at most" for that). The
  foreign menus published are of another shape than the top bar parses.
* Dock: the animation jumps when it is turned round; the recents may hold an app twice, or one that runs.
* Terminal: titles (`ESC ]`) end at their first letter, and the rest is printed; a grid of one row never scrolls.

## Proofs

All of them hold for any values of the constants that satisfy the named `ASSUME`s of the modules: special values differ
from ordinary ones, and capacities, frames and sizes are positive (the grid has at least two rows, and there is a URL to
download). Every safety and action property of a passing run is proved so, and so are the two refinements.

`AbUpdateProofs`, for any finite or infinite sets of threads and images:

* `TypeCorrect`: the type invariant, under any restarts.
* `ActiveSlotIsRunning`, `RunningSlotNeverWritten`: the slot the manager calls active is the running one while
  Process 1 is up, and no step changes the running slot, until Process 1 is restarted with an update pending (the
  hazard "restart"; `ab_restart` shows that this way out is needed). `ActiveIsRunning` is not inductive by itself: the
  next boot takes what is on disk, which a half-written record or one loaded and not yet marked decides. `SlotInv` adds
  what is true of the record on disk, of the one in memory and of the slots the threads have picked while Process 1 is
  in each of its phases.
* `UpdatesAreAtomic`: `AbUpdate` implements `AtomicUpdate` under the mapping `runs <- content[running]`,
  `offered <- content[BootSlot]`, `sound <- Sound`. `SoundInv` says, for every thread, what its slot holds at each step
  as long as no hazard has happened. Each step of `AbUpdate` is then an `Offer`, a `Boot`, a `Void` or a stutter.
* `ActivatedIsVerified`: the slot that boots holds what was demanded when it was activated. `VerInv` follows the image
  through the update: the file a thread has verified is the file while it copies, its copy is what was demanded until
  the record is saved, and what is claimed of a slot is never more than what was demanded of it.
* `StatusIsHonest`: the flag is set exactly while a thread updates, from `FlagInv`: at most one does.

`BootProofs`, for any clients, numbers of requests and events, and any buffers:

* `BusTypeCorrect`, `BootTypeCorrect`: types. That the subscribers are the open connections, once each, is part of it.
* `RequestsHandledInOrder`. The property speaks of what was handled only; `OrderInv` says what is in the stream
  meanwhile. What was handled (`Past`), what was polled and not handled, at most one of each client (`Present`), and the
  frames on their way (`Numbered`, `Fitting`) carry numbers that grow; a frame that begins a request comes after all
  that was taken, and as long as everything before it was written in one piece, its place in the stream is its number
  (`Complete`: nothing is missing). What was written in pieces may have been read into what follows; then nothing is
  known but that numbers grow.
* `EventsReadInOrder`, from `Delivered`, which says the same place by place: what was read and what is on its way are
  what was published from the accept on, up to the last event for a subscriber that is there; a half frame comes last
  and means that the client was dropped.
* `NoClientHarmsAnother`: a client that keeps its end is dropped only for its own full buffer, a request of its own that
  it wrote in pieces, an answer too large for everybody, or the end of the server. It rests on `OrderInv`: a tail or a
  scrap in a stream means a request of that client's in pieces.
* `WordmarkFollowsChime`, from `ChimeInv`: the trigger is published only when the chime was tried, and the phase of a
  desktop rests on events it has taken (`Knows`). `ReadyDesktopPresents`, from `LateInv`: a wizard's answer is published
  only after AudioReady and the chime of the same life of Process 1, and no stream outlives that life; so nothing that
  opens the gate stands behind a wizard's answer in what one client is sent. The boot makes steps of the bus only
  (`BootNextSteps`), so the invariants of the bus hold here without being proved again.

`AppLayerProofs`, for any apps and any number of failures and crashes:

* `AppLayerTypeCorrect`; `OnlyUninstallForgets`, from `Written`: a `manifest.tmp` that is about to be renamed is what
  the running operation makes of what it read, so that the torn one of a crash is never renamed, and an uninstallation
  that saves has read the manifest.
* `RecordsHaveDirectories` and `UninstalledIsGone`, from `InStep`: the directory is the first thing an installation
  makes and the last an uninstallation takes away, and in between the record goes first, or could not be seen and the
  app is one of the `overlooked`. `InstalledIsRecorded`.
* `OneMishapLeavesRemovable`, from `AfterMishaps`, which says what may be on disk after no mishap and after one: with
  none, a desktop file means a record or the end of an installation; that is why the first mishap hides nothing.

`DownloadsProofs`, for any URLs, file names, lengths and numbers of downloads and crashes: `DownloadsTypeCorrect`;
`NothingWorksForOver`, from `Wards` (no two jobs share a curl); `CompletedHasAll` and `CancelledIsGone`. These are
about a file, which is reached by a name. `Whose` says that a name stands for an inode created for it and that a curl
has one open that was created for its own name; so a download that has its name to itself is the only one to write its
file (`Alike`: what is in it is what its curl has written so far). `Kept` says that the curl of a completed job has
succeeded with all of it written and its file still there, and that a cancelled job's file is gone.

`SubsequencesProofs`: what `Retain` returns keeps the order, contains the places it should once each, and nothing else.

`SessionProofs`, in five parts that share no state.

Services: types; `NoScanWhenOff`; and `QuietDesktopIsRight`. That the desktop is right when all is quiet says nothing of
the busy states it is reached from. `ToldInv` says, as long as the desktop's stream is kept, of every topic where the
truth is meanwhile: in the last event of the topic on its way to the desktop, or, when there is none (`NothingTold`), in
what the desktop shows, or a choice of the desktop's own is still to be sent or dispatched. A choice that is lost takes
its topic out of `told` until the next event of it. Three lemmas say what a published event, an unrelated one and a
dispatch do to it, and every handler is an instance of one of them.

Astrophage: types; `ReaderSeesNewest`, from `TailOfPushed` (the ring is the end of all that was pushed) and
`StampsInOrder` (what a thread is about to push is younger than all it has pushed).

Notifications: `BannersGiveWay`, for any number of notifications and visible places: at most `max_visible` stay, unless
all that stay are critical. A push adds one and sends away the last that is not critical if there is one too many;
`PushMakesWay` counts the places that stay before and after, `FrameMakesWay` and `DismissalMakesWay` say that the other
steps, among them the `retain` of a frame, let none stay that did not before.

Tray, Dock: types; `BadgeCountsUnread`, with lemmas on the number of unread items when one is added,
removed or read; `IconsFollowWindows`; `DockKeepsHeading`, which says that the dock is always shown, hidden, or on its
way to where it should be.

`DeskProofs`: types of `Tiling` and `PilotControl`; `RestsWhereTold`, from `Led` (an animation leads to where the last
command said, and without one the tile is there); `HomeIsKept`; `EachWindowOnOneDesktop`, from `OnOneDesktop`, which
names the desktop instead of counting; windows that were lost to a desktop there is not are said to be on none.

`GridProofs`: `GridTypeCorrect`. The cursor stays on the grid or one past the end of its row, so that every index
formed is inside the cells, for any size and any bytes. `ScreenShowsPage`: `Grid` implements `Page` when the lines of the
page are the rows that scrolled away followed by the rows of the screen. The cells are one flat array, and the code
copies and clears ranges of it; lemmas say what each range is on lines (`WrittenLines`, `ScrolledLines`, `ErasedRow`,
`ErasedAll`, `BelowLines`), from where a place of the array is (`AtApart`, `RowsApart`). Then a printed character, a
control character and each escape sequence is a step of `Page` or a stutter.

Only model-checked: liveness, which this prover does not do: `RequestsGetThrough` of the bus, `ChimeLeadsToDesktop` of
the boot, `DownloadsEnd`, `OverlaySettles`, `TilesSettle`, `BannersLeave` and `DockSettles`. The runs that find a
violation need no proof: they show a behaviour.

## Not modelled, and assumptions

* The boot loader is assumed to follow `next_boot_slot`; nothing in the sources makes it.
* A write that has returned survives a power loss; caches of the disk are not modelled.
* Byte layout and serialization of frames; formats of packages; drawing. Of frames it is assumed that the sum of one read
  out of step is wrong and no frame is hidden in the middle of another's payload; that a head holds the whole header;
  and two scraps that stand together are taken for a header's worth of bytes.
* `handle` leaves open which request is answered, which is not and whose answer is too large: what each of them changes
  is in the module of its component.
* App ids with a slash, or spelled like the directories `desktop` and `staging`.
* The outsider bus's queue of 500 and the dock's list of recent apps: nothing reads them. Menus, for the same reason.
* Nothing in `amgos-desktop/src/main.rs` feeds input to Pilot Control, MotionWave, the tiling manager, the dock or the
  tray's drawer, and nothing in Process 1 feeds the outsider bus; their models take the calls the tests make.
* Pathfinder's ranking and token map are functions of the documents, read and written under one lock; Filer's file
  operations are single calls of the file system of which only the listing is used; lockscreen, wizard, error dialog
  and shutdown screen are input fields and progress values of one thread. None has an interleaving, a limit or a
  failure that a model would explore better than the tests do.
* `Services` leaves out a restart of Process 1: no client reconnects to it, so there is nobody to show its state to.
* The vendored forks (`FORKS/cosmic`, by far the largest part of the sources) are third-party code that AMG-OS does not
  call: its own compositor, tiling and input live in `amgos-desktop`.
* A `try_wait` that fails (`downloads/mod.rs:227`) cannot happen to a child nobody else waits for.

## Plan

Done: `AbUpdate`; `EventBus`; `Boot`; `Downloads`; `AppLayer`; `PilotControl`, `Tiling`; `Services`; `Astrophage`;
`Notifications`; `Tray`; `Dock`; `Page` and `Grid`; proofs of every safety and action property the passing runs check,
and of both refinements.

Next, in this order:

1. Abstract specifications: an ordered broadcast that `EventBus` implements; an installed set that `AppLayer`
   implements; a set of held packages for `Downloads`; with the runs that check the mappings and the proofs that each
   step is a step of the abstract one or a stutter.
2. Theorems for what the model holds beyond the properties: that `Boot` takes the steps of the bus only
   (`BootNextSteps`) stated as the refinement it is; a bound on the banners still on their way out.
