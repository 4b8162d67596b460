# Verification of GAMEHUB

GAMEHUB is a self-hosted game library: a server indexes a directory of ROMs,
firmware and save files and serves them over HTTP; clients on several machines
download them, keep saves in sync, install and configure emulators and
controllers, and register shortcuts in Steam. The TLA+ modules here model the
server's index and upload API, and of the client the sync as a whole, the save
synchronisation, the start of a game, and what it does to files it shares with
others: Steam's, the emulators', the user's. Paths below are relative to the
repository; the client is `src/gamehub_cli`, the server `src/gamehub_server`.

Run a model with `tlc -config SyncManual.cfg MCSaveSync`, a proof with
`tlapm IndexRepositoryProofs.tla`.

## Inventory

### Server

| component | state | operations | interacts with | what makes it correct |
|---|---|---|---|---|
| index repository (`index_repository.py`) | cached index, rendered payload, source signature, pending change, clock readings, one `RLock` | `load` (check, cached, forced), `load_payload`, `_poll_loop`, `_rebuild_locked`, `server_status` | reads the data root; called by request threads, the poller and the upload handlers | snapshots only move forward; a forced load sees what was on disk before it; changes are detected; a failing rebuild keeps the old snapshot and is retried |
| index builder (`indexer.py`, `save_index.py`) | none (hash cache on disk) | `build_index`, `scan_save_specs` | the data root | deterministic catalogue; temporary and backup files stay out of it |
| save upload API (`save_api.py`) | per-save lock registry with reference counts, files, `.part`, `.bak` | `PUT /v1/saves/{id}` | index repository, file system, clients | compare-and-swap per save; no lost update; backup before replacement; lock registry neither leaks nor splits |
| application (`main.py`) | none | routes, lifespan | all of the above | starts and stops the poller |

### Client

| component | state | operations | interacts with | what makes it correct |
|---|---|---|---|---|
| save decision (`common/save_sync.py`, `sync/planner.py`) | none | `classify_save_action`, `resolve_save_action` | state, index | neither side is favoured; the manual policy never guesses; a policy always decides |
| save stage and state (`sync/save_stage.py`, `save_conflicts.py`, `state.py`, `orchestrator.py`) | `state.json`: lineage, unresolved conflicts, offline markers | `gamehub sync` | server, local files, the other processes of the machine | no save is replaced by one that does not supersede it; conflicts are recorded until they are resolved |
| operator's resolution (`sync/save_resolution.py`) | the same | `gamehub doctor saves --keep-*` | the same | refuses saves that need no decision |
| shortcut session (`shortcuts/save_session.py`, `shortcut_launch.py`) | snapshot of the save before the game | pre-launch and post-exit sync | the game, the server | uploads only what it started from; an unreachable server never stops a game |
| plan and downloads (`sync/planner.py`, `transfer_stage.py`, `downloads.py`, `orchestrator.py`) | ROMs and firmware on disk, `.part` files, recorded checksums | `gamehub init`, `gamehub sync`, plain, `--verify`, dry | server, emulators, `state.json` | a completed sync leaves the index's files; nothing half written is ever read; repeated syncs converge |
| index fetch, server status (`sync/index.py`, `server_status.py`) | none | HTTP with retries | server | bounded retries |
| backups (`common/fsops.py`, `save_api.py`) | families of `.bak` files | `backup_existing_file`, pruning | every writer of user data | the newest backups are kept, of a second the first one more than the limit |
| Steam (`steam/`, `sync/steam_stage.py`) | Steam's shortcut, collection, cloud, override and artwork files | close, back up, edit, reopen | the Steam client | the files agree with the library after a run, what is the user's stays, Steam comes back |
| shortcut launch (`shortcuts/runtime.py`, `shortcut_launch.py`) | the emulator's processes | launch ways and fallbacks, wait, the two syncs around it | Steam, emulator, save session | an upload starts after the emulator ended |
| exit hook (`controllers/azahar_exit_hook.py`) | watcher and reader threads | end the emulator on Select and Start | input devices, launch | only the combination, and the started emulator only |
| controller profiles (`controllers/`) | managed profiles, their metadata, archives | seed, converge, doctor | emulator configuration | unmanaged files are archived, never lost; what GameHub wrote is on record |
| emulators (`emulators/`) | installed programs | install, resolve | package managers, files | what is half installed is not taken for an emulator; other data survives |
| emulator directories (`firmware/`, `emulators/save_resolution.py`) | directories and configuration files | deploy firmware, configure, find saves | the emulator that is launched | all of them mean the installation that is launched |
| save files (`emulators/save_resolution.py`, `shortcuts/save_session.py`) | exact files, learned roots | discover, resolve, learn | emulators, server | discovery and download agree; a learned tree travels between devices |
| artwork, configuration, command line, diagnostics | files | read, write, report | - | - |

What is hard to test is in the concurrency of the server (request threads and a
poller on one cache, coroutines on one registry of locks), in steps of clients
that are far apart in time (a plan and the transfer it leads to, the two ends of
a game session), in processes that end between a transfer and the write of
`state.json`, in replies that are lost, in files that Steam, the emulators and
the user change as well, in searches of one directory tree that have to come to
one result, and in time stamps and counters at their limits. `PROJECT.json` lists
each of these hazards at its line. Where the code does go wrong, so that the properties
name the case as an exception or the passing runs leave the fault out, the hazard
has a note instead of a property.

## Modules

| module | models | extended or used by |
|---|---|---|
| `IndexRepository` | the index repository, its poller, the threads that call it and a data root that changes and breaks | `IndexRepositoryProofs` |
| `SaveStore` | abstract: what an upload promises, a compare-and-swap register with lost replies | `SaveUpload` (refinement), `SaveSync` (as the server), `SaveUploadProofs` |
| `SaveUpload` | `put_save` with its lock registry, temporary files, backups, refreshes, crashes | `MCSaveUpload`, `SaveUploadProofs` |
| `SaveDecision` | the decision about one save, as operators | `SaveDecisionCheck`, `SaveSync` |
| `SaveDecisionCheck` | every input of the decision, one state each | `Device` |
| `SaveSync` | one save on the server and on several clients: syncs, sessions and operator decisions | `MCSaveSync`, `SaveSyncProofs` |
| `BackupRetention` | one family of backups | `Device` |
| `SyncPipeline` | `gamehub init` and `gamehub sync` from the health check to `state.json`, several runs | `SyncPipelineProofs` |
| `SteamLibrary` | the Steam stage and a Steam client | `MCSteam`, `SteamLibraryProofs` |
| `ControllerConvergence` | a directory of controller profiles, sync and doctor | `MCControllers`, `ControllerConvergenceProofs` |
| `ShortcutRuntime` | one launch of a shortcut with its exit hook | `ShortcutRuntimeProofs` |
| `EmulatorPaths` | which installation is launched and which directories are looked at | `Device` |
| `ConfigEdits` | the parts of GameHub that edit one configuration file of an emulator | `Device` |
| `EmulatorInstall` | the installation of missing emulators | `Device` |
| `ExactSaves` | the file an exact save stands for | `Device` |
| `LearnedSaves` | the trees of learned bindings on several devices | `Device` |
| `Device` | the seven parts of a client above that share no state, one moving at a time | `MCDevice`, `DeviceProofs` |

### IndexRepository

A source root is a version number; a signature, a built index and a payload are
each the versions they were computed from. `load` is cut where other threads or
the disk can get in between: every source root that a signature walk or a build
reads is a step, in any order; publishing the cache, the payload and the label
are steps, because `load_payload` reads the fields after `load` released the
lock; the lock is a variable. The clock is kept as ages (now minus a reading),
capped beyond the largest threshold they are compared with, which is sound
because only the comparisons matter. `quiet`, `floor` and `signedAfter` are
observers. A build fails exactly if a root it read was invalid.

Not modelled: the catalogue rules, the hash cache, gzip, start and stop of the
poller.

### SaveStore and SaveUpload

A handler runs on the event loop until it awaits: `loop` names the running
request, and only the wait for the lock and the read of the upload give the loop
up. The registry entry, its count, the lock's owner and its queue are separate
variables because the code keeps them apart. A crash ends every handler and
forgets locks and index, not files. The client's arguments are arbitrary.
`Abstract == INSTANCE SaveStore` maps a request to *applied* when its file is
in place, to *refused* when a 409 is prepared, and `ImplementsStore` checks the
refinement: an error reply says nothing about the effect, a 409 reports
what was stored at that moment.

A backup may fall into the second of the one before it (`burst`). Of a second the
`KeepLimit + 1` first backups push the oldest out; any further one is pruned as it
is made (`FitsInSecond`; why, is what `BackupRetention` shows), so in the model
too an upload can replace a save whose backup is gone at once.

Not modelled: parsing of the multipart body, validation of identifiers and sizes
(requests that end in 4xx before they reach the lock).

### SaveDecision and SaveSync

`SaveDecision` is the decision table of the code, with lineage, policy, mode and
the time stamps of a missed upload. `SaveSync` puts it to work. A process loads
`state.json`, fetches the index, plans, transfers, and writes `state.json` as a
whole; each is a step. Contents are numbered as games write them and `hist[v]`
is the set of contents that `v` supersedes: those it descends from, and those
that an operator, a policy or a missed upload's time stamps decided against.
The safety properties are stated with it.

Abstractions: one save that belongs to one title, as an exact file (trees of
learned roots are left out), with `[save_sync].enabled`. The server is
`SaveStore`'s register: an upload compares and replaces in one step, a download
that finds other content than announced fails its checksum. A fetched index
holds the server's present content; what a stale index could add is the business
of `IndexRepository`. A game reads the local file and writes it in one step.
A session that downloads hashes the file in the step that replaces it. How the
modification times compare is chosen freely by `Orders`.

`Faults` names what may go wrong in an instance; a fault that breaks a property
by itself gets a run of its own, which shows how.

### BackupRetention

A backup is a second, a collision number and its content. The same algorithm
is in `common/fsops.py` and `save_api.py`: the next backup of a second takes the
first number that is free, and pruning keeps what sorts last. When `KeepLimit + 1`
backups fell into a second, the one without a number has been pruned; the next
takes its name, sorts below all that are kept, and is pruned as soon as it is
made, and so are all after it until the second is over. Nothing in the code bounds
the backups of a second, and neither does the model: `Burst` is two above the
first one that is lost, and `KeepsNewest` says which backups are the ones kept.

### SyncPipeline

A sequence of runs on one client. A content is its version on the server; `0`
is no file and one value is a torn file. A run fetches the index with retries,
plans against the disk and the checksums of `state.json`, downloads firmware and
then content with a pool of workers (open the `.part` file, stream, verify,
replace; recorded in the order in which they complete), deploys firmware, and
writes `state.json` last. The stages that have modules of their own pass or
fail. The file system either has `rename`, or refuses it and
`replace_file` copies in place. `loose` and `touched` are observers: firmware
last written by a run that saved no state or by the user, and files the user
changed since the run planned. A title whose system lacks required firmware
waits for the next sync, as in the planner.

### SteamLibrary

`steam` is the client: it loads `shortcuts.vdf` and `localconfig.vdf` when it
starts and writes `localconfig.vdf` from memory when it exits. A run asks it to
close (a Deck's Steam is killed after that, a Mac's never), backs the files up,
and rewrites one file per step; it may be killed in between, and the user starts
or uses Steam, adds games and changes the library at any time. `run.touched`
records that somebody else changed the files during the run. An application id
is a pair of executable and title, because that is what its checksum is taken
of. What is not GameHub's in these files (`Foreign`) are the user's entries, by their numbers
in the order they were made. `Agrees` is the agreement of all files that a run is for.

### ControllerConvergence

A profile's text is GameHub's of some version or the user's; `entry` is the
version whose fingerprint the metadata has for it. Sync seeds what is missing
and repairs what it owns; the doctor reports, applies or, forced, takes over,
with the archive and its own backups. Each file and each metadata write is a
step; a kill may come between them, user edits and upgrades at any time.

### ShortcutRuntime

One launch on one of the hosts. The ways of launching are tried in order.
`client` has the ways whose process `Popen` knows, `alive` the instances of the
emulator that run, numbered by the way that started them or as the user's own
(`Early` before the launch, `Late` during the game), and `serves` the instance that
each way runs its game in: a Flatpak's client may end before it, and on a Mac
`open`, which is called without `-n`, goes to an instance of the bundle that is
running already. `pgrep` and `flatpak ps` may fail at every call, which the code
reads as nothing running. `blind` is an observer for the consequences the properties
name: an instance overlooked before the launch (`before`), at the end of the session
(`end`) or at the last signal (`kill`), a client that left its Flatpak behind
(`left`). Threads are the main thread, the watcher, and on Linux a reader per
device; events queue at the devices. A hook that breaks leads to the next way, and
to the end of the launch for Azahar on Linux, where it is a process of its own. The pre-launch and post-exit syncs are what `SaveSync` models in detail
and either change the state, change nothing or fail.

### EmulatorPaths and EmulatorInstall

`EmulatorPaths` is a host with one emulator, in the builds and places the code
searches; every search is the code's own order of candidates, of which the first
that is there counts (`FirstIn`). The user installs, removes, configures and launches; emulators create directories; a
sync makes shortcuts and writes configuration; the searches are repeated each
time, as in the code. The exceptions in its properties are cases where the
searches do disagree. Azahar's saves on a Mac are looked for last of all beside the
`qt-config.ini` in `~/.config` (`dotConfig`), as in the code. The uninstall entries of
Windows' registry, a last resort of the search for executables, are not modelled: an
installation that only they name is none of the places.
`resolve_azahar_user_dirs` and `resolve_azahar_runtime_user_dir`
(`firmware/targets.py:405`, `:438`) are called by nothing, so the directories they list
are none of the model's. `EmulatorInstall` takes the installers apart into download,
extraction or copy, and rename, each of which may fail or be the last. A download
that breaks off in its body and a temporary directory that cannot be made or removed
end the sync, as they do in the code (`CommandRaises`, `NextAfter`). On an ARM Mac a bundle
that is for Intel only counts as missing and is replaced (`"intel"`); of the
Flatpaks installed for all users the code looks for some emulators and not for
others (`host.shared`); a Dolphin of an old version that winget has installed ends the
sync (`MayBeLegacy`). What a sync
has left to install is a set, taken in the order in which the emulators are required;
a Dolphin required by its name and by a path to it is one emulator.

### ConfigEdits

The configuration file of PCSX2, Dolphin, Azahar or RetroArch as a sequence of
lines, and the parts of GameHub that edit it with one of three line editors: the
runtime settings of a sync, the assisted keys of `ControllerConvergence`'s sync
and doctor, the profile of a launch and the memory cards of a title. Each part
sets one key that stands for all of its own; a write is a step, as it is atomic
on the disk. Names carry whether they are spelled as GameHub spells them, since
the editors ignore case and the parser that looks for drift does not. Any file of
up to three lines is an initial state. The lines of others are the same ones before
and after, in their order and sections (`OthersAreKept`).

For PCSX2, Dolphin and RetroArch the property follows the lines as the emulator
reads them. Azahar's `qt-config.ini` has sections too, but GameHub edits it by
name alone: a key that is missing is appended to the file, and so falls into
whatever section is the last, and a key of the same name in another section is
overwritten with it. `Of` are the lines in the section the emulator reads, `Strays`
the others that GameHub takes for them, and `EditsSettle` excepts what follows. The
code's tests have files with all keys in their sections
(`tests/test_controller_apply.py:1084`), where the first does not happen.

### ExactSaves and LearnedSaves

`ExactSaves` is a binding with several file names below RetroArch's directories;
discovery (for uploads) and destination (for downloads) are the code's two
searches, over directories in the order the code prefers them. `LearnedSaves` is
titles on several devices that learn a root from what a session changed; paths are
sequences of segments, so that suffixes and prefixes are computed as the code does.
The profiles of a 3DS are directories (`profiles`): one the emulator has made counts
before anything is saved in it, as in the code. `ScopedSession` is about the device the
session ran on: it uploads files of its own title only, but from a
GameCube card, which titles share, in a session in which the game did not save, of
a title of which neither that device nor the server has a save, and once that
has happened (`Mixed`).

### Device

The parts above that share no state with each other, and the save decision and
the backups, are composed so that one run explores them all and one theorem
carries what is proved of a part over to the client: `part` names the one that
moves. A property of a part is stated under its own name with the part as a
condition. `MCDevice` gives it a small instance.

## Runs

Bounds: two source roots are the fewest with a read order; one version more than
the initial one suffices to be stale, two let a change follow a change; a stable
time and a TTL of one tick make both waits happen. Three upload requests are the
fewest with one holding a lock, one queued and one that arrives after the entry
was removed; two contents make a wrong backup visible. Two clients and three
contents give a common ancestor and two divergent successors; the fourth content
of `sync_offline_lost` is an offline write on top of that. Two titles of two
systems, two runs and one edit let a run find what a killed one left, changed
again. Two profiles, two versions and two edits let a kill and an
upgrade, or a damaged metadata file and an edit, meet. Two devices with three
events are the fewest where the combination is split over two controllers. One
firmware and two ROMs, two workers and two faults give a blocked title, a
failing member of a group with another in flight, and a second failure in the
run that repairs the first. In `device` two backups are kept and five in one
second are two more than survive; three files may hold two names in all the
places of the search; three changes by the user install, remove and leave
leftovers; three lines may hold a section twice, or a key twice in one; two devices and two titles with four events let every tree be learned,
travel and meet the other title's.

| run | question | result |
|---|---|---|
| `index_small` | With a poller and a thread that makes every kind of call, TTL included: do readers go back in time, is the snapshot monotone, its label on the safe side? | holds |
| `index_live` | Does a fair poller converge to a disk that stopped changing in a valid state? | holds, unless the label was taken after its build |
| `upload_safety` | Do concurrent uploads of a save, with failures and a crash, implement the register; are writers ordered and the registry exact? | holds |
| `upload_edits` | With uploads of two saves of a binding and an operator who edits `saves/`: can a binding get two learned roots, is every queued request answered? | holds |
| `sync_manual` | Under the manual policy, with killed processes and unanswered uploads: can a save be lost on either side, is every recorded lineage a common ancestor? | no save is lost, lineages are shared |
| `sync_live` | One client with a policy, one without, offline sessions: does every client end up in sync, or with a conflict on record if it has no policy? | holds |
| `sync_offline_lost` | Can a save be lost with offline sessions? | **violated** with tied time stamps |
| `sync_pipeline` | Inits and syncs with failures, kills, changes on both sides, with and without `rename`: is a completed sync current, is anything half written ever read, do verifying syncs converge? | holds |
| `steam_library` | Against a Steam that is started, used and closed at any time: do applied runs leave agreement, is the user's part kept, does Steam come back? | holds |
| `controller_profiles` | With edits, damage, upgrades and kills: is a user's text ever lost, does a run settle, does an upgrade arrive? | holds |
| `shortcut_runtime` | With all launch ways, fallbacks, threads and listings that fail: does only the combination end the emulator, does it always, does the upload wait for the end? | holds, with the exceptions its properties name |
| `device` | Every input of the save decision; backups; exact and learned saves on the devices; paths and installation of emulators on three hosts, and the edits of their configuration | holds, with the exceptions its properties name |

The violation is a finding in `PROJECT.json`, with the sentence of the
documentation it disagrees with. In all the save runs what is overwritten is
still in the backups; the properties are about the file that is in use.

Some properties are conjunctions of parts that have names in their module
(`WritersAreOrdered`, `NothingIsGuessed`, `DiscoveryAgrees`, `TreeTravels`,
`PathsAgree`, `InstallIsSafe`); a mutant is listed for most of the parts.

### What the models show besides

Exceptions that the properties state, or a few lines in a `.cfg`, worth a look
before the code nearby is changed:

- A change between a forced build and its signature is never detected without a
  TTL (`PollerConverges` excepts `signedAfter`; `index_repository.py:409`).
- `SaveSync` with `Faults = {"download"}` and sessions violates
  `ServerNotLost`: a pre-launch download fails, the game is played on the old
  save, and its changes replace the server's (`save_session.py:903`).
- Without any fault but an upload that overtakes a download, it does so with
  three clients if the server comes back to an old content: a session's download
  is refused because the server has moved on, an operator keeps the old save on
  another machine, and at the exit the session finds on the server exactly what
  it failed to download and takes its own save for a successor
  (`save_session.py:903`; 24 steps, found by the proof of `ServerNotLost`, which
  needs `NoReturn`). With two clients it cannot happen.
- With `Faults = {"play"}` it violates `LocalNotLost`: a game that writes
  between the plan and the download of a sync is overwritten (`save_stage.py:182`).
- With two processes of one client (`ClientOf` mapping both to `c1`) it violates
  `LocalNotLost`: the hash that `record_uploaded_save` takes after the upload
  may be of content that was never uploaded (`save_stage.py:65`).
- A sync that fails between an upload and its write of `state.json` leaves a
  lineage behind its upload, and the next change is taken for a conflict.
- Assisted keys are looked for with their exact spelling and written ignoring
  case: below a section the user spells differently, the key is set, and
  every later doctor reports it as drift (`EditsSettle`; `convergence.py:459`).
- Dolphin's runtime settings are the only ones written without a backup of the
  file (`EditsSettle`; `runtime_dolphin.py:52`).
- `SaveUpload` with `AllowEdits = TRUE` violates `ReplacedIsBackedUp`: a file
  edited while an upload is read is replaced without a backup; and `IndexHasNoParts`
  fails: a refresh during an upload advertises `<name>.part` as a save.
- `IndexRepository` with `MaxDelay = 2` violates `RebuildsOnlySettled`: the time
  of a signature walk counts as time without changes.
- From the second backup above the limit on, a backup of that second is pruned as
  it is made, on the client and on the server: a collision number is reused within
  the second (`KeepsNewest`, `BackupsAreCurrent`; `fsops.py:142`,
  `save_api.py:105`).
- `pgrep` and `flatpak ps` that fail are read as nothing running: a failure
  before the launch on a Mac has the combination end the instance the user had
  open (`ComboOnly`), one at the last signal has it end nothing (`ComboEnds`), and one
  at the end of the game starts the upload while it runs (`UploadAfterExit`;
  `azahar_exit_hook.py:127`, `:446`).
- On a Mac `open` without `-n` runs the game in the instance the user had open,
  which the combination then spares (`ComboEnds`; `runtime.py:252`).
- A key that is missing from Azahar's `qt-config.ini` is written to its last section
  (`EditsSettle`; `config_edit.py:60`).
- Without `--verify` a sync keeps a replaced ROM of the same size and firmware
  written by a run that saved no state (`CompleteIsCurrent`); without `rename` a
  kill leaves half a file (`NoHalfFiles` says `renames`).
- A transport error of the artwork service ends a sync before its state is saved.
- A hook that fails after it started the emulator starts a second one, and the
  upload does not wait for the first (`UploadAfterExit` excepts `main.broken`). For
  Azahar on Linux it ends the hook's process, and the upload starts at once.
- Leftover directories of a removed Flatpak, an override of the directories on
  Linux or Windows, or an emulator launched by a path make GameHub look for saves
  elsewhere than the emulator puts them (`SavesAreSeen`).
- On Windows, reinstalling a broken Dolphin removes the user directory inside
  its installation, and half a copy is taken for an installation (`DataStays`,
  `HalfIsSeen`).
- On a Mac a kill between the two moves of a bundle, or a move back that fails
  too, leaves no bundle where one was (`BundleIsKept`).
- A session in which nothing was saved may learn another title's tree and upload
  it under its own, if neither that device nor the server has a save of the title;
  GameCube cards are shared by all titles (`ScopedSession`).
- The directory of any core, made for another system, has RetroArch's saves looked
  for below the core directories only (`OnlyFileIsFound`; `save_resolution.py:606`).
- A killed run leaves a controller profile that is on no record; if an upgrade comes
  before the next run it is taken for the user's from then on (`NoOrphans`;
  `profiles.py:686`).

### Fairness

- `IndexRepository`: the clock ticks, the poller wakes up and every thread that
  entered `load` goes on: a daemon thread with a timed wait and lock holders that
  do no unbounded work.
- `SaveUpload`: every handler that can run runs (one event loop; the body was
  spooled before the lock is taken).
- `SaveSync`: a process finishes what it began (weak fairness), and `gamehub
  sync` is run again and again on every client (strong fairness, as a session
  may use the process in between). The second is an assumption about the user,
  not about the code; without it nothing converges. Games stop because contents
  are bounded.
- `SteamLibrary`: a run that can go on does, and Steam, once starting or closing,
  gets there. Nothing obliges anybody to run, use or start Steam.
- `ShortcutRuntime`: the main thread, the watcher and the readers run on, and a
  Flatpak's client follows its application. The emulator need not obey a
  request, and the user need not press anything.
- `ControllerConvergence`: a started run goes on, and a sync is started again
  and again (the user, as above).
- `SyncPipeline`: a run and its workers go on; the user goes on running `init`
  until it is done and `sync --verify` (strong fairness), and removes a
  `state.json` that cannot be read, which the code asks for by failing. Faults
  are bounded.

## Proofs

Proved for every value of the constants, from the assumptions next to them:

- `IndexRepositoryProofs`: `TypeOK`, `RebuildExclusive`,
  `SignatureConservative`, `ReadersSeeFloor` and `SnapshotsMoveForward`, for
  any roots, callers, thresholds and bounds. None of the three last ones is
  inductive. `IInv` adds what holds inside a rebuild: nothing is ahead of the
  disk (`SnapshotInv`, `ReadInv`); a root that a build has read is at least as
  recent as anything published, walked or promised before the lock was taken
  (`BuildInv`), because it was read from a disk that was ahead of all of these;
  the phases of the publication agree one after the other (`PublishInv`). One lemma
  per action shows that it preserves `IInv`; the action property follows from
  `BuildInv` at the step that publishes the cache.
- `DeviceProofs`, about the parts of `Device`, each proved of its own
  specification; `PartsAreTheirOwn` and `EditsAreTheirOwn` lift them to the client,
  whatever part moves. Every property of a part is proved, and `DeviceTypes` puts the
  types together:
  - the decision: its three properties, and `NothingIsGuessed`, for any set of
    contents, by cases on policy and lineage.
  - backups: `KeepsNewest` and the types, for any limit above zero, burst and
    clock. `BackupInv` says that the files are the last ones made of the first
    `KeepLimit + 1` of their seconds, that their names sort as they were made, and
    that the names of the current second are numbered without a gap, which is
    where the next name is looked for. Once the number 0 is free the next backup
    takes it, and as many as the limit are newer, so that it is the one that is pruned.
  - installation: `InstallIsSafe` with all its parts and the types, for any set of emulators and order of
    requirement (`Libraries`). User data is only removed with the old Dolphin, so
    `InstallInv` has to say that this runs for a Dolphin that was not available: what
    is left to install on Windows is missing, what is missing is left or failed
    (`InstallMissing`), and a bundle that was there is still there or aside
    (`InstallBundles`).
  - exact saves: `DiscoveryAgrees` and the types, for any file names and layouts.
    `ExactInv` adds that what is on record was found or chosen by the searches
    (`Remembered`); `Searches` is the lemma that the two searches end at one
    file in every tree.
  - learned saves: `TreeTravels` and the types, for any devices, titles and profiles;
    the hypothesis `LearnRules` only names the three rules of the code. `LearnInv`
    says where things come from: a file lies where the game of its title
    plays from under some profile (`FilesInv`), whose directory is there (`ProfilesInv`), a root on record is
    the root of a file that is there (`RootsInv`), and what is on the server has
    left its profile behind (`ServerInv`). That a file comes back to its place
    then is a fact about sequences: cutting a path at a root and joining the rest to
    another root of the same rule changes nothing but the profile.
  - paths: `PathsAgree` and the types, for any set of hosts out of the three systems
    and four emulators of the code (`PathHosts`) and any number of changes. That what is
    available is launched follows from the types. The rest needs `PathsInv`: where the
    emulator put its saves there is a configuration of it, and its executable was not
    removed since (`WrittenHere`); a directory of Dolphin that holds saves holds its
    configuration as well, a shortcut's user directory is there, and on Linux so is one of
    the configuration directories a later sync looks for (`DolphinKnown`); a configuration
    file lies in a directory that is there; and on a Mac, where an existing root comes first,
    a configuration in the Documents was not written before the Documents had a root. The
    last two keep a search from being overtaken: a directory that GameHub
    creates could otherwise come before the one found so far (`FirstConfStays`,
    `Pcsx2RootStays` and its like for the other emulators).
  - edits: `EditsSettle` and the types, for files of any length and any number of the
    user's edits (`EmulatorFiles`). `EditsInv` only adds to the types that a section
    line has no value; the work is in lemmas about the two line editors. Every
    edit is described by the place where lines came in and by how many there are
    (`Edited`). From that follow that no other line changes its section, which
    is the last header before it, that what was written is read back, by the editors and
    the parser, and that the edit is needed no more.
- `SaveUploadProofs`, for any saves, requests, contents, backup limit and number
  of crashes:
  - `TypeOK`, `OneWriterPerSave`, `RegistryExact` from `LockInv`, which adds that
    a handler past the lock is the owner of the lock it found. The exact registry
    is what exclusion rests on: two requests of one save found the same lock object
    because the entry stays as long as one of them is registered. `TypeOK` in turn
    needs it, for the reference count to stay a natural number.
  - `PartsCleanedUp`, inductive as it stands, and with the two before it
    `WritersAreOrdered`.
  - `RootsStayConsistent`, from `RootInv`: a `.part` file counts as the save it
    will become, a handler decides on an index that is current since it keeps the
    event loop from its load to its decision, and only an operator removes a save.
  - if `AllowEdits = FALSE`: `ReplacedIsBackedUp`, but for the backups that do not
    outlive their second, and `ImplementsStore`, from
    `UploadInv`, which adds that a handler past its load works on what is there
    (`WorksOnCurrent`) and answers what it did (`RespondsTruly`). One lemma per
    action names the abstract step it implements; `NoLostUpdate` follows by
    `UpdatesAreNotLost`, a theorem of `SaveStore` alone, for which `RestoredBySomeone`
    adds that a version an applied upload replaced is only back because another one
    restored it. With edits neither holds, since an edit may fall
    between a load and a write; the code makes no such promise.

- `SyncPipelineProofs`, for any titles, firmware, workers, retries and number of
  runs, faults and versions:
  - `TypeOK`, from `TypeInv`: from the fetch on the index names every file.
  - `NoHalfFiles`, from `WholeInv`, which also covers the `.part` contents that
    are about to be put in place.
  - `RecordedWasThere` and `CompleteIsCurrent`, from five parts that hold one
    after the other along the run: which job states a stage allows (`StageInv`);
    every checksum of a run that is not on file yet is of a job of this run, whose file still has
    that content unless the user touched it (`SumsInv`); firmware that is not on
    record is loose (`LooseInv`); what the plan leaves out is current as far as
    a run can tell (`PlanInv`); what is deployed is what the library has
    (`DeployInv`). `CompleteIsCurrent` is about the last stage only and says
    nothing of the ones before it, so it is far from inductive.
- `ControllerConvergenceProofs`, for any profile files, user texts, versions,
  keep limit and number of edits. The order of the files is a sequence that
  visits all of them.
  - `TypeOK`; `NoOrphans`, from `Accounted`: what GameHub wrote is on record, or
    seeded and about to be recorded, or the job stands between the write and
    its record.
  - `RunsSettle`, from `Progress`: each file that the pass has left behind is
    settled or reported. The proof goes along the sequence, by the position of the job.
  - `UserTextKept`, from the types alone, by what each step does with the text it
    replaces: the keep limit is the only way for it to get lost.
- `SaveSyncProofs`, for any machines, processes, policies, modes and contents.
  `TypeOK` holds of every instance. `LineageShared`, `LocalNotLost` and
  `ServerNotLost` need hypotheses, each of which has a counterexample without it
  (see above): `Undisturbed`, that the server answers around sessions, games do
  not write into a sync, and each machine runs one process; and `[]NoReturn`, that
  the server does not come back to what a session failed to download. None of
  the three is inductive. `IInv` adds that supersession is
  transitive and closed (`Ancestry`, `InUse`), that *every* lineage, in memory as on
  disk, names one content that file and server both descend from, and for each
  step of a process why what it is about to do loses nothing: the save it
  replaces is an ancestor, or a choice was made (`Downloading`, `Uploading`,
  `Playing`, …). `Learned` carries it over the steps of the others: the server
  only moves to what supersedes what it had, so what a process fetched is an
  ancestor of what the server has now. `NoReturn` is not taken on trust where
  it can be had: `SyncsLoseNothing` proves the three properties of syncs and
  operators, with any policies and with failing transfers and killed processes,
  where there are no sessions; `ManualLosesNothing` proves them with sessions
  where nobody chooses, which `OrderInv` (contents only descend from earlier
  ones) shows to imply `NoReturn`. `sync_manual` checks all three with operators
  and sessions on two clients.
- `ShortcutRuntimeProofs`, for any devices and any number of events: `TypeOK`,
  `UploadAfterExit` and `ComboOnly`. The first part of `UploadAfterExit` rests on
  `LaunchInv`: unless a hook broke only the current way was ever
  spawned, and the instance that serves it ends before its client, but for a Flatpak's,
  which may have left it behind or whose session is followed by the hook. `ComboOnly` rests on
  `ReaderInv`, which relates what a reader believes to the events it has not
  read: after all of them it is where its device is, and at no point in
  between are both buttons down for it unless they were on the device. The lemmas
  `DownRead` and `DownAppend` say what a read and an event do to that. The
  signals spare the user's instance by `OwnInv`: it was seen before the spawn, unless
  that listing failed.

- `SteamLibraryProofs`, for any titles, executables, icons and bounds: `TypeOK`,
  `UserKept`, and `AppliedRunAgrees`. The last is a promise at the end of a run
  that nobody disturbed. `AgreeInv` says, for each step, which files agree by then;
  `UniqueInv` that no application id is listed twice, so that updating an entry in place and
  looking it up again find the same one; `ControlInv` and `BackupInv` what a run
  knows and has backed up at each step; `LiveInv` that live cloud entries are
  only in a file that can be read and under an id, because an update of a
  file that cannot be read starts from an empty one.

Each invariant was checked with TLC on the instance of the run before it was
proved. What the proofs changed in the models: two cases of `AfterFetch` and
`AfterStage` in `SyncPipeline` overlapped where TLC takes the first; the reasons
of a plan are a set of their own in `SaveSync` instead of `STRING`; the order of
the files is an assumption of `ControllerConvergence`. Selections by a LAMBDA,
whose library definition the prover cannot expand, became sets or first indices: the
foreign entries of `SteamLibrary` (whose `TypeOK` also says more now), the
installers of `EmulatorInstall`, the directories of `ExactSaves`, the searches
of `EmulatorPaths`. The lines of others in `ConfigEdits` are compared by their positions
instead of by a fold, and a client that edits no file has one that does not exist, so
that it stays a client of `ConfigEdits`. What the proofs found is `NoReturn`, and that the backups kept
are no longer the last ones after the `KeepLimit + 1`-th of a second.

Only model-checked is liveness, and what rests on `ENABLED`: outside the prover's
reach. These are the instances of `Settles`, `Converges`, `ComboEnds`,
`UpgradeArrives`, `SteamReopens`, `Answered` and `PollerConverges`. Every other
property of a passing run is proved, from the hypotheses named above. What the
runs add to a proof is that the cases it speaks of do happen in an instance.

The converse holds for `RebuildExclusive`, `NoLostUpdate` and
`ReplacedIsBackedUp`: they are proved for every instance and no run repeats them.

## Not modelled

- The catalogue rules of the index builder, the parsers, the command line, the
  configuration, diagnostics and reports: sequential code over data, best
  tested.
- Detection of controllers: enumeration of devices and bit layouts of three
  operating systems.
- The contents of profiles, and which bindings a launch puts into Dolphin's and
  Azahar's files for the controllers it finds; RetroArch's remap files, and
  settings that are filled in only where there are none.
- Steam on Windows; the choice of images at the artwork service.
- Of the installers: the elevated retry on Windows, what a custom install command
  does, and the cores of RetroArch. Of the resolution: the registry of Windows.
- The managed RetroArch for N64 on macOS.
- Start and stop of the poller: `main.py` starts it once.
- An upload that outlives its client (`transfer.py:104`): `SaveSync` stores an
  unanswered upload before the client goes on.

## Plan

Modelled, in the order in which user data depends on it: index repository,
uploads, save decision, save synchronisation, backups; then the sync as a
whole, Steam, controllers, the launch of a shortcut; then paths, installation and
save files. Next:

1. The refinement of `SaveStore`'s register by what `SaveSync` takes the server for.
2. `SaveSync` refined: uploads that outlive their client, several saves.
